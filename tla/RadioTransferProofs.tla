------------------------ MODULE RadioTransferProofs ------------------------
(***************************************************************************)
(* Every safety property of the radio transfer, for all clips, payload and  *)
(* window sizes, queue and air depths, losses, repetitions, allocation      *)
(* failures, silences and any number of sessions and resets.                *)
(*                                                                          *)
(* The argument: what a packet of a session names or carries is the clip    *)
(* that session offers, however late or often it arrives; an acknowledgement *)
(* names no more than was stored; and the validator, which the receiver asks *)
(* after every packet, does not see where the packets were cut.             *)
(***************************************************************************)
EXTENDS RadioTransfer, WireProtocolProofs, SequenceTheorems, FiniteSetTheorems,
        WellFoundedInduction

-----------------------------------------------------------------------------
(* The invariant, by parts.                                                 *)

Waiting == rx_pc \in {"begin", "clear", "tick_clear"}

\* The sender's main loop, its commands and what its flags mean.
SenderBusy ==
    /\ active \in [Boards -> BOOLEAN] /\ sending \in [Boards -> BOOLEAN]
    /\ main_pc \in {"idle", "claimed"} /\ commands \in Seq(Commands)
    /\ configured_window \in Nat
    /\ phase \in {"idle", "begin", "data", "finish"} /\ tx_stale \in BOOLEAN
    /\ active["sender"] <=> phase # "idle" \/ main_pc = "claimed" \/ Starts # {}
    /\ main_pc = "claimed" => phase = "idle" /\ Starts = {}
    /\ Starts # {} => phase = "idle" /\ \A i, j \in Starts : i = j
    /\ active["sender"] /\ phase = "idle" => Len(offered) < MaxSessions

\* The receiver's worker and its main loop.
Handshake ==
    /\ rx_pc \in {"run", "begin", "clear", "tick_clear", "tick"}
    /\ rx_active \in BOOLEAN /\ rx_verified \in BOOLEAN /\ rx_stale \in BOOLEAN
    /\ player_request \in {"idle", "begin", "clear"}
    /\ lifecycle_done \in {"empty", "done", "failed"}
    /\ Waiting <=> player_request # "idle" \/ lifecycle_done # "empty"
    /\ player_request = "idle" \/ lifecycle_done = "empty"
    /\ rx_pc # "run" => ~rx_active /\ ~rx_verified
    /\ ~(rx_active /\ rx_verified)
    /\ rx_pc = "run" => (active["receiver"] <=> rx_active)
    /\ rx_pc = "begin" => active["receiver"]
    /\ rx_pc = "tick" => ~active["receiver"]
    /\ player_request = "begin" => rx_pc = "begin"
    /\ player_request = "clear" => rx_pc # "begin"
    /\ lifecycle_done = "failed" => rx_pc = "begin"
    /\ rx_stale => Timeouts
    /\ lifecycle_done = "failed" => FALSE \in Allocations

\* What was offered, stored, verified and reported.
History ==
    /\ offered \in Seq(Clips) /\ Len(offered) <= MaxSessions
    /\ stored \in [Sessions -> Nat]
    /\ \A s \in 1..Len(offered) : stored[s] <= Size[offered[s]]
    /\ \A s \in Sessions : s > Len(offered) => stored[s] = 0
    /\ verified \subseteq 1..Len(offered) /\ sent \subseteq verified
    /\ \A s \in verified : stored[s] = Size[offered[s]]
    /\ resets \in 0..MaxResets

\* The sender sends the latest offer and has acknowledged no more than was stored.
SenderInStep ==
    /\ WindowOK(window)
    /\ session \in 0..Len(offered) /\ source \in Clips \cup {NoClip}
    /\ phase # "idle" =>
          /\ session = Len(offered) /\ session > 0 /\ source = offered[session]
          /\ window.total = Size[source] /\ window.acknowledged <= stored[session]
    /\ phase = "finish" => window.acknowledged = window.total

\* The receiver's record of its session is the offer's.
ReceiverInStep ==
    /\ rx_session \in 0..Len(offered) /\ rx_size \in Nat /\ rx_crc \in Clips \cup {NoClip}
    /\ rx_offset \in Nat /\ rx_last_ack \in Nat
    /\ Waiting \/ rx_active \/ rx_verified => rx_session > 0
    /\ rx_session > 0 => /\ rx_crc = offered[rx_session] /\ rx_size = Size[rx_crc]
                         /\ rx_offset <= stored[rx_session]
    /\ rx_verified => rx_session \in verified

\* A request names its session's clip or carries a piece of it, and is a finish
\* only when all of it was stored; an answer tells what was stored or verified.
Asked(p) ==
    /\ p.session <= Len(offered)
    /\ p.kind = "data" =>
          /\ p.payload = Bytes(offered[p.session], p.offset, Len(p.payload))
          /\ p.offset + Len(p.payload) <= Size[offered[p.session]]
    /\ p.kind # "data" => p.crc = offered[p.session] /\ p.offset = Size[p.crc]
    /\ p.kind = "finish" => stored[p.session] = p.offset
Given(p) ==
    /\ p.session <= Len(offered)
    /\ p.kind = "data_ack" => p.offset <= stored[p.session]
    /\ p.kind = "finish_ack" => p.session \in verified

Askeds == {p \in Requested : Asked(p)}
Givens == {p \in Answered : Given(p)}

PacketsInStep ==
    /\ DOMAIN air = Boards /\ DOMAIN queue = Boards
    /\ air["sender"] \in Seq(Askeds) /\ queue["receiver"] \in Seq(Askeds)
    /\ air["receiver"] \in Seq(Givens) /\ queue["sender"] \in Seq(Givens)
    /\ reply \subseteq Givens

\* What the memory holds, and where the parser stands in it.
MemoryInStep ==
    /\ capacity \in Nat /\ ram \in Seq(Clips \X Nat) /\ Len(ram) <= capacity
    /\ parser \in Validator /\ parser.published <= Len(ram)
    /\ rx_pc = "begin" => rx_offset = 0
    /\ rx_pc = "begin" /\ lifecycle_done = "done" =>
          ram = <<>> /\ parser = Fresh /\ capacity = rx_size
    /\ RamHoldsOffer
    /\ rx_active \/ rx_verified => parser.accepted

IInv ==
    /\ SenderBusy /\ Handshake /\ History /\ SenderInStep /\ ReceiverInStep
    /\ PacketsInStep /\ MemoryInStep

\* Without a reset the link keeps the order of the sessions, and without any fault
\* the receiver goes on with a well-formed clip from its begin to its end.
AtLeast(q, n) == \A i \in 1..Len(q) : n <= q[i].session
Sorted(q) == \A i, j \in 1..Len(q) : i <= j => q[i].session <= q[j].session
Ordered(n, q, a) ==
    /\ Sorted(q) /\ Sorted(a) /\ AtLeast(q, n) /\ AtLeast(a, n)
    /\ \A i \in 1..Len(q) : AtLeast(a, q[i].session)
InOrder == Ordered(rx_session, queue["receiver"], air["sender"])

NoFault == resets = 0 /\ ~Timeouts /\ FALSE \notin Allocations

GoesOn ==
    NoFault =>
        /\ InOrder
        /\ \A s \in Sessions : s > rx_session => stored[s] = 0
        /\ rx_session > 0 /\ offered[rx_session] \in Wholes =>
              /\ stored[rx_session] = rx_offset
              /\ rx_pc = "begin" \/ rx_active \/ rx_verified

-----------------------------------------------------------------------------
(* Induction over 0..N, and what a loop that comes to rest computes.        *)

LEMMA Induct ==
    ASSUME NEW N \in Nat, NEW S, 0 \in S, \A n \in S : n + 1 \in 0..N => n + 1 \in S
    PROVE  0..N \subseteq S
  <1> DEFINE T == (0..N) \ S
             R == {ss \in Nat \X Nat : ss[1] < ss[2]}
  <1> SUFFICES ASSUME T # {} PROVE FALSE
    OBVIOUS
  <1>1. IsWellFoundedOn(R, Nat)
    BY NatLessThanWellFounded DEF OpToRel
  <1>2. T \in SUBSET Nat
    OBVIOUS
  <1>3. \E i \in T : \A j \in T : ~ (<<j, i>> \in R)
    <2> HIDE DEF R, T
    <2> QED BY <1>1, <1>2, WFMin
  <1>4. PICK i \in T : \A j \in T : ~ (<<j, i>> \in R)
    BY <1>3
  <1>5. i - 1 \in Nat /\ i - 1 \in 0..N /\ i \in 0..N /\ i \notin S /\ (i - 1) + 1 = i
    OBVIOUS
  <1>6. i - 1 \in S
    <2>1. <<i - 1, i>> \in R
      BY <1>5
    <2>2. i - 1 \notin T
      <3> HIDE DEF R, T
      <3> QED BY <1>4, <2>1
    <2> QED BY <1>5, <2>2
  <1>7. (i - 1) + 1 \in S
    BY <1>5, <1>6
  <1> QED BY <1>5, <1>7

\* A step that moves brings the measure down.
Descends(V, N, step, measure) ==
    /\ N \in Nat /\ step \in [V -> V] /\ measure \in [V -> 0..N]
    /\ \A v \in V : step[v] # v => measure[step[v]] < measure[v]

\* What holds where nothing moves, and before a step wherever it holds after it,
\* holds everywhere.
LEMMA ByDescent ==
    ASSUME NEW V, NEW N, NEW step, NEW measure, Descends(V, N, step, measure),
           NEW S, \A v \in V : step[v] = v \/ step[v] \in S => v \in S
    PROVE  V \subseteq S
  <1> DEFINE T == {n \in 0..N : \A v \in V : measure[v] <= n => v \in S}
  <1>1. N \in Nat /\ \A v \in V : measure[v] \in 0..N /\ step[v] \in V
    BY DEF Descends
  <1>2. 0 \in T
    <2> SUFFICES ASSUME NEW v \in V, measure[v] <= 0 PROVE v \in S
      BY <1>1
    <2>1. measure[step[v]] \in 0..N /\ measure[v] \in 0..N
      BY <1>1
    <2>2. step[v] = v
      BY <2>1 DEF Descends
    <2> QED BY <2>2
  <1>3. ASSUME NEW n \in T, n + 1 \in 0..N PROVE n + 1 \in T
    <2> SUFFICES ASSUME NEW v \in V, measure[v] <= n + 1 PROVE v \in S
      BY <1>3
    <2>1. CASE step[v] = v
      BY <2>1
    <2>2. CASE step[v] # v
      <3>1. measure[step[v]] < measure[v]
        BY <2>2 DEF Descends
      <3>2. measure[step[v]] <= n /\ step[v] \in V
        BY <1>1, <3>1
      <3> QED BY <3>2
    <2> QED BY <2>1, <2>2
  <1>4. 0..N \subseteq T
    <2> HIDE DEF T
    <2> QED BY <1>1, <1>2, <1>3, Induct
  <1>5. N \in T
    BY <1>1, <1>4
  <1> QED BY <1>1, <1>5

\* f follows step to where it rests.
Settled(f, V, step) == f = [v \in V |-> IF step[v] = v THEN v ELSE f[step[v]]]

LEMMA SettledExists ==
    ASSUME NEW V, NEW N, NEW step, NEW measure, Descends(V, N, step, measure)
    PROVE  \E f : Settled(f, V, step)
  <1> DEFINE Low(n) == {v \in V : measure[v] <= n}
             T == {n \in 0..N : \E f : Settled(f, Low(n), step)}
  <1>1. N \in Nat /\ \A v \in V : measure[v] \in 0..N /\ step[v] \in V
    BY DEF Descends
  <1>2. 0 \in T
    <2>1. \A v \in Low(0) : step[v] = v
      <3> SUFFICES ASSUME NEW v \in V, measure[v] <= 0 PROVE step[v] = v
        OBVIOUS
      <3>1. measure[step[v]] \in 0..N /\ measure[v] \in 0..N
        BY <1>1
      <3> QED BY <3>1 DEF Descends
    <2> DEFINE f == [v \in Low(0) |-> v]
    <2>2. f = [v \in Low(0) |-> IF step[v] = v THEN v ELSE f[step[v]]]
      <3> HIDE DEF Low
      <3> QED BY <2>1
    <2>3. Settled(f, Low(0), step) /\ 0 \in 0..N
      BY <1>1, <2>2 DEF Settled
    <2> HIDE DEF f, Low
    <2> QED BY <2>3
  <1>3. ASSUME NEW n \in T, n + 1 \in 0..N PROVE n + 1 \in T
    <2>1. PICK f : Settled(f, Low(n), step)
      OBVIOUS
    <2> DEFINE g == [v \in Low(n + 1) |-> IF step[v] = v THEN v ELSE f[step[v]]]
    <2>2. n \in Nat
      OBVIOUS
    <2>3. ASSUME NEW v \in Low(n + 1), step[v] # v PROVE f[step[v]] = g[step[v]]
      <3> DEFINE w == step[v]
      <3>1. w \in V /\ measure[w] < measure[v] /\ measure[w] \in 0..N /\ measure[v] \in 0..N
        BY <1>1, <2>3 DEF Descends
      <3>2. w \in Low(n) /\ w \in Low(n + 1)
        BY <2>2, <3>1
      <3> HIDE DEF Low, w
      <3>3. f[w] = IF step[w] = w THEN w ELSE f[step[w]]
        BY <2>1, <3>2 DEF Settled
      <3>4. g[w] = IF step[w] = w THEN w ELSE f[step[w]]
        BY <3>2
      <3> QED BY <3>3, <3>4 DEF w
    <2>4. g = [v \in Low(n + 1) |-> IF step[v] = v THEN v ELSE g[step[v]]]
      <3> HIDE DEF Low
      <3>1. \A v \in Low(n + 1) : (IF step[v] = v THEN v ELSE f[step[v]])
                                = (IF step[v] = v THEN v ELSE g[step[v]])
        BY <2>3
      <3> QED BY <3>1
    <2> HIDE DEF g
    <2> QED BY <1>3, <2>4 DEF Settled
  <1>4. 0..N \subseteq T
    <2> HIDE DEF T
    <2> QED BY <1>1, <1>2, <1>3, Induct
  <1>5. Low(N) = V
    BY <1>1
  <1>6. N \in T
    <2> HIDE DEF T
    <2> QED BY <1>1, <1>4
  <1> HIDE DEF Low
  <1> QED BY <1>5, <1>6 DEF T

-----------------------------------------------------------------------------
(* The validator: one turn of its loop.                                     *)

LEMMA SizesUsed ==
    /\ HeaderSize \in Nat \ {0} /\ RecordSize \in Nat \ {0} /\ SmallestRecord \in Nat \ {0}
    /\ Rate \in Nat \ {0} /\ Fps \in Nat \ {0} /\ AacSamples \in Nat \ {0}
  BY StreamConstants

LEMMA QuotientIsNat ==
    ASSUME NEW x \in Nat, NEW y \in Nat \ {0}
    PROVE  x \div y \in Nat
  OBVIOUS

LEMMA SampleIsNat ==
    ASSUME NEW n \in Nat
    PROVE  frame_sample(n) \in Nat /\ aac_sample(n) \in Nat
  <1>1. n * Rate \in Nat /\ Fps \div 2 \in Nat
    BY SizesUsed
  <1>2. n * Rate + Fps \div 2 \in Nat
    BY <1>1
  <1>3. frame_sample(n) \in Nat
    BY <1>2, QuotientIsNat, SizesUsed DEF frame_sample
  <1>4. ASSUME n # 0 PROVE (n - 1) * AacSamples \in Nat
    <2>1. n - 1 \in Nat
      BY <1>4
    <2> QED BY <2>1, SizesUsed
  <1> QED BY <1>3, <1>4 DEF aac_sample

LEMMA StreamFields ==
    ASSUME NEW stream, StreamType(stream)
    PROVE  /\ stream.size \in Nat /\ stream.info.marked \in BOOLEAN
           /\ stream.info.frames \in Nat /\ stream.info.samples \in Nat
           /\ stream.info.records \in Nat /\ stream.info.maximum_record \in Nat
           /\ Len(stream.records) \in Nat
           /\ \A i \in 1..Len(stream.records) :
                 /\ stream.records[i].sample \in Nat /\ stream.records[i].size \in Nat
                 /\ stream.records[i].intact \in BOOLEAN
  <1> DEFINE Info == [marked : BOOLEAN, frames : Nat, samples : Nat, records : Nat,
                      maximum_record : Nat]
             Item == [kind : STRING, sample : Nat, size : Nat, intact : BOOLEAN]
  <1>1. stream \in [info : Info, records : Seq(Item), size : Nat]
    BY DEF StreamType
  <1>2. /\ stream.info \in Info /\ stream.records \in Seq(Item) /\ stream.size \in Nat
    <2> HIDE DEF Info, Item
    <2> QED BY <1>1
  <1>3. Len(stream.records) \in Nat
    BY <1>2
  <1>4. \A i \in 1..Len(stream.records) : stream.records[i] \in Item
    <2> HIDE DEF Item
    <2> QED BY <1>2, ElementOfSeq
  <1> QED BY <1>2, <1>3, <1>4

LEMMA ValidatorFields ==
    ASSUME NEW v \in Validator
    PROVE  /\ v.published \in Nat /\ v.videos \in Nat /\ v.audios \in Nat
           /\ v.last_sample \in Nat /\ v.last_available \in Nat /\ v.accepted \in BOOLEAN
           /\ Parsed(v) \in Nat
  BY DEF Validator, Parsed

LEMMA SameValidator ==
    ASSUME NEW v \in Validator, NEW w \in Validator, v.published = w.published,
           v.videos = w.videos, v.audios = w.audios, v.last_sample = w.last_sample,
           v.last_available = w.last_available, v.accepted = w.accepted
    PROVE  v = w
  BY DEF Validator

LEMMA RefusedFields ==
    ASSUME NEW v \in Validator
    PROVE  /\ Refused(v) \in Validator
           /\ Refused(v).published = v.published /\ Refused(v).videos = v.videos
           /\ Refused(v).audios = v.audios /\ Refused(v).last_sample = v.last_sample
           /\ Refused(v).last_available = v.last_available /\ ~Refused(v).accepted
           /\ Parsed(Refused(v)) = Parsed(v)
  BY DEF Validator, Refused, Parsed

\* The next record is there and good.
Counts(v, available, stream) ==
    LET r == stream.records[Parsed(v) + 1]
    IN /\ v.accepted /\ v.published > 0 /\ Parsed(v) < stream.info.records
       /\ HeadFits(v, r, stream) /\ RecordFits(v, r, stream)
       /\ v.published + RecordSize + r.size <= available

\* The next record is there, or its head is, and it is not good.
Refuses(v, available, stream) ==
    LET r == stream.records[Parsed(v) + 1]
    IN /\ v.accepted /\ v.published > 0 /\ v.published + RecordSize <= available
       /\ \/ Parsed(v) >= stream.info.records
          \/ ~HeadFits(v, r, stream)
          \/ /\ HeadFits(v, r, stream) /\ ~RecordFits(v, r, stream)
             /\ v.published + RecordSize + r.size <= available

LEMMA CountedFields ==
    ASSUME NEW v \in Validator, NEW available \in Nat, NEW stream, StreamType(stream),
           Counts(v, available, stream)
    PROVE  LET r == stream.records[Parsed(v) + 1]
               w == Counted(v, r)
           IN /\ r.size \in Nat /\ r.size >= SmallestRecord /\ r.sample \in Nat
              /\ w \in Validator
              /\ w.published = v.published + RecordSize + r.size
              /\ w.videos = IF r.kind = "video" THEN v.videos + 1 ELSE v.videos
              /\ w.audios = IF r.kind = "audio" THEN v.audios + 1 ELSE v.audios
              /\ w.last_sample = r.sample /\ w.last_available = v.last_available
              /\ w.accepted = v.accepted /\ Parsed(w) = Parsed(v) + 1
  <1> DEFINE r == stream.records[Parsed(v) + 1]
             w == Counted(v, r)
  <1>1. /\ r.size \in Nat /\ r.size >= SmallestRecord
    BY SizesUsed, StreamFields DEF Counts, HeadFits
  <1>2. r.sample \in Nat /\ (r.kind = "video" \/ r.kind = "audio")
    BY SampleIsNat, ValidatorFields DEF Counts, RecordFits
  <1> HIDE DEF r
  <1>3. /\ w \in Validator
        /\ w.published = v.published + RecordSize + r.size
        /\ w.videos = IF r.kind = "video" THEN v.videos + 1 ELSE v.videos
        /\ w.audios = IF r.kind = "audio" THEN v.audios + 1 ELSE v.audios
        /\ w.last_sample = r.sample /\ w.last_available = v.last_available
        /\ w.accepted = v.accepted
    <2> DEFINE V == IF r.kind = "video" THEN v.videos + 1 ELSE v.videos
               A == IF r.kind = "audio" THEN v.audios + 1 ELSE v.audios
               P == v.published + RecordSize + r.size
    <2>1. V \in Nat /\ A \in Nat
      BY ValidatorFields
    <2>2. P \in Nat
      BY <1>1, SizesUsed, ValidatorFields
    <2>3. w = [v EXCEPT !.videos = V, !.audios = A, !.last_sample = r.sample, !.published = P]
      BY DEF Counted, Validator
    <2> HIDE DEF V, A, P, w
    <2>4. /\ w \in Validator /\ w.published = P /\ w.videos = V /\ w.audios = A
          /\ w.last_sample = r.sample /\ w.last_available = v.last_available
          /\ w.accepted = v.accepted
      BY <1>2, <2>1, <2>2, <2>3 DEF Validator
    <2> QED BY <2>4 DEF V, A, P
  <1>4. w.videos + w.audios = v.videos + v.audios + 1
    <2>1. v.videos \in Nat /\ v.audios \in Nat
      BY ValidatorFields
    <2>2. CASE r.kind = "video"
      <3>1. w.videos = v.videos + 1 /\ w.audios = v.audios
        BY <1>3, <2>2
      <3> QED BY <2>1, <3>1
    <2>3. CASE r.kind = "audio"
      <3>1. w.videos = v.videos /\ w.audios = v.audios + 1
        BY <1>3, <2>3
      <3> QED BY <2>1, <3>1
    <2> QED BY <1>2, <2>2, <2>3
  <1> QED BY <1>1, <1>2, <1>3, <1>4 DEF Parsed, r

LEMMA TurnMeans ==
    ASSUME NEW v \in Validator, NEW available \in Nat, NEW stream, StreamType(stream)
    PROVE  /\ Counts(v, available, stream) =>
                ReadRecord(v, available, stream) = Counted(v, stream.records[Parsed(v) + 1])
           /\ Refuses(v, available, stream) => ReadRecord(v, available, stream) = Refused(v)
           /\ ~Counts(v, available, stream) /\ ~Refuses(v, available, stream) =>
                ReadRecord(v, available, stream) = v
           /\ ~(Counts(v, available, stream) /\ Refuses(v, available, stream))
  <1> DEFINE r == stream.records[Parsed(v) + 1]
  <1>1. v.published \in Nat /\ stream.info.records \in Nat /\ Parsed(v) \in Nat
        /\ RecordSize \in Nat \ {0}
    BY ValidatorFields, StreamFields, SizesUsed
  <1>2. HeadFits(v, r, stream) => r.size \in Int /\ r.size > 0
    BY StreamFields, SizesUsed DEF HeadFits
  <1> HIDE DEF r
  <1>3. ReadRecord(v, available, stream) =
          IF ~v.accepted \/ v.published = 0 \/ available - v.published < RecordSize THEN v
          ELSE IF Parsed(v) >= stream.info.records \/ ~HeadFits(v, r, stream) THEN Refused(v)
          ELSE IF available - v.published - RecordSize < r.size THEN v
          ELSE IF RecordFits(v, r, stream) THEN Counted(v, r) ELSE Refused(v)
    BY DEF ReadRecord, r
  <1>4. Counts(v, available, stream) <=>
          /\ v.accepted /\ v.published > 0 /\ Parsed(v) < stream.info.records
          /\ HeadFits(v, r, stream) /\ RecordFits(v, r, stream)
          /\ v.published + RecordSize + r.size <= available
    BY DEF Counts, r
  <1>5. Refuses(v, available, stream) <=>
          /\ v.accepted /\ v.published > 0 /\ v.published + RecordSize <= available
          /\ \/ Parsed(v) >= stream.info.records
             \/ ~HeadFits(v, r, stream)
             \/ /\ HeadFits(v, r, stream) /\ ~RecordFits(v, r, stream)
                /\ v.published + RecordSize + r.size <= available
    BY DEF Refuses, r
  <1> HIDE DEF Counts, Refuses
  <1>6. CASE HeadFits(v, r, stream)
    <2>1. r.size \in Int /\ r.size > 0
      BY <1>2, <1>6
    <2>2. available - v.published < RecordSize <=> ~(v.published + RecordSize <= available)
      BY <1>1
    <2>3. available - v.published - RecordSize < r.size
            <=> ~(v.published + RecordSize + r.size <= available)
      BY <1>1, <2>1
    <2>4. v.published + RecordSize + r.size <= available => v.published + RecordSize <= available
      BY <1>1, <2>1
    <2>5. /\ v.published = 0 <=> ~(v.published > 0)
          /\ Parsed(v) >= stream.info.records <=> ~(Parsed(v) < stream.info.records)
      BY <1>1
    <2> QED BY <1>3, <1>4, <1>5, <1>6, <2>2, <2>3, <2>4, <2>5, Zenon DEF r
  <1>7. CASE ~HeadFits(v, r, stream)
    <2>1. available - v.published < RecordSize <=> ~(v.published + RecordSize <= available)
      BY <1>1
    <2>2. v.published = 0 <=> ~(v.published > 0)
      BY <1>1
    <2> QED BY <1>3, <1>4, <1>5, <1>7, <2>1, <2>2, Zenon DEF r
  <1> QED BY <1>6, <1>7

-----------------------------------------------------------------------------
(* The validator: the loop, which stops because every turn that changes     *)
(* anything publishes a record or refuses.                                  *)

Turn(available, stream) == [v \in Validator |-> ReadRecord(v, available, stream)]
Distance(available) ==
    [v \in Validator |-> IF v.accepted /\ v.published <= available
                         THEN available - v.published + 1 ELSE 0]

LEMMA TurnIsTyped ==
    ASSUME NEW v \in Validator, NEW available \in Nat, NEW stream, StreamType(stream)
    PROVE  ReadRecord(v, available, stream) \in Validator
  BY TurnMeans, CountedFields, RefusedFields

LEMMA TurnDescends ==
    ASSUME NEW available \in Nat, NEW stream, StreamType(stream)
    PROVE  Descends(Validator, available + 1, Turn(available, stream), Distance(available))
  <1> DEFINE turn == Turn(available, stream)
             distance == Distance(available)
  <1>1. turn \in [Validator -> Validator]
    BY TurnIsTyped DEF Turn
  <1>2. distance \in [Validator -> 0..(available + 1)]
    <2> SUFFICES ASSUME NEW v \in Validator
                 PROVE  (IF v.accepted /\ v.published <= available
                         THEN available - v.published + 1 ELSE 0) \in 0..(available + 1)
      BY DEF Distance
    <2>1. v.published \in Nat
      BY ValidatorFields
    <2>2. v.published <= available => available - v.published + 1 \in 0..(available + 1)
      BY <2>1
    <2>3. 0 \in 0..(available + 1)
      OBVIOUS
    <2> QED BY <2>2, <2>3
  <1>3. ASSUME NEW v \in Validator, turn[v] # v
        PROVE  distance[turn[v]] < distance[v]
    <2> DEFINE w == ReadRecord(v, available, stream)
    <2>1. w \in Validator /\ turn[v] = w /\ w # v
      BY <1>3, TurnIsTyped DEF Turn
    <2>2. v.published \in Nat /\ RecordSize \in Nat
      BY ValidatorFields, SizesUsed
    <2>3. distance[v] = IF v.accepted /\ v.published <= available
                        THEN available - v.published + 1 ELSE 0
      BY DEF Distance
    <2>4. distance[w] = IF w.accepted /\ w.published <= available
                        THEN available - w.published + 1 ELSE 0
      BY <2>1 DEF Distance
    <2> HIDE DEF distance, turn
    <2>5. CASE Counts(v, available, stream)
      <3> DEFINE r == stream.records[Parsed(v) + 1]
      <3>1. /\ r.size \in Nat /\ r.size >= SmallestRecord
            /\ w.published = v.published + RecordSize + r.size /\ w.accepted = v.accepted
        BY <2>5, TurnMeans, CountedFields
      <3>2. v.accepted /\ v.published + RecordSize + r.size <= available
        BY <2>5 DEF Counts
      <3> HIDE DEF r, w
      <3>3. SmallestRecord \in Nat /\ SmallestRecord > 0
        BY SizesUsed
      <3>4. w.published <= available /\ v.published <= available
            /\ available - w.published < available - v.published
            /\ w.published \in Nat
        BY <3>1, <3>2, <3>3, <2>2
      <3>5. distance[w] = available - w.published + 1
            /\ distance[v] = available - v.published + 1
        BY <2>3, <2>4, <3>1, <3>2, <3>4
      <3>6. distance[w] < distance[v]
        BY <2>2, <3>4, <3>5
      <3> QED BY <2>1, <3>6
    <2>6. CASE Refuses(v, available, stream)
      <3>1. ~w.accepted
        BY <2>6, TurnMeans, RefusedFields
      <3>2. v.accepted /\ v.published + RecordSize <= available
        BY <2>6 DEF Refuses
      <3> HIDE DEF w
      <3>3. distance[w] = 0 /\ distance[v] = available - v.published + 1
        BY <3>1, <3>2, <2>2, <2>3, <2>4
      <3>4. distance[w] < distance[v]
        BY <2>2, <3>2, <3>3
      <3> QED BY <2>1, <3>4
    <2> QED BY <2>1, <2>5, <2>6, TurnMeans
  <1> HIDE DEF turn, distance
  <1> QED BY <1>1, <1>2, <1>3 DEF Descends, turn, distance

LEMMA LoopMeans ==
    ASSUME NEW v \in Validator, NEW available \in Nat, NEW stream, StreamType(stream)
    PROVE  ReadRecords(v, available, stream) =
             IF ReadRecord(v, available, stream) = v THEN v
             ELSE ReadRecords(ReadRecord(v, available, stream), available, stream)
  <1> DEFINE After(f) == [now \in Validator |->
                            IF ReadRecord(now, available, stream) = now THEN now
                            ELSE f[ReadRecord(now, available, stream)]]
             loop == CHOOSE f : f = After(f)
  <1>1. \A u : ReadRecords(u, available, stream) = loop[u]
    BY Zenon DEF ReadRecords
  <1>2. \E f : f = After(f)
    <2>1. PICK f : Settled(f, Validator, Turn(available, stream))
      BY TurnDescends, SettledExists
    <2>2. \A now \in Validator :
             Turn(available, stream)[now] = ReadRecord(now, available, stream)
      BY DEF Turn
    <2>3. f = After(f)
      BY <2>1, <2>2 DEF Settled
    <2> QED BY <2>3
  <1>3. loop = After(loop)
    <2> HIDE DEF After
    <2> QED BY <1>2
  <1>4. loop[v] = IF ReadRecord(v, available, stream) = v THEN v
                  ELSE loop[ReadRecord(v, available, stream)]
    <2> HIDE DEF loop
    <2> QED BY <1>3
  <1> HIDE DEF loop
  <1> QED BY <1>1, <1>4

\* What the loop leaves: a state in which nothing more can be read.
LEMMA LoopKeeps ==
    ASSUME NEW available \in Nat, NEW stream, StreamType(stream), NEW v \in Validator
    PROVE  LET w == ReadRecords(v, available, stream)
           IN /\ w \in Validator /\ w.last_available = v.last_available
              /\ v.published <= w.published
              /\ v.published <= available => w.published <= available
              /\ ReadRecord(w, available, stream) = w
              /\ v.published = 0 \/ ~v.accepted => w = v
  <1> DEFINE End(u) == ReadRecords(u, available, stream)
             Kept(u) == /\ End(u) \in Validator /\ End(u).last_available = u.last_available
                        /\ u.published <= End(u).published
                        /\ u.published <= available => End(u).published <= available
                        /\ ReadRecord(End(u), available, stream) = End(u)
                        /\ u.published = 0 \/ ~u.accepted => End(u) = u
             S == {u \in Validator : Kept(u)}
  <1>1. ASSUME NEW u \in Validator, ReadRecord(u, available, stream) = u PROVE Kept(u)
    <2>1. End(u) = u
      BY <1>1, LoopMeans
    <2>2. u.published \in Nat
      BY ValidatorFields
    <2> HIDE DEF End
    <2> QED BY <1>1, <2>1, <2>2
  <1>2. ASSUME NEW u \in Validator, ReadRecord(u, available, stream) # u,
               Kept(ReadRecord(u, available, stream))
        PROVE  Kept(u)
    <2> DEFINE n == ReadRecord(u, available, stream)
    <2>1. End(u) = End(n) /\ n \in Validator
      BY <1>2, LoopMeans, TurnIsTyped
    <2> HIDE DEF End
    <2>2. /\ End(n) \in Validator /\ End(n).last_available = n.last_available
          /\ n.published <= End(n).published
          /\ n.published <= available => End(n).published <= available
          /\ ReadRecord(End(n), available, stream) = End(n)
      BY <1>2
    <2>3. /\ u.accepted /\ u.published > 0 /\ n.last_available = u.last_available
          /\ u.published <= n.published /\ (n.published <= available)
      <3>1. u.published \in Nat /\ RecordSize \in Nat
        BY ValidatorFields, SizesUsed
      <3>2. CASE Counts(u, available, stream)
        <4> DEFINE r == stream.records[Parsed(u) + 1]
        <4>1. /\ r.size \in Nat /\ n.published = u.published + RecordSize + r.size
              /\ n.last_available = u.last_available
          BY <3>2, TurnMeans, CountedFields
        <4>2. u.accepted /\ u.published > 0 /\ u.published + RecordSize + r.size <= available
          BY <3>2 DEF Counts
        <4> HIDE DEF r, n
        <4>3. u.published <= n.published /\ n.published <= available
          BY <3>1, <4>1, <4>2
        <4> QED BY <4>1, <4>2, <4>3
      <3>3. CASE Refuses(u, available, stream)
        <4>1. n.published = u.published /\ n.last_available = u.last_available
          BY <3>3, TurnMeans, RefusedFields
        <4>2. u.accepted /\ u.published > 0 /\ u.published + RecordSize <= available
          BY <3>3 DEF Refuses
        <4> HIDE DEF n
        <4>3. u.published <= n.published /\ n.published <= available
          BY <3>1, <4>1, <4>2
        <4> QED BY <4>1, <4>2, <4>3
      <3> QED BY <1>2, <3>2, <3>3, TurnMeans
    <2>4. u.published \in Nat /\ n.published \in Nat /\ End(n).published \in Nat
      BY <2>1, <2>2, ValidatorFields
    <2> HIDE DEF n
    <2>5. u.published <= End(n).published
      BY <2>2, <2>3, <2>4
    <2>6. ~(u.published = 0)
      BY <2>3, <2>4
    <2> QED BY <2>1, <2>2, <2>3, <2>5, <2>6
  <1> HIDE DEF Kept
  <1>3. \A u \in Validator :
           Turn(available, stream)[u] = u \/ Turn(available, stream)[u] \in S => u \in S
    <2>1. \A u \in Validator : Turn(available, stream)[u] = ReadRecord(u, available, stream)
      BY DEF Turn
    <2> QED BY <1>1, <1>2, <2>1
  <1>4. Validator \subseteq S
    <2> HIDE DEF S
    <2> QED BY <1>3, TurnDescends, ByDescent
  <1>5. Kept(v)
    BY <1>4
  <1> QED BY <1>5 DEF Kept

-----------------------------------------------------------------------------
(* The validator does not see where the packets were cut.                   *)

Arrived(v, available) == [v EXCEPT !.last_available = available]

LEMMA ArrivedFields ==
    ASSUME NEW v \in Validator, NEW n \in Nat
    PROVE  /\ Arrived(v, n) \in Validator /\ Arrived(v, n).last_available = n
           /\ Arrived(v, n).published = v.published /\ Arrived(v, n).videos = v.videos
           /\ Arrived(v, n).audios = v.audios /\ Arrived(v, n).last_sample = v.last_sample
           /\ Arrived(v, n).accepted = v.accepted /\ Parsed(Arrived(v, n)) = Parsed(v)
  BY DEF Arrived, Validator, Parsed

\* What a turn does once it does when more bytes are there.
LEMMA MoreIsSame ==
    ASSUME NEW v \in Validator, NEW a \in Nat, NEW b \in Nat, a <= b,
           NEW stream, StreamType(stream), ReadRecord(v, a, stream) # v
    PROVE  ReadRecord(v, b, stream) = ReadRecord(v, a, stream)
  <1> DEFINE r == stream.records[Parsed(v) + 1]
  <1>1. v.published \in Nat /\ RecordSize \in Nat
    BY ValidatorFields, SizesUsed
  <1>2. HeadFits(v, r, stream) => r.size \in Int
    BY DEF HeadFits
  <1> HIDE DEF r
  <1>3. v.published + RecordSize <= a => v.published + RecordSize <= b
    BY <1>1
  <1>4. HeadFits(v, r, stream) /\ v.published + RecordSize + r.size <= a
          => v.published + RecordSize + r.size <= b
    BY <1>1, <1>2
  <1>5. CASE Counts(v, a, stream)
    <2>1. Counts(v, b, stream)
      BY <1>4, <1>5 DEF Counts, r
    <2> QED BY <1>5, <2>1, TurnMeans
  <1>6. CASE Refuses(v, a, stream)
    <2>1. Refuses(v, b, stream)
      BY <1>3, <1>4, <1>6 DEF Refuses, r
    <2> QED BY <1>6, <2>1, TurnMeans
  <1> QED BY <1>5, <1>6, TurnMeans

LEMMA CutLoop ==
    ASSUME NEW a \in Nat, NEW b \in Nat, a <= b, NEW stream, StreamType(stream),
           NEW v \in Validator
    PROVE  ReadRecords(ReadRecords(v, a, stream), b, stream) = ReadRecords(v, b, stream)
  <1> DEFINE First(u) == ReadRecords(u, a, stream)
             All(u) == ReadRecords(u, b, stream)
             S == {u \in Validator : All(First(u)) = All(u)}
  <1>1. ASSUME NEW u \in Validator, ReadRecord(u, a, stream) = u PROVE All(First(u)) = All(u)
    <2>1. First(u) = u
      BY <1>1, LoopMeans
    <2> QED BY <2>1
  <1>2. ASSUME NEW u \in Validator, ReadRecord(u, a, stream) # u,
               All(First(ReadRecord(u, a, stream))) = All(ReadRecord(u, a, stream))
        PROVE  All(First(u)) = All(u)
    <2>1. First(u) = First(ReadRecord(u, a, stream))
      BY <1>2, LoopMeans
    <2>2. ReadRecord(u, b, stream) = ReadRecord(u, a, stream)
      BY <1>2, MoreIsSame
    <2>3. All(u) = All(ReadRecord(u, a, stream))
      BY <1>2, <2>2, LoopMeans
    <2> HIDE DEF First, All
    <2> QED BY <1>2, <2>1, <2>3
  <1> HIDE DEF First, All
  <1>3. \A u \in Validator : Turn(a, stream)[u] = u \/ Turn(a, stream)[u] \in S => u \in S
    <2>1. \A u \in Validator : Turn(a, stream)[u] = ReadRecord(u, a, stream)
      BY DEF Turn
    <2> QED BY <1>1, <1>2, <2>1
  <1>4. Validator \subseteq S
    <2> HIDE DEF S
    <2> QED BY <1>3, TurnDescends, ByDescent
  <1>5. All(First(v)) = All(v)
    BY <1>4
  <1> QED BY <1>5 DEF First, All

LEMMA ArrivedTurn ==
    ASSUME NEW v \in Validator, NEW n \in Nat, NEW available \in Nat,
           NEW stream, StreamType(stream)
    PROVE  ReadRecord(Arrived(v, n), available, stream)
             = Arrived(ReadRecord(v, available, stream), n)
  <1> DEFINE u == Arrived(v, n)
             r == stream.records[Parsed(v) + 1]
  <1>1. /\ u \in Validator /\ u.published = v.published /\ u.videos = v.videos
        /\ u.audios = v.audios /\ u.last_sample = v.last_sample /\ u.accepted = v.accepted
        /\ Parsed(u) = Parsed(v) /\ u.last_available = n
    BY ArrivedFields
  <1> HIDE DEF u
  <1>2. /\ Counts(u, available, stream) <=> Counts(v, available, stream)
        /\ Refuses(u, available, stream) <=> Refuses(v, available, stream)
    BY <1>1 DEF Counts, Refuses, HeadFits, RecordFits
  <1>3. CASE Counts(v, available, stream)
    <2> DEFINE x == Counted(u, r)
               y == Counted(v, r)
    <2>1. ReadRecord(u, available, stream) = x /\ ReadRecord(v, available, stream) = y
      BY <1>1, <1>2, <1>3, TurnMeans
    <2>2. /\ x \in Validator /\ x.published = u.published + RecordSize + r.size
          /\ x.videos = IF r.kind = "video" THEN u.videos + 1 ELSE u.videos
          /\ x.audios = IF r.kind = "audio" THEN u.audios + 1 ELSE u.audios
          /\ x.last_sample = r.sample /\ x.last_available = u.last_available
          /\ x.accepted = u.accepted
      BY <1>1, <1>2, <1>3, CountedFields
    <2>3. /\ y \in Validator /\ y.published = v.published + RecordSize + r.size
          /\ y.videos = IF r.kind = "video" THEN v.videos + 1 ELSE v.videos
          /\ y.audios = IF r.kind = "audio" THEN v.audios + 1 ELSE v.audios
          /\ y.last_sample = r.sample /\ y.accepted = v.accepted
      BY <1>3, CountedFields
    <2> HIDE DEF x, y, r
    <2>4. /\ Arrived(y, n) \in Validator /\ Arrived(y, n).last_available = n
          /\ Arrived(y, n).published = y.published /\ Arrived(y, n).videos = y.videos
          /\ Arrived(y, n).audios = y.audios /\ Arrived(y, n).last_sample = y.last_sample
          /\ Arrived(y, n).accepted = y.accepted
      BY <2>3, ArrivedFields
    <2>5. x = Arrived(y, n)
      BY <1>1, <2>2, <2>3, <2>4, SameValidator
    <2> QED BY <2>1, <2>5 DEF u
  <1>4. CASE Refuses(v, available, stream)
    <2>1. ReadRecord(u, available, stream) = Refused(u)
          /\ ReadRecord(v, available, stream) = Refused(v)
      BY <1>1, <1>2, <1>4, TurnMeans
    <2>2. Refused(u) = Arrived(Refused(v), n)
      BY DEF Refused, Arrived, Validator, u
    <2> QED BY <2>1, <2>2 DEF u
  <1>5. CASE ~Counts(v, available, stream) /\ ~Refuses(v, available, stream)
    BY <1>1, <1>2, <1>5, TurnMeans DEF u
  <1> QED BY <1>3, <1>4, <1>5

LEMMA ArrivedLoop ==
    ASSUME NEW n \in Nat, NEW available \in Nat, NEW stream, StreamType(stream),
           NEW v \in Validator
    PROVE  ReadRecords(Arrived(v, n), available, stream)
             = Arrived(ReadRecords(v, available, stream), n)
  <1> DEFINE End(u) == ReadRecords(u, available, stream)
             S == {u \in Validator : End(Arrived(u, n)) = Arrived(End(u), n)}
  <1>1. ASSUME NEW u \in Validator, ReadRecord(u, available, stream) = u
        PROVE  End(Arrived(u, n)) = Arrived(End(u), n)
    <2>1. End(u) = u
      BY <1>1, LoopMeans
    <2>2. Arrived(u, n) \in Validator
          /\ ReadRecord(Arrived(u, n), available, stream) = Arrived(u, n)
      BY <1>1, ArrivedFields, ArrivedTurn
    <2>3. End(Arrived(u, n)) = Arrived(u, n)
      BY <2>2, LoopMeans
    <2> QED BY <2>1, <2>3
  <1>2. ASSUME NEW u \in Validator, ReadRecord(u, available, stream) # u,
               End(Arrived(ReadRecord(u, available, stream), n))
                 = Arrived(End(ReadRecord(u, available, stream)), n)
        PROVE  End(Arrived(u, n)) = Arrived(End(u), n)
    <2> DEFINE w == ReadRecord(u, available, stream)
    <2>1. End(u) = End(w)
      BY <1>2, LoopMeans
    <2>2. /\ Arrived(u, n) \in Validator
          /\ ReadRecord(Arrived(u, n), available, stream) = Arrived(w, n)
      BY ArrivedFields, ArrivedTurn
    <2>3. End(Arrived(u, n)) = End(Arrived(w, n))
      <3>1. CASE Arrived(w, n) = Arrived(u, n)
        BY <3>1
      <3>2. CASE Arrived(w, n) # Arrived(u, n)
        BY <2>2, <3>2, LoopMeans
      <3> QED BY <3>1, <3>2
    <2> HIDE DEF End
    <2> QED BY <1>2, <2>1, <2>3
  <1> HIDE DEF End
  <1>3. \A u \in Validator :
           Turn(available, stream)[u] = u \/ Turn(available, stream)[u] \in S => u \in S
    <2>1. \A u \in Validator : Turn(available, stream)[u] = ReadRecord(u, available, stream)
      BY DEF Turn
    <2> QED BY <1>1, <1>2, <2>1
  <1>4. Validator \subseteq S
    <2> HIDE DEF S
    <2> QED BY <1>3, TurnDescends, ByDescent
  <1>5. End(Arrived(v, n)) = Arrived(End(v), n)
    BY <1>4
  <1> QED BY <1>5 DEF End

\* The bytes read, before advance asks whether the stream has ended.
Read(v, available, stream) ==
    ReadRecords(ReadHeader(Arrived(v, available), available, stream), available, stream)

LEMMA HeaderFields ==
    ASSUME NEW v \in Validator, NEW available \in Nat, NEW stream
    PROVE  LET w == ReadHeader(v, available, stream)
           IN /\ w \in Validator /\ w.last_available = v.last_available
              /\ w.videos = v.videos /\ w.audios = v.audios
              /\ w.last_sample = v.last_sample
              /\ v.published <= w.published
              /\ v.published <= available => w.published <= available
              /\ w.accepted => v.accepted
  <1>1. v.published \in Nat /\ HeaderSize \in Nat
    BY ValidatorFields, SizesUsed
  <1>2. CASE v.published > 0 \/ available < HeaderSize
    <2>1. ReadHeader(v, available, stream) = v
      BY <1>2 DEF ReadHeader
    <2> QED BY <1>1, <2>1
  <1>3. CASE ~(v.published > 0 \/ available < HeaderSize) /\ ~parse_header(stream)
    <2>1. ReadHeader(v, available, stream) = Refused(v)
      BY <1>3 DEF ReadHeader
    <2>2. v.published <= v.published
      BY <1>1
    <2> QED BY <2>1, <2>2, RefusedFields
  <1>4. CASE ~(v.published > 0 \/ available < HeaderSize) /\ parse_header(stream)
    <2> DEFINE w == [v EXCEPT !.published = HeaderSize]
    <2>1. ReadHeader(v, available, stream) = w
      BY <1>4 DEF ReadHeader
    <2>2. /\ w \in Validator /\ w.last_available = v.last_available
          /\ w.videos = v.videos /\ w.audios = v.audios
          /\ w.last_sample = v.last_sample /\ w.published = HeaderSize
          /\ w.accepted = v.accepted
      BY <1>1 DEF Validator
    <2> HIDE DEF w
    <2>3. v.published <= HeaderSize /\ HeaderSize <= available
      BY <1>1, <1>4
    <2> QED BY <2>1, <2>2, <2>3
  <1> QED BY <1>2, <1>3, <1>4

LEMMA ReadFields ==
    ASSUME NEW v \in Validator, NEW available \in Nat, NEW stream, StreamType(stream)
    PROVE  /\ Read(v, available, stream) \in Validator
           /\ Read(v, available, stream).last_available = available
           /\ v.published <= Read(v, available, stream).published
           /\ v.published <= available => Read(v, available, stream).published <= available
           /\ ReadRecord(Read(v, available, stream), available, stream)
                = Read(v, available, stream)
  <1> DEFINE u == Arrived(v, available)
             h == ReadHeader(u, available, stream)
             w == ReadRecords(h, available, stream)
  <1>1. u \in Validator /\ u.published = v.published /\ u.last_available = available
    BY ArrivedFields
  <1> HIDE DEF u
  <1>2. /\ h \in Validator /\ h.last_available = u.last_available
        /\ u.published <= h.published
        /\ u.published <= available => h.published <= available
    BY <1>1, HeaderFields
  <1> HIDE DEF h
  <1>3. /\ w \in Validator /\ w.last_available = h.last_available
        /\ h.published <= w.published
        /\ h.published <= available => w.published <= available
        /\ ReadRecord(w, available, stream) = w
    BY <1>2, LoopKeeps
  <1>4. Read(v, available, stream) = w
    BY DEF Read, h, u
  <1> HIDE DEF w
  <1>5. v.published \in Nat /\ h.published \in Nat /\ w.published \in Nat
    BY <1>2, <1>3, ValidatorFields
  <1> QED BY <1>1, <1>2, <1>3, <1>4, <1>5

LEMMA AdvanceMeans ==
    ASSUME NEW v \in Validator, NEW available \in Nat, NEW stream
    PROVE  advance(v, available, stream) =
             IF available > stream.size \/ available < v.last_available THEN Refused(v)
             ELSE IF available = stream.size /\ ~Finished(Read(v, available, stream), stream)
                  THEN Refused(Read(v, available, stream))
                  ELSE Read(v, available, stream)
  BY Zenon DEF advance, Read, Arrived

LEMMA AdvanceFields ==
    ASSUME NEW v \in Validator, NEW available \in Nat, NEW stream, StreamType(stream)
    PROVE  /\ advance(v, available, stream) \in Validator
           /\ v.published <= available => advance(v, available, stream).published <= available
  <1>1. \/ advance(v, available, stream) = Refused(v)
        \/ advance(v, available, stream) = Refused(Read(v, available, stream))
        \/ advance(v, available, stream) = Read(v, available, stream)
    BY AdvanceMeans
  <1>2. /\ Read(v, available, stream) \in Validator
        /\ v.published <= available => Read(v, available, stream).published <= available
    BY ReadFields
  <1> QED BY <1>1, <1>2, RefusedFields

LEMMA FreshFields ==
    /\ Fresh \in Validator /\ Fresh.published = 0 /\ Fresh.videos = 0 /\ Fresh.audios = 0
    /\ Fresh.last_sample = 0 /\ Fresh.last_available = 0 /\ Fresh.accepted
  BY DEF Fresh, Validator

\* The parser behind a good header.
Opened == [Fresh EXCEPT !.published = HeaderSize]

LEMMA OpenedFields ==
    /\ Opened \in Validator /\ Opened.published = HeaderSize /\ Opened.videos = 0
    /\ Opened.audios = 0 /\ Opened.last_sample = 0 /\ Opened.accepted
  BY SizesUsed DEF Opened, Fresh, Validator

LEMMA FirstLook ==
    ASSUME NEW stream, StreamType(stream), NEW n \in Nat
    PROVE  Read(Fresh, n, stream) =
             IF n < HeaderSize THEN Arrived(Fresh, n)
             ELSE IF parse_header(stream)
                  THEN ReadRecords(Arrived(Opened, n), n, stream)
                  ELSE Refused(Arrived(Fresh, n))
  <1> DEFINE u == Arrived(Fresh, n)
  <1>1. u \in Validator /\ u.published = 0
    BY ArrivedFields, FreshFields
  <1>2. ReadHeader(u, n, stream) = IF n < HeaderSize THEN u
                                   ELSE IF parse_header(stream)
                                        THEN [u EXCEPT !.published = HeaderSize] ELSE Refused(u)
    <2>1. ~(u.published > 0)
      BY <1>1
    <2> HIDE DEF u
    <2> QED BY <2>1, Zenon DEF ReadHeader
  <1>3. CASE n < HeaderSize
    <2>1. Read(Fresh, n, stream) = ReadRecords(u, n, stream)
      BY <1>2, <1>3 DEF Read
    <2>2. ReadRecords(u, n, stream) = u
      BY <1>1, LoopKeeps
    <2> QED BY <1>3, <2>1, <2>2
  <1>4. CASE ~(n < HeaderSize) /\ parse_header(stream)
    <2>1. [u EXCEPT !.published = HeaderSize] = Arrived(Opened, n)
      BY DEF Arrived, Opened, Fresh
    <2>2. ReadHeader(u, n, stream) = Arrived(Opened, n)
      BY <1>2, <1>4, <2>1
    <2> QED BY <1>4, <2>2 DEF Read
  <1>5. CASE ~(n < HeaderSize) /\ ~parse_header(stream)
    <2>1. Read(Fresh, n, stream) = ReadRecords(Refused(u), n, stream)
      BY <1>2, <1>5 DEF Read
    <2>2. Refused(u) \in Validator /\ ~Refused(u).accepted
      BY <1>1, RefusedFields
    <2>3. ReadRecords(Refused(u), n, stream) = Refused(u)
      BY <2>2, LoopKeeps
    <2> QED BY <1>5, <2>1, <2>3
  <1> QED BY <1>3, <1>4, <1>5

LEMMA FirstAdvance ==
    ASSUME NEW stream, StreamType(stream), NEW n \in Nat, n <= stream.size
    PROVE  LET read == Read(Fresh, n, stream)
           IN /\ read \in Validator /\ read.last_available = n
              /\ advance(Fresh, n, stream) =
                    IF n = stream.size /\ ~Finished(read, stream) THEN Refused(read) ELSE read
              /\ advance(Fresh, n, stream).accepted => advance(Fresh, n, stream) = read
  <1>1. Read(Fresh, n, stream) \in Validator /\ Read(Fresh, n, stream).last_available = n
    BY ReadFields, FreshFields
  <1>2. ~(n > stream.size \/ n < Fresh.last_available)
    BY FreshFields, StreamFields
  <1> QED BY <1>1, <1>2, AdvanceMeans, FreshFields, RefusedFields

\* However a stream is cut, the parser goes on to where one look would have come,
\* and what it refused once it would refuse at a later look (validator::advance
\* going on from published).
THEOREM CutsAreUnseen ==
    ASSUME NEW stream, StreamType(stream), NEW n \in Nat, NEW m \in Nat,
           n <= m, m <= stream.size
    PROVE  IF advance(Fresh, n, stream).accepted
           THEN advance(advance(Fresh, n, stream), m, stream) = advance(Fresh, m, stream)
           ELSE ~advance(Fresh, m, stream).accepted
  <1> DEFINE one == Read(Fresh, n, stream)
             all == Read(Fresh, m, stream)
  <1>1. n <= stream.size /\ stream.size \in Nat /\ HeaderSize \in Nat \ {0}
    BY StreamFields, SizesUsed
  <1>2. /\ one \in Validator /\ one.last_available = n
        /\ advance(Fresh, n, stream) =
              IF n = stream.size /\ ~Finished(one, stream) THEN Refused(one) ELSE one
        /\ advance(Fresh, n, stream).accepted => advance(Fresh, n, stream) = one
    BY <1>1, FirstAdvance
  <1>3. /\ all \in Validator
        /\ advance(Fresh, m, stream) =
              IF m = stream.size /\ ~Finished(all, stream) THEN Refused(all) ELSE all
        /\ advance(Fresh, m, stream).accepted => advance(Fresh, m, stream) = all
    BY FirstAdvance
  <1> HIDE DEF one, all
  <1>4. \* The loop goes on where it stopped.
        ASSUME ~(n < HeaderSize), parse_header(stream)
        PROVE  /\ one.published > 0
               /\ ReadRecords(Arrived(one, m), m, stream) = all
    <2>1. /\ Arrived(Opened, n) \in Validator /\ Arrived(Opened, n).published = HeaderSize
          /\ Arrived(Opened, m) \in Validator
          /\ Arrived(Arrived(Opened, n), m) = Arrived(Opened, m)
      <3>1. Arrived(Arrived(Opened, n), m) = Arrived(Opened, m)
        BY DEF Arrived, Opened, Fresh
      <3> QED BY <3>1, OpenedFields, ArrivedFields
    <2>2. one = ReadRecords(Arrived(Opened, n), n, stream)
      BY <1>4, FirstLook DEF one
    <2>3. all = ReadRecords(Arrived(Opened, m), m, stream)
      BY <1>1, <1>4, FirstLook DEF all
    <2>4. HeaderSize <= one.published
      BY <2>1, <2>2, LoopKeeps
    <2>5. one.published > 0
      BY <1>1, <1>2, <2>4, ValidatorFields
    <2>6. Arrived(one, m) = ReadRecords(Arrived(Opened, m), n, stream)
      BY <2>1, <2>2, ArrivedLoop
    <2>7. ReadRecords(Arrived(one, m), m, stream) = ReadRecords(Arrived(Opened, m), m, stream)
      BY <2>1, <2>6, CutLoop
    <2> QED BY <2>3, <2>5, <2>7
  <1>5. CASE advance(Fresh, n, stream).accepted
    <2>1. advance(Fresh, n, stream) = one
      BY <1>2, <1>5
    <2>2. Read(one, m, stream) = all
      <3>1. CASE n < HeaderSize
        <4>1. one = Arrived(Fresh, n)
          BY <3>1, FirstLook DEF one
        <4>2. Arrived(one, m) = Arrived(Fresh, m)
          BY <4>1 DEF Arrived, Fresh
        <4> QED BY <4>2 DEF Read, all
      <3>2. CASE ~(n < HeaderSize) /\ parse_header(stream)
        <4>1. one.published > 0 /\ ReadRecords(Arrived(one, m), m, stream) = all
          BY <1>4, <3>2
        <4>2. Arrived(one, m).published > 0
          BY <1>2, <4>1, ArrivedFields
        <4>3. ReadHeader(Arrived(one, m), m, stream) = Arrived(one, m)
          BY <4>2 DEF ReadHeader
        <4> QED BY <4>1, <4>3 DEF Read
      <3>3. CASE ~(n < HeaderSize) /\ ~parse_header(stream)
        <4>1. one = Refused(Arrived(Fresh, n)) /\ Arrived(Fresh, n) \in Validator
          BY <3>3, FirstLook, ArrivedFields, FreshFields DEF one
        <4>2. ~one.accepted
          BY <4>1, RefusedFields
        <4> QED BY <1>5, <2>1, <4>2
      <3> QED BY <3>1, <3>2, <3>3
    <2>3. ~(m > stream.size \/ m < one.last_available)
      BY <1>1, <1>2
    <2>4. advance(one, m, stream) =
            IF m = stream.size /\ ~Finished(all, stream) THEN Refused(all) ELSE all
      BY <1>2, <2>2, <2>3, AdvanceMeans
    <2> QED BY <1>3, <1>5, <2>1, <2>4
  <1>6. CASE ~advance(Fresh, n, stream).accepted
    <2> SUFFICES ASSUME advance(Fresh, m, stream).accepted PROVE FALSE
      BY <1>6
    <2>1. CASE n = m
      BY <1>6, <2>1
    <2>2. CASE n # m
      <3>1. n # stream.size
        BY <1>1, <2>2
      <3>2. advance(Fresh, n, stream) = one /\ ~one.accepted
        BY <1>2, <1>6, <3>1
      <3>3. all.accepted
        BY <1>3
      <3>4. CASE n < HeaderSize
        <4>1. one = Arrived(Fresh, n)
          BY <3>4, FirstLook DEF one
        <4> QED BY <3>2, <4>1, ArrivedFields, FreshFields
      <3>5. CASE ~(n < HeaderSize) /\ parse_header(stream)
        <4>1. ReadRecords(Arrived(one, m), m, stream) = all
          BY <1>4, <3>5
        <4>2. Arrived(one, m) \in Validator /\ ~Arrived(one, m).accepted
          BY <1>2, <3>2, ArrivedFields
        <4>3. all = Arrived(one, m)
          BY <4>1, <4>2, LoopKeeps
        <4> QED BY <3>3, <4>2, <4>3
      <3>6. CASE ~(n < HeaderSize) /\ ~parse_header(stream)
        <4>1. ~(m < HeaderSize)
          BY <1>1, <3>6
        <4>2. all = Refused(Arrived(Fresh, m)) /\ Arrived(Fresh, m) \in Validator
          BY <3>6, <4>1, FirstLook, ArrivedFields, FreshFields DEF all
        <4> QED BY <3>3, <4>2, RefusedFields
      <3> QED BY <3>4, <3>5, <3>6
    <2> QED BY <2>1, <2>2
  <1> QED BY <1>5, <1>6

-----------------------------------------------------------------------------
(* The validator accepts exactly the well-formed streams.                   *)

LEMMA SumExists ==
    ASSUME NEW N \in Nat, NEW first \in Nat, NEW more \in [1..N -> Nat]
    PROVE  \E f \in [0..N -> Nat] :
              f = [i \in 0..N |-> IF i = 0 THEN first ELSE f[i - 1] + more[i]]
  <1> DEFINE Sum(f, m) == f = [i \in 0..m |-> IF i = 0 THEN first ELSE f[i - 1] + more[i]]
             S == {m \in 0..N : \E f \in [0..m -> Nat] : Sum(f, m)}
  <1>1. 0 \in S
    <2> DEFINE f == [i \in 0..0 |-> first]
    <2>1. f \in [0..0 -> Nat] /\ Sum(f, 0) /\ 0 \in 0..N
      OBVIOUS
    <2> HIDE DEF f, Sum
    <2> QED BY <2>1
  <1>2. ASSUME NEW m \in S, m + 1 \in 0..N PROVE m + 1 \in S
    <2>1. m \in 0..N /\ m \in Nat
      OBVIOUS
    <2>2. PICK f \in [0..m -> Nat] : Sum(f, m)
      OBVIOUS
    <2> DEFINE g == [i \in 0..(m + 1) |-> IF i = m + 1 THEN f[m] + more[m + 1] ELSE f[i]]
    <2>3. g \in [0..(m + 1) -> Nat]
      <3>1. f[m] \in Nat /\ more[m + 1] \in Nat
        BY <1>2, <2>1, <2>2
      <3>2. \A i \in 0..(m + 1) : i = m + 1 \/ i \in 0..m
        BY <2>1
      <3>3. \A i \in 0..m : f[i] \in Nat
        BY <2>2
      <3>4. \A i \in 0..(m + 1) :
               (IF i = m + 1 THEN f[m] + more[m + 1] ELSE f[i]) \in Nat
        BY <3>1, <3>2, <3>3
      <3> QED BY <3>4
    <2>4. Sum(g, m + 1)
      <3>1. \A i \in 0..m : f[i] = IF i = 0 THEN first ELSE f[i - 1] + more[i]
        BY <2>2
      <3>2. ASSUME NEW i \in 0..(m + 1)
            PROVE  g[i] = IF i = 0 THEN first ELSE g[i - 1] + more[i]
        <4>1. CASE i = m + 1
          <5>1. g[i - 1] = f[m] /\ i # 0
            BY <2>1, <4>1
          <5> QED BY <4>1, <5>1
        <4>2. CASE i # m + 1
          <5>1. i \in 0..m /\ g[i] = f[i]
            BY <2>1, <4>2
          <5>2. i # 0 => g[i - 1] = f[i - 1]
            BY <2>1, <4>2
          <5> QED BY <3>1, <5>1, <5>2
        <4> QED BY <4>1, <4>2
      <3> QED BY <3>2
    <2> HIDE DEF g, Sum
    <2> QED BY <1>2, <2>3, <2>4
  <1> HIDE DEF S, Sum
  <1>3. 0..N \subseteq S
    BY <1>1, <1>2, Induct
  <1>4. N \in S
    BY <1>3
  <1>5. PICK f \in [0..N -> Nat] : Sum(f, N)
    BY <1>4 DEF S
  <1> QED BY <1>5 DEF Sum

LEMMA EndsAt ==
    ASSUME NEW stream, StreamType(stream)
    PROVE  /\ EndOf(stream, 0) = HeaderSize
           /\ \A n \in 0..Len(stream.records) : EndOf(stream, n) \in Nat
           /\ \A n \in 0..(Len(stream.records) - 1) :
                 EndOf(stream, n + 1)
                   = EndOf(stream, n) + RecordSize + stream.records[n + 1].size
  <1> DEFINE N == Len(stream.records)
             After(f) == [i \in 0..N |-> IF i = 0 THEN HeaderSize
                            ELSE f[i - 1] + RecordSize + stream.records[i].size]
             end == CHOOSE f : f = After(f)
             more == [i \in 1..N |-> RecordSize + stream.records[i].size]
  <1>1. \A n : EndOf(stream, n) = end[n]
    BY Zenon DEF EndOf
  <1>2. N \in Nat /\ HeaderSize \in Nat /\ RecordSize \in Nat
        /\ \A i \in 1..N : stream.records[i].size \in Nat
    BY StreamFields, SizesUsed
  <1> HIDE DEF N
  <1>3. more \in [1..N -> Nat]
    BY <1>2
  <1>4. \E f \in [0..N -> Nat] : f = After(f)
    <2>1. PICK f \in [0..N -> Nat] :
             f = [i \in 0..N |-> IF i = 0 THEN HeaderSize ELSE f[i - 1] + more[i]]
      <3> HIDE DEF more
      <3> QED BY <1>2, <1>3, SumExists, ZenonT(30)
    <2>2. \A i \in 0..N : i # 0 =>
             f[i - 1] + more[i] = f[i - 1] + RecordSize + stream.records[i].size
      <3> SUFFICES ASSUME NEW i \in 0..N, i # 0
                   PROVE  f[i - 1] + more[i] = f[i - 1] + RecordSize + stream.records[i].size
        OBVIOUS
      <3>1. i \in 1..N /\ i - 1 \in 0..N
        BY <1>2
      <3>2. more[i] = RecordSize + stream.records[i].size /\ f[i - 1] \in Nat
        BY <3>1
      <3> HIDE DEF more
      <3> QED BY <1>2, <3>1, <3>2
    <2> HIDE DEF more
    <2>3. f = After(f)
      BY <2>1, <2>2
    <2> QED BY <2>3
  <1>5. end = After(end)
    <2> HIDE DEF After
    <2> QED BY <1>4
  <1> HIDE DEF end
  <1>6. \A i \in 0..N : end[i] = IF i = 0 THEN HeaderSize
                                 ELSE end[i - 1] + RecordSize + stream.records[i].size
    BY <1>5
  <1>7. end[0] = HeaderSize
    BY <1>2, <1>6
  <1>8. ASSUME NEW n \in 0..(N - 1)
        PROVE  end[n + 1] = end[n] + RecordSize + stream.records[n + 1].size
    <2>1. n + 1 \in 0..N /\ n + 1 # 0 /\ (n + 1) - 1 = n
      BY <1>2
    <2> QED BY <1>6, <2>1
  <1>9. \A n \in 0..N : end[n] \in Nat
    <2> DEFINE S == {n \in 0..N : end[n] \in Nat}
    <2>1. 0 \in S
      BY <1>2, <1>7
    <2>2. ASSUME NEW n \in S, n + 1 \in 0..N PROVE n + 1 \in S
      <3>1. n \in 0..(N - 1) /\ n + 1 \in 1..N /\ end[n] \in Nat
        BY <1>2, <2>2
      <3>2. end[n + 1] = end[n] + RecordSize + stream.records[n + 1].size
        BY <1>8, <3>1
      <3>3. stream.records[n + 1].size \in Nat
        BY <1>2, <3>1
      <3> QED BY <1>2, <2>2, <3>1, <3>2, <3>3
    <2> HIDE DEF S
    <2>3. 0..N \subseteq S
      BY <1>2, <2>1, <2>2, Induct
    <2> QED BY <2>3 DEF S
  <1> QED BY <1>1, <1>7, <1>8, <1>9 DEF N

LEMMA EndsInOrder ==
    ASSUME NEW stream, StreamType(stream), NEW k \in 0..Len(stream.records),
           NEW n \in 0..Len(stream.records), k <= n
    PROVE  EndOf(stream, k) <= EndOf(stream, n)
  <1> DEFINE N == Len(stream.records)
             S == {m \in 0..N : k <= m => EndOf(stream, k) <= EndOf(stream, m)}
  <1>1. N \in Nat /\ RecordSize \in Nat /\ \A m \in 0..N : EndOf(stream, m) \in Nat
    BY StreamFields, SizesUsed, EndsAt
  <1>2. 0 \in S
    BY <1>1
  <1>3. ASSUME NEW m \in S, m + 1 \in 0..N PROVE m + 1 \in S
    <2>1. m \in 0..(N - 1) /\ m + 1 \in 1..N /\ m \in Nat
      BY <1>1, <1>3
    <2>2. EndOf(stream, m + 1) = EndOf(stream, m) + RecordSize + stream.records[m + 1].size
      BY <2>1, EndsAt
    <2>3. stream.records[m + 1].size \in Nat
      BY <2>1, StreamFields
    <2>4. EndOf(stream, m) <= EndOf(stream, m + 1)
      BY <1>1, <2>1, <2>2, <2>3, SMTT(30)
    <2>5. CASE k = m + 1
      BY <1>1, <1>3, <2>5, SMTT(30)
    <2>6. CASE k # m + 1
      <3> SUFFICES ASSUME k <= m + 1 PROVE EndOf(stream, k) <= EndOf(stream, m + 1)
        BY <1>3
      <3>1. k <= m
        BY <2>1, <2>6
      <3>2. EndOf(stream, k) <= EndOf(stream, m)
        BY <1>3, <3>1
      <3>3. EndOf(stream, k) \in Nat /\ EndOf(stream, m) \in Nat /\ EndOf(stream, m + 1) \in Nat
        BY <1>1, <1>3
      <3> QED BY <2>4, <3>2, <3>3
    <2> QED BY <2>5, <2>6
  <1> HIDE DEF S
  <1>4. 0..N \subseteq S
    BY <1>1, <1>2, <1>3, Induct
  <1> QED BY <1>4 DEF S

LEMMA KindCounted ==
    ASSUME NEW stream, NEW kind, NEW n \in Nat
    PROVE  /\ OfKind(stream, kind, 0) = 0 /\ OfKind(stream, kind, n) \in Nat
           /\ OfKind(stream, kind, n + 1) =
                IF stream.records[n + 1].kind = kind
                THEN OfKind(stream, kind, n) + 1 ELSE OfKind(stream, kind, n)
  <1> DEFINE Those(m) == {i \in 1..m : stream.records[i].kind = kind}
  <1>1. OfKind(stream, kind, 0) = 0
    <2>1. Those(0) = {}
      OBVIOUS
    <2> HIDE DEF Those
    <2>2. Cardinality(Those(0)) = 0
      BY <2>1, FS_EmptySet
    <2> QED BY <2>2 DEF OfKind, Those
  <1>2. IsFiniteSet(Those(n)) /\ Cardinality(Those(n)) \in Nat
    <2>1. IsFiniteSet(1..n)
      BY FS_Interval
    <2>2. Those(n) \subseteq 1..n
      OBVIOUS
    <2> HIDE DEF Those
    <2> QED BY <2>1, <2>2, FS_Subset, FS_CardinalityType
  <1>3. CASE stream.records[n + 1].kind = kind
    <2>1. Those(n + 1) = Those(n) \cup {n + 1}
      BY <1>3
    <2>2. n + 1 \notin Those(n)
      OBVIOUS
    <2> HIDE DEF Those
    <2>3. Cardinality(Those(n + 1)) = Cardinality(Those(n)) + 1
      BY <1>2, <2>1, <2>2, FS_AddElement
    <2> QED BY <1>1, <1>2, <1>3, <2>3 DEF OfKind, Those
  <1>4. CASE stream.records[n + 1].kind # kind
    <2>1. Those(n + 1) = Those(n)
      BY <1>4
    <2> HIDE DEF Those
    <2> QED BY <1>1, <1>2, <1>4, <2>1 DEF OfKind, Those
  <1> QED BY <1>3, <1>4

LEMMA KindsGrow ==
    ASSUME NEW stream, NEW kind, NEW k \in Nat, NEW n \in Nat, k <= n
    PROVE  OfKind(stream, kind, k) <= OfKind(stream, kind, n)
  <1> DEFINE S == {m \in 0..n : k <= m => OfKind(stream, kind, k) <= OfKind(stream, kind, m)}
  <1>1. \A m \in Nat : OfKind(stream, kind, m) \in Nat
    BY KindCounted
  <1>2. 0 \in S
    BY <1>1
  <1>3. ASSUME NEW m \in S, m + 1 \in 0..n PROVE m + 1 \in S
    <2>1. m \in Nat /\ m + 1 \in Nat
      OBVIOUS
    <2>2. /\ OfKind(stream, kind, m) <= OfKind(stream, kind, m + 1)
      <3>1. \/ OfKind(stream, kind, m + 1) = OfKind(stream, kind, m) + 1
            \/ OfKind(stream, kind, m + 1) = OfKind(stream, kind, m)
        BY <2>1, KindCounted
      <3> QED BY <1>1, <2>1, <3>1
    <2>3. CASE k = m + 1
      BY <1>1, <1>3, <2>3
    <2>4. CASE k # m + 1
      <3> SUFFICES ASSUME k <= m + 1
                   PROVE  OfKind(stream, kind, k) <= OfKind(stream, kind, m + 1)
        BY <1>3
      <3>1. k <= m
        BY <2>1, <2>4
      <3>2. OfKind(stream, kind, k) <= OfKind(stream, kind, m)
        BY <1>3, <3>1
      <3> QED BY <1>1, <2>1, <2>2, <3>2
    <2> QED BY <2>3, <2>4
  <1> HIDE DEF S
  <1>4. 0..n \subseteq S
    BY <1>2, <1>3, Induct
  <1> QED BY <1>4 DEF S

\* What WellFormed asks of one record.
Proper(stream, i) ==
    LET r == stream.records[i]
    IN /\ r.intact /\ r.size \in SmallestRecord..stream.info.maximum_record
       /\ r.sample = CASE r.kind = "video" -> frame_sample(OfKind(stream, "video", i - 1))
                       [] r.kind = "audio" -> aac_sample(OfKind(stream, "audio", i - 1))
                       [] OTHER -> -1

LEMMA WellFormedMeans ==
    ASSUME NEW stream
    PROVE  WellFormed(stream) <=>
             /\ parse_header(stream) /\ stream.info.records <= Len(stream.records)
             /\ \A i \in 1..stream.info.records : Proper(stream, i)
             /\ \A i, j \in 1..stream.info.records :
                   i < j => stream.records[i].sample <= stream.records[j].sample
             /\ OfKind(stream, "video", stream.info.records) = stream.info.frames
             /\ EndOf(stream, stream.info.records) = stream.size
  BY Zenon DEF WellFormed, Proper

\* Up to where the parser stands, the stream is well-formed.
Sofar(v, stream) ==
    /\ v \in Validator /\ v.accepted
    /\ Parsed(v) <= Len(stream.records) /\ Parsed(v) <= stream.info.records
    /\ v.published = EndOf(stream, Parsed(v))
    /\ v.videos = OfKind(stream, "video", Parsed(v))
    /\ v.audios = OfKind(stream, "audio", Parsed(v))
    /\ v.last_sample = IF Parsed(v) = 0 THEN 0 ELSE stream.records[Parsed(v)].sample
    /\ \A i \in 1..Parsed(v) : Proper(stream, i)
    /\ \A i, j \in 1..Parsed(v) :
          i < j => stream.records[i].sample <= stream.records[j].sample

LEMMA ProperFields ==
    ASSUME NEW stream, NEW i \in Nat, Proper(stream, i + 1)
    PROVE  LET r == stream.records[i + 1]
           IN /\ r.intact /\ r.size \in SmallestRecord..stream.info.maximum_record
              /\ r.kind = "video" => r.sample = frame_sample(OfKind(stream, "video", i))
              /\ r.kind = "audio" => r.sample = aac_sample(OfKind(stream, "audio", i))
              /\ r.kind # "video" /\ r.kind # "audio" => r.sample = -1
  <1>1. (i + 1) - 1 = i
    OBVIOUS
  <1> QED BY <1>1 DEF Proper

LEMMA StartIsSofar ==
    ASSUME NEW stream, StreamType(stream), NEW n \in Nat
    PROVE  Sofar(Arrived(Opened, n), stream)
  <1> DEFINE v == Arrived(Opened, n)
  <1>1. /\ v \in Validator /\ v.published = HeaderSize /\ v.videos = 0 /\ v.audios = 0
        /\ v.last_sample = 0 /\ v.accepted
    BY ArrivedFields, OpenedFields
  <1> HIDE DEF v
  <1>2. Parsed(v) = 0
    BY <1>1 DEF Parsed
  <1>3. Len(stream.records) \in Nat /\ stream.info.records \in Nat
    BY StreamFields
  <1>4. /\ OfKind(stream, "video", 0) = 0 /\ OfKind(stream, "audio", 0) = 0
        /\ EndOf(stream, 0) = HeaderSize
    BY KindCounted, EndsAt
  <1>5. 1..0 = {}
    OBVIOUS
  <1> QED BY <1>1, <1>2, <1>3, <1>4, <1>5 DEF Sofar, v

\* The next record of a stream is where the parser stands.
LEMMA NextRecord ==
    ASSUME NEW stream, StreamType(stream), NEW v, Sofar(v, stream),
           v.published + RecordSize <= stream.size
    PROVE  /\ Parsed(v) \in Nat /\ Parsed(v) + 1 \in 1..Len(stream.records)
           /\ EndOf(stream, Parsed(v) + 1)
                = v.published + RecordSize + stream.records[Parsed(v) + 1].size
  <1> DEFINE k == Parsed(v)
             N == Len(stream.records)
  <1>1. k \in Nat /\ N \in Nat /\ k <= N /\ stream.size \in Nat /\ RecordSize \in Nat
        /\ v.published \in Nat /\ v.published = EndOf(stream, k)
    BY ValidatorFields, StreamFields, SizesUsed DEF Sofar
  <1>2. k # N
    <2>1. EndOf(stream, N) + RecordSize > stream.size /\ EndOf(stream, N) \in Nat
      BY <1>1, EndsAt DEF StreamType
    <2> HIDE DEF k, N
    <2> QED BY <1>1, <2>1
  <1> HIDE DEF k, N
  <1>3. k \in 0..(N - 1) /\ k + 1 \in 1..N
    BY <1>1, <1>2
  <1>4. EndOf(stream, k + 1) = EndOf(stream, k) + RecordSize + stream.records[k + 1].size
    BY <1>3, EndsAt DEF N
  <1> QED BY <1>1, <1>3, <1>4 DEF k, N

LEMMA CountingKeepsSofar ==
    ASSUME NEW stream, StreamType(stream), NEW available \in Nat, available <= stream.size,
           NEW v, Sofar(v, stream), Counts(v, available, stream)
    PROVE  Sofar(ReadRecord(v, available, stream), stream)
  <1> DEFINE k == Parsed(v)
             r == stream.records[k + 1]
             w == ReadRecord(v, available, stream)
             count == stream.info.records
  <1>1. v \in Validator /\ v.accepted /\ v.published \in Nat /\ v.videos \in Nat
        /\ v.audios \in Nat /\ v.last_sample \in Nat /\ k \in Nat
    BY ValidatorFields DEF Sofar
  <1>2. /\ r.size \in Nat /\ r.sample \in Nat /\ w \in Validator
        /\ w.published = v.published + RecordSize + r.size
        /\ w.videos = IF r.kind = "video" THEN v.videos + 1 ELSE v.videos
        /\ w.audios = IF r.kind = "audio" THEN v.audios + 1 ELSE v.audios
        /\ w.last_sample = r.sample /\ w.accepted = v.accepted /\ Parsed(w) = k + 1
    <2>1. w = Counted(v, r)
      BY <1>1, TurnMeans
    <2> DEFINE x == Counted(v, r)
    <2>2. /\ r.size \in Nat /\ r.sample \in Nat /\ x \in Validator
          /\ x.published = v.published + RecordSize + r.size
          /\ x.videos = IF r.kind = "video" THEN v.videos + 1 ELSE v.videos
          /\ x.audios = IF r.kind = "audio" THEN v.audios + 1 ELSE v.audios
          /\ x.last_sample = r.sample /\ x.accepted = v.accepted
          /\ Parsed(x) = Parsed(v) + 1
      <3>1. v \in Validator
        BY <1>1
      <3> QED BY <3>1, CountedFields
    <2> HIDE DEF r
    <2> QED BY <2>1, <2>2
  <1>3. /\ v.published + RecordSize + r.size <= available /\ k < count
        /\ HeadFits(v, r, stream) /\ RecordFits(v, r, stream)
    BY DEF Counts
  <1>4. stream.size \in Nat /\ count \in Nat /\ RecordSize \in Nat
    BY StreamFields, SizesUsed
  <1>5. v.published + RecordSize <= stream.size
    <2> HIDE DEF r, count, w, k
    <2> QED BY <1>1, <1>2, <1>3, <1>4
  <1>6. k + 1 \in 1..Len(stream.records) /\ Len(stream.records) \in Nat
        /\ EndOf(stream, k + 1) = v.published + RecordSize + r.size
    BY <1>5, NextRecord, StreamFields
  <1>7. /\ w.videos = OfKind(stream, "video", k + 1)
        /\ w.audios = OfKind(stream, "audio", k + 1)
    <2>1. v.videos = OfKind(stream, "video", k) /\ v.audios = OfKind(stream, "audio", k)
      BY DEF Sofar
    <2>2. /\ OfKind(stream, "video", k + 1) =
               IF r.kind = "video" THEN OfKind(stream, "video", k) + 1
               ELSE OfKind(stream, "video", k)
          /\ OfKind(stream, "audio", k + 1) =
               IF r.kind = "audio" THEN OfKind(stream, "audio", k) + 1
               ELSE OfKind(stream, "audio", k)
      BY <1>1, KindCounted
    <2> HIDE DEF r, w, k
    <2> QED BY <1>2, <2>1, <2>2, Zenon
  <1>8. Proper(stream, k + 1)
    <2>1. r.intact /\ \/ r.kind = "video" /\ r.sample = frame_sample(v.videos)
                      \/ r.kind = "audio" /\ r.sample = aac_sample(v.audios)
      BY <1>3 DEF RecordFits
    <2>2. r.size \in SmallestRecord..stream.info.maximum_record
      BY <1>3 DEF HeadFits
    <2>3. v.videos = OfKind(stream, "video", (k + 1) - 1)
          /\ v.audios = OfKind(stream, "audio", (k + 1) - 1)
      <3>1. (k + 1) - 1 = k
        BY <1>1
      <3> QED BY <3>1 DEF Sofar
    <2> HIDE DEF k
    <2> QED BY <2>1, <2>2, <2>3 DEF Proper
  <1>9. \A i, j \in 1..(k + 1) :
           i < j => stream.records[i].sample <= stream.records[j].sample
    <2> SUFFICES ASSUME NEW i \in 1..(k + 1), NEW j \in 1..(k + 1), i < j
                 PROVE  stream.records[i].sample <= stream.records[j].sample
      OBVIOUS
    <2>1. CASE j # k + 1
      <3>1. i \in 1..k /\ j \in 1..k
        BY <1>1, <2>1
      <3> QED BY <3>1 DEF Sofar
    <2>2. CASE j = k + 1
      <3>1. i \in 1..k /\ k \in 1..k /\ i <= k /\ k # 0
        BY <1>1, <2>2
      <3>2. i \in 1..Len(stream.records) /\ k \in 1..Len(stream.records)
        BY <1>1, <1>6, <3>1
      <3>3. stream.records[i].sample \in Nat /\ stream.records[k].sample \in Nat
        BY <3>2, StreamFields
      <3>4. stream.records[i].sample <= stream.records[k].sample
        <4>1. i < k => stream.records[i].sample <= stream.records[k].sample
          BY <3>1 DEF Sofar
        <4>2. i < k \/ i = k
          BY <1>1, <3>1
        <4> QED BY <3>3, <4>1, <4>2
      <3>5. v.last_sample = stream.records[k].sample
        BY <3>1 DEF Sofar
      <3>6. r.sample >= v.last_sample
        BY <1>3 DEF HeadFits
      <3>7. stream.records[j].sample = r.sample
        BY <2>2
      <3> HIDE DEF r
      <3> QED BY <1>1, <1>2, <3>3, <3>4, <3>5, <3>6, <3>7
    <2> QED BY <2>1, <2>2
  <1>10. \A i \in 1..(k + 1) : Proper(stream, i)
    <2>1. \A i \in 1..(k + 1) : i \in 1..k \/ i = k + 1
      BY <1>1
    <2> QED BY <1>8, <2>1 DEF Sofar
  <1>11. k + 1 <= Len(stream.records) /\ k + 1 <= count /\ k + 1 # 0
    <2> HIDE DEF k, count
    <2> QED BY <1>1, <1>3, <1>4, <1>6
  <1>12. Sofar(w, stream)
    <2>1. stream.records[k + 1] = r
      OBVIOUS
    <2> HIDE DEF w, k, r
    <2> QED BY <1>1, <1>2, <1>6, <1>7, <1>9, <1>10, <1>11, <2>1 DEF Sofar
  <1> QED BY <1>12

LEMMA LoopKeepsSofar ==
    ASSUME NEW stream, StreamType(stream), NEW available \in Nat, available <= stream.size,
           NEW v \in Validator, Sofar(v, stream), ReadRecords(v, available, stream).accepted
    PROVE  Sofar(ReadRecords(v, available, stream), stream)
  <1> DEFINE End(u) == ReadRecords(u, available, stream)
             S == {u \in Validator : Sofar(u, stream) /\ End(u).accepted => Sofar(End(u), stream)}
  <1>1. ASSUME NEW u \in Validator, ReadRecord(u, available, stream) = u PROVE u \in S
    <2>1. End(u) = u
      BY <1>1, LoopMeans
    <2> QED BY <2>1
  <1>2. ASSUME NEW u \in Validator, ReadRecord(u, available, stream) # u,
               ReadRecord(u, available, stream) \in S
        PROVE  u \in S
    <2> DEFINE n == ReadRecord(u, available, stream)
    <2>1. End(u) = End(n)
      BY <1>2, LoopMeans
    <2> SUFFICES ASSUME Sofar(u, stream), End(u).accepted PROVE Sofar(End(u), stream)
      BY <2>1
    <2>2. ~Refuses(u, available, stream)
      <3> SUFFICES ASSUME Refuses(u, available, stream) PROVE FALSE
        OBVIOUS
      <3>1. n \in Validator /\ ~n.accepted
        BY TurnMeans, RefusedFields
      <3>2. End(n) = n
        BY <3>1, LoopKeeps
      <3> QED BY <2>1, <3>1, <3>2
    <2>3. Counts(u, available, stream)
      BY <1>2, <2>2, TurnMeans
    <2>4. Sofar(n, stream)
      BY <2>3, CountingKeepsSofar
    <2> QED BY <1>2, <2>1, <2>4
  <1>3. \A u \in Validator :
           Turn(available, stream)[u] = u \/ Turn(available, stream)[u] \in S => u \in S
    <2>1. \A u \in Validator : Turn(available, stream)[u] = ReadRecord(u, available, stream)
      BY DEF Turn
    <2> HIDE DEF S
    <2> QED BY <1>1, <1>2, <2>1
  <1> HIDE DEF S
  <1>4. Validator \subseteq S
    BY <1>3, TurnDescends, ByDescent
  <1> QED BY <1>4 DEF S

\* Every record of a well-formed stream is a picture or sound.
LEMMA KindsTogether ==
    ASSUME NEW stream, StreamType(stream), WellFormed(stream),
           NEW n \in 0..stream.info.records
    PROVE  OfKind(stream, "video", n) + OfKind(stream, "audio", n) = n
  <1> DEFINE count == stream.info.records
             S == {m \in 0..count : OfKind(stream, "video", m) + OfKind(stream, "audio", m) = m}
  <1>1. count \in Nat
    BY StreamFields
  <1>2. 0 \in S
    BY <1>1, KindCounted
  <1>3. ASSUME NEW m \in S, m + 1 \in 0..count PROVE m + 1 \in S
    <2> DEFINE r == stream.records[m + 1]
    <2>1. m \in Nat /\ m + 1 \in 1..count
      BY <1>1, <1>3
    <2>2. Proper(stream, m + 1) /\ count <= Len(stream.records)
      BY <2>1, WellFormedMeans
    <2>3. r.sample \in Nat
      <3>1. m + 1 \in 1..Len(stream.records)
        BY <1>1, <2>1, <2>2, StreamFields
      <3> QED BY <3>1, StreamFields
    <2>4. r.kind = "video" \/ r.kind = "audio"
      <3>1. r.kind # "video" /\ r.kind # "audio" => r.sample = -1
        BY <2>1, <2>2, ProperFields
      <3>2. r.sample # -1
        BY <2>3
      <3> HIDE DEF r
      <3> QED BY <3>1, <3>2
    <2>5. /\ OfKind(stream, "video", m + 1) =
               IF r.kind = "video" THEN OfKind(stream, "video", m) + 1
               ELSE OfKind(stream, "video", m)
          /\ OfKind(stream, "audio", m + 1) =
               IF r.kind = "audio" THEN OfKind(stream, "audio", m) + 1
               ELSE OfKind(stream, "audio", m)
          /\ OfKind(stream, "video", m) \in Nat /\ OfKind(stream, "audio", m) \in Nat
      BY <2>1, KindCounted
    <2>6. OfKind(stream, "video", m) + OfKind(stream, "audio", m) = m
      BY <1>3
    <2> HIDE DEF r
    <2>7. OfKind(stream, "video", m + 1) + OfKind(stream, "audio", m + 1) = m + 1
      <3>1. CASE r.kind = "video"
        <4>1. OfKind(stream, "video", m + 1) = OfKind(stream, "video", m) + 1
              /\ OfKind(stream, "audio", m + 1) = OfKind(stream, "audio", m)
          BY <2>5, <3>1
        <4>2. OfKind(stream, "video", m) \in Nat /\ OfKind(stream, "audio", m) \in Nat
          BY <2>5
        <4> QED BY <2>6, <4>1, <4>2
      <3>2. CASE r.kind = "audio"
        <4>1. OfKind(stream, "audio", m + 1) = OfKind(stream, "audio", m) + 1
              /\ OfKind(stream, "video", m + 1) = OfKind(stream, "video", m)
          BY <2>5, <3>2
        <4>2. OfKind(stream, "video", m) \in Nat /\ OfKind(stream, "audio", m) \in Nat
          BY <2>5
        <4> QED BY <2>6, <4>1, <4>2
      <3> QED BY <2>4, <3>1, <3>2
    <2> QED BY <1>3, <2>7
  <1> HIDE DEF S
  <1>4. 0..count \subseteq S
    BY <1>1, <1>2, <1>3, Induct
  <1> QED BY <1>4 DEF S

\* In a well-formed stream the record at which the parser stands is a good one.
LEMMA NextFits ==
    ASSUME NEW stream, StreamType(stream), WellFormed(stream), NEW v, Sofar(v, stream),
           Parsed(v) < stream.info.records
    PROVE  LET r == stream.records[Parsed(v) + 1]
           IN /\ HeadFits(v, r, stream) /\ RecordFits(v, r, stream)
              /\ v.published + RecordSize + r.size <= stream.size /\ r.size \in Nat
  <1> DEFINE k == Parsed(v)
             r == stream.records[k + 1]
             count == stream.info.records
             N == Len(stream.records)
  <1>1. /\ k \in Nat /\ v.published \in Nat /\ v.videos \in Nat /\ v.audios \in Nat
        /\ v.last_sample \in Nat
    BY ValidatorFields DEF Sofar
  <1>2. count \in Nat /\ N \in Nat /\ stream.size \in Nat /\ RecordSize \in Nat
        /\ stream.info.frames \in Nat
    BY StreamFields, SizesUsed
  <1>3. count <= N /\ EndOf(stream, count) = stream.size
        /\ OfKind(stream, "video", count) = stream.info.frames
    BY WellFormedMeans
  <1>4. k + 1 \in 1..count /\ k + 1 \in 1..N /\ k \in 0..(N - 1) /\ k + 1 \in 0..N
        /\ count \in 0..N /\ k + 1 <= count /\ count \in 0..count /\ k + 1 \in Nat
    <2> HIDE DEF k, count, N
    <2> QED BY <1>1, <1>2, <1>3 DEF k, count
  <1>5. Proper(stream, k + 1)
    BY <1>4, WellFormedMeans
  <1>6. /\ r.intact /\ r.size \in SmallestRecord..stream.info.maximum_record
        /\ r.kind = "video" => r.sample = frame_sample(OfKind(stream, "video", k))
        /\ r.kind = "audio" => r.sample = aac_sample(OfKind(stream, "audio", k))
        /\ r.kind # "video" /\ r.kind # "audio" => r.sample = -1
    BY <1>1, <1>5, ProperFields
  <1>7. r.sample \in Nat /\ r.size \in Nat
    BY <1>4, StreamFields
  <1>8. v.published = EndOf(stream, k) /\ v.videos = OfKind(stream, "video", k)
        /\ v.audios = OfKind(stream, "audio", k)
        /\ v.last_sample = IF k = 0 THEN 0 ELSE stream.records[k].sample
    BY DEF Sofar
  <1>9. v.published + RecordSize + r.size <= stream.size
    <2>1. EndOf(stream, k + 1) = EndOf(stream, k) + RecordSize + r.size
      BY <1>4, EndsAt
    <2>2. EndOf(stream, k + 1) <= EndOf(stream, count)
      BY <1>4, EndsInOrder
    <2> HIDE DEF r, k, count
    <2> QED BY <1>3, <1>8, <2>1, <2>2
  <1>10. r.sample >= v.last_sample
    <2>1. CASE k = 0
      <3>1. v.last_sample = 0
        BY <1>8, <2>1
      <3> HIDE DEF r
      <3> QED BY <1>7, <3>1
    <2>2. CASE k # 0
      <3>1. k \in 1..count /\ k < k + 1
        <4> HIDE DEF k, count
        <4> QED BY <1>1, <1>2, <1>4, <2>2
      <3>2. stream.records[k].sample <= r.sample
        BY <1>4, <3>1, WellFormedMeans
      <3>3. v.last_sample = stream.records[k].sample
        BY <1>8, <2>2
      <3> HIDE DEF r, k
      <3> QED BY <1>1, <1>7, <3>2, <3>3
    <2> QED BY <2>1, <2>2
  <1>11. HeadFits(v, r, stream)
    <2>1. r.size <= stream.size - v.published - RecordSize
      <3> HIDE DEF r
      <3> QED BY <1>1, <1>2, <1>7, <1>9
    <2> HIDE DEF r
    <2> QED BY <1>6, <1>10, <2>1 DEF HeadFits
  <1>12. r.kind = "video" \/ r.kind = "audio"
    <2>1. r.sample # -1
      <3> HIDE DEF r
      <3> QED BY <1>7
    <2> HIDE DEF r
    <2> QED BY <1>6, <2>1
  <1>13. RecordFits(v, r, stream)
    <2>1. CASE r.kind = "video"
      <3>1. OfKind(stream, "video", k + 1) = v.videos + 1
        BY <1>1, <1>8, <2>1, KindCounted
      <3>2. OfKind(stream, "video", k + 1) <= OfKind(stream, "video", count)
        BY <1>2, <1>4, KindsGrow
      <3>3. v.videos < stream.info.frames
        BY <1>1, <1>2, <1>3, <3>1, <3>2
      <3>4. r.intact /\ r.sample = frame_sample(v.videos)
        BY <1>6, <1>8, <2>1
      <3> HIDE DEF r
      <3> QED BY <2>1, <3>3, <3>4 DEF RecordFits
    <2>2. CASE r.kind = "audio"
      <3>1. OfKind(stream, "audio", k + 1) = v.audios + 1
        BY <1>1, <1>8, <2>2, KindCounted
      <3>2. OfKind(stream, "audio", k + 1) <= OfKind(stream, "audio", count)
        BY <1>2, <1>4, KindsGrow
      <3>3. OfKind(stream, "video", count) + OfKind(stream, "audio", count) = count
        BY <1>4, KindsTogether
      <3>4. OfKind(stream, "audio", count) \in Nat
        BY <1>2, KindCounted
      <3>5. v.audios < count - stream.info.frames
        <4> HIDE DEF k, count
        <4> QED BY <1>1, <1>2, <1>3, <3>1, <3>2, <3>3, <3>4
      <3>6. r.intact /\ r.sample = aac_sample(v.audios)
        BY <1>6, <1>8, <2>2
      <3> HIDE DEF r
      <3> QED BY <2>2, <3>5, <3>6 DEF RecordFits
    <2> QED BY <1>12, <2>1, <2>2
  <1> QED BY <1>7, <1>9, <1>11, <1>13

LEMMA SoundNeverRefused ==
    ASSUME NEW stream, StreamType(stream), WellFormed(stream), NEW available \in Nat,
           available <= stream.size, NEW v, Sofar(v, stream)
    PROVE  ~Refuses(v, available, stream)
  <1> DEFINE k == Parsed(v)
             count == stream.info.records
  <1> SUFFICES ASSUME Refuses(v, available, stream) PROVE FALSE
    OBVIOUS
  <1>1. /\ k \in Nat /\ v.published \in Nat /\ count \in Nat /\ stream.size \in Nat
        /\ RecordSize \in Nat \ {0} /\ Len(stream.records) \in Nat
    BY ValidatorFields, StreamFields, SizesUsed DEF Sofar
  <1>2. k <= count /\ v.published = EndOf(stream, k)
    BY DEF Sofar
  <1>3. k < count
    <2>1. EndOf(stream, count) = stream.size
      BY WellFormedMeans
    <2>2. v.published + RecordSize <= available
      BY DEF Refuses
    <2> HIDE DEF k, count
    <2> QED BY <1>1, <1>2, <2>1, <2>2
  <1>4. /\ HeadFits(v, stream.records[k + 1], stream)
        /\ RecordFits(v, stream.records[k + 1], stream)
    BY <1>3, NextFits
  <1>5. ~(k >= count)
    BY <1>1, <1>3
  <1> QED BY <1>4, <1>5 DEF Refuses

LEMMA SoundGoesOn ==
    ASSUME NEW stream, StreamType(stream), WellFormed(stream), NEW available \in Nat,
           available <= stream.size, NEW v \in Validator, Sofar(v, stream)
    PROVE  Sofar(ReadRecords(v, available, stream), stream)
  <1> DEFINE End(u) == ReadRecords(u, available, stream)
             S == {u \in Validator : Sofar(u, stream) => Sofar(End(u), stream)}
  <1>1. ASSUME NEW u \in Validator, ReadRecord(u, available, stream) = u PROVE u \in S
    <2>1. End(u) = u
      BY <1>1, LoopMeans
    <2> QED BY <2>1
  <1>2. ASSUME NEW u \in Validator, ReadRecord(u, available, stream) # u,
               ReadRecord(u, available, stream) \in S
        PROVE  u \in S
    <2> DEFINE n == ReadRecord(u, available, stream)
    <2>1. End(u) = End(n)
      BY <1>2, LoopMeans
    <2> SUFFICES ASSUME Sofar(u, stream) PROVE Sofar(End(u), stream)
      OBVIOUS
    <2>2. Counts(u, available, stream)
      BY <1>2, SoundNeverRefused, TurnMeans
    <2>3. Sofar(n, stream)
      BY <2>2, CountingKeepsSofar
    <2> QED BY <1>2, <2>1, <2>3
  <1>3. \A u \in Validator :
           Turn(available, stream)[u] = u \/ Turn(available, stream)[u] \in S => u \in S
    <2>1. \A u \in Validator : Turn(available, stream)[u] = ReadRecord(u, available, stream)
      BY DEF Turn
    <2> HIDE DEF S
    <2> QED BY <1>1, <1>2, <2>1
  <1> HIDE DEF S
  <1>4. Validator \subseteq S
    BY <1>3, TurnDescends, ByDescent
  <1> QED BY <1>4 DEF S

\* One look at the whole of a file accepts exactly the well-formed streams: every
\* record in its place, on time and sound, and nothing after the last
\* (validator::advance, the clip a player is given).
THEOREM VerdictIsRight ==
    ASSUME NEW stream, StreamType(stream), stream.size >= HeaderSize
    PROVE  advance(Fresh, stream.size, stream).accepted <=> WellFormed(stream)
  <1> DEFINE size == stream.size
             start == Arrived(Opened, size)
             one == Read(Fresh, size, stream)
             count == stream.info.records
  <1>1. size \in Nat /\ count \in Nat /\ HeaderSize \in Nat /\ RecordSize \in Nat
        /\ size <= size /\ ~(size < HeaderSize)
    BY StreamFields, SizesUsed
  <1>2. /\ one \in Validator
        /\ advance(Fresh, size, stream) =
              IF ~Finished(one, stream) THEN Refused(one) ELSE one
    BY <1>1, FirstAdvance
  <1>3. start \in Validator /\ Sofar(start, stream)
    BY <1>1, ArrivedFields, OpenedFields, StartIsSofar
  <1>4. parse_header(stream) => one = ReadRecords(start, size, stream)
    BY <1>1, FirstLook
  <1>5. ASSUME advance(Fresh, size, stream).accepted PROVE WellFormed(stream)
    <2>1. one.accepted /\ Finished(one, stream)
      BY <1>2, <1>5, RefusedFields
    <2>2. parse_header(stream)
      <3> SUFFICES ASSUME ~parse_header(stream) PROVE FALSE
        OBVIOUS
      <3>1. one = Refused(Arrived(Fresh, size)) /\ Arrived(Fresh, size) \in Validator
        BY <1>1, FirstLook, FreshFields, ArrivedFields, SMTT(30)
      <3> QED BY <2>1, <3>1, RefusedFields, SMTT(30)
    <2>3. Sofar(one, stream)
      <3>1. one = ReadRecords(start, size, stream)
        BY <1>4, <2>2
      <3> HIDE DEF one, start, size
      <3> QED BY <1>1, <1>3, <2>1, <3>1, LoopKeepsSofar DEF size
    <2>4. one.published = size /\ one.videos = stream.info.frames /\ Parsed(one) = count
      BY <2>1 DEF Finished
    <2> HIDE DEF one
    <2> QED BY <2>2, <2>3, <2>4, WellFormedMeans DEF Sofar
  <1>6. ASSUME WellFormed(stream) PROVE advance(Fresh, size, stream).accepted
    <2>1. parse_header(stream) /\ EndOf(stream, count) = size /\ count <= Len(stream.records)
          /\ OfKind(stream, "video", count) = stream.info.frames
      BY <1>6, WellFormedMeans
    <2>2. one = ReadRecords(start, size, stream)
      BY <1>4, <2>1
    <2>3. Sofar(one, stream) /\ ReadRecord(one, size, stream) = one
      <3> HIDE DEF one, start, size
      <3> QED BY <1>1, <1>3, <1>6, <2>2, SoundGoesOn, LoopKeeps DEF size
    <2>4. ~Counts(one, size, stream)
      <3> SUFFICES ASSUME Counts(one, size, stream) PROVE FALSE
        OBVIOUS
      <3>1. one = Counted(one, stream.records[Parsed(one) + 1])
        BY <1>1, <1>2, <2>3, TurnMeans
      <3>2. Parsed(one) = Parsed(one) + 1 /\ Parsed(one) \in Nat
        BY <1>1, <1>2, <3>1, CountedFields, ValidatorFields
      <3> QED BY <3>2
    <2>5. Parsed(one) = count
      <3>1. Parsed(one) <= count /\ Parsed(one) \in Nat /\ one.published \in Nat
        BY <1>2, <2>3, ValidatorFields DEF Sofar
      <3>2. ~(Parsed(one) < count)
        <4> SUFFICES ASSUME Parsed(one) < count PROVE FALSE
          OBVIOUS
        <4> DEFINE r == stream.records[Parsed(one) + 1]
        <4>1. /\ HeadFits(one, r, stream) /\ RecordFits(one, r, stream)
              /\ one.published + RecordSize + r.size <= size
          BY <1>6, <2>3, NextFits
        <4>2. one.accepted /\ one.published > 0
          <5>1. HeaderSize <= one.published
            <6>1. start.published = HeaderSize
              BY <1>1, ArrivedFields, OpenedFields
            <6>2. start \in Validator
              BY <1>3
            <6>3. start.published <= ReadRecords(start, size, stream).published
              <7> HIDE DEF start, size
              <7> QED BY <1>1, <6>2, LoopKeeps
            <6> HIDE DEF start, one
            <6> QED BY <2>2, <6>1, <6>3
          <5>2. HeaderSize > 0
            BY SizesUsed
          <5>3. one.published > 0
            <6> HIDE DEF one
            <6> QED BY <1>1, <3>1, <5>1, <5>2
          <5> QED BY <2>3, <5>3 DEF Sofar
        <4> QED BY <2>4, <4>1, <4>2 DEF Counts
      <3> HIDE DEF one, count
      <3> QED BY <1>1, <3>1, <3>2
    <2>6. Finished(one, stream) /\ one.accepted
      <3> HIDE DEF one
      <3> QED BY <2>1, <2>3, <2>5 DEF Finished, Sofar
    <2> QED BY <1>2, <2>6
  <1> QED BY <1>5, <1>6

-----------------------------------------------------------------------------
(* What is said to be buffered is there.                                    *)

LEMMA QuotientGrows ==
    ASSUME NEW x \in Nat, NEW z \in Nat, NEW y \in Nat \ {0}, x <= z
    PROVE  x \div y <= z \div y
  OBVIOUS

LEMMA SamplesGrow ==
    ASSUME NEW a \in Nat, NEW b \in Nat, a <= b
    PROVE  frame_sample(a) <= frame_sample(b) /\ aac_sample(a) <= aac_sample(b)
  <1>1. Rate \in Nat /\ Fps \in Nat \ {0} /\ AacSamples \in Nat /\ Fps \div 2 \in Nat
    BY SizesUsed
  <1>2. frame_sample(a) <= frame_sample(b)
    <2> DEFINE x == a * Rate + Fps \div 2
               z == b * Rate + Fps \div 2
    <2>1. a * Rate \in Nat /\ b * Rate \in Nat /\ a * Rate <= b * Rate
      BY <1>1, TimesMonotone
    <2>2. x \in Nat /\ z \in Nat /\ x <= z
      BY <1>1, <2>1
    <2> HIDE DEF x, z
    <2>3. x \div Fps <= z \div Fps
      BY <1>1, <2>2, QuotientGrows
    <2> QED BY <2>3 DEF frame_sample, x, z
  <1>3. aac_sample(a) <= aac_sample(b)
    <2>1. CASE a = 0
      <3>1. aac_sample(a) = 0 /\ aac_sample(b) \in Nat
        BY <2>1, SampleIsNat DEF aac_sample
      <3> QED BY <3>1
    <2>2. CASE a # 0
      <3>1. (a - 1) * AacSamples <= (b - 1) * AacSamples
        <4>1. a - 1 \in Int /\ b - 1 \in Int /\ a - 1 <= b - 1
          OBVIOUS
        <4> QED BY <1>1, <4>1, TimesMonotone
      <3> QED BY <2>2, <3>1 DEF aac_sample
    <2> QED BY <2>1, <2>2
  <1> QED BY <1>2, <1>3

\* The sound of a whole clip reaches to its end.
LEMMA SoundReachesEnd ==
    ASSUME NEW samples \in Nat
    PROVE  samples <= aac_sample(aac_records(samples))
  <1> DEFINE q == aac_records(samples)
             x == samples + 2 * AacSamples - 1
             r == x % AacSamples
  <1>1. AacSamples \in Nat \ {0} /\ x \in Nat
    BY SizesUsed
  <1>2. q \in Nat /\ r \in 0..(AacSamples - 1) /\ x = AacSamples * q + r
    <2>1. q = x \div AacSamples
      BY DEF aac_records
    <2> HIDE DEF x, q
    <2> QED BY <1>1, <2>1
  <1>3. AacSamples * q >= samples + AacSamples
    <2> DEFINE p == AacSamples * q
    <2>1. p \in Nat
      BY <1>1, <1>2
    <2> HIDE DEF p, q, r
    <2> QED BY <1>1, <1>2, <2>1 DEF p
  <1> HIDE DEF q, x, r
  <1>4. q # 0
    BY <1>1, <1>3
  <1>5. (q - 1) * AacSamples = AacSamples * q - AacSamples
    BY <1>1, <1>2
  <1>6. (q - 1) * AacSamples >= samples
    <2> DEFINE p == AacSamples * q
    <2>1. p \in Nat
      BY <1>1, <1>2
    <2> HIDE DEF p
    <2> QED BY <1>1, <1>3, <1>5, <2>1 DEF p
  <1> QED BY <1>4, <1>6 DEF aac_sample, q

LEMMA LeastOfThree ==
    ASSUME NEW a \in Nat, NEW b \in Nat, NEW c \in Nat
    PROVE  LET n == Least({a, b, c})
           IN n \in {a, b, c} /\ n <= a /\ n <= b /\ n <= c
  <1> DEFINE Lowest(n) == n \in {a, b, c} /\ \A k \in {a, b, c} : n <= k
  <1>1. \E n : Lowest(n)
    <2>1. CASE a <= b /\ a <= c
      BY <2>1
    <2>2. CASE b <= a /\ b <= c
      BY <2>2
    <2>3. CASE c <= a /\ c <= b
      BY <2>3
    <2> QED BY <2>1, <2>2, <2>3
  <1>2. Least({a, b, c}) = CHOOSE n : Lowest(n)
    BY DEF Least
  <1>3. Lowest(Least({a, b, c}))
    <2> HIDE DEF Lowest
    <2> QED BY <1>1, <1>2
  <1> QED BY <1>3

LEMMA HorizonFields ==
    ASSUME NEW v \in Validator, NEW stream, StreamType(stream), v.published > 0
    PROVE  LET n == buffered_samples(v, stream)
           IN /\ n \in {stream.info.samples, frame_sample(v.videos), aac_sample(v.audios)}
              /\ n <= stream.info.samples /\ n <= frame_sample(v.videos)
              /\ n <= aac_sample(v.audios)
  <1>1. v.videos \in Nat /\ v.audios \in Nat /\ v.published \in Nat /\ stream.info.samples \in Nat
    BY ValidatorFields, StreamFields
  <1>2. frame_sample(v.videos) \in Nat /\ aac_sample(v.audios) \in Nat
    BY <1>1, SampleIsNat
  <1>3. buffered_samples(v, stream)
          = Least({stream.info.samples, frame_sample(v.videos), aac_sample(v.audios)})
    BY <1>1 DEF buffered_samples
  <1> QED BY <1>1, <1>2, <1>3, LeastOfThree

\* After any look, a well-formed stream has been read up to some record of it.
LEMMA LookIsSofar ==
    ASSUME NEW stream, StreamType(stream), WellFormed(stream), NEW n \in 0..stream.size
    PROVE  LET v == advance(Fresh, n, stream)
           IN /\ v \in Validator
              /\ v.published = 0 \/ Sofar(v, stream)
              /\ n = stream.size => Finished(v, stream) /\ v.published > 0
  <1> DEFINE v == advance(Fresh, n, stream)
             read == Read(Fresh, n, stream)
             start == Arrived(Opened, n)
  <1>1. n \in Nat /\ n <= stream.size /\ stream.size \in Nat /\ HeaderSize \in Nat \ {0}
    BY StreamFields, SizesUsed
  <1>2. parse_header(stream) /\ stream.size >= HeaderSize
    BY WellFormedMeans DEF parse_header
  <1>3. v.accepted => v = read
    BY <1>1, FirstAdvance
  <1>4. v = read /\ (n = stream.size => Finished(v, stream))
    <2>1. CASE n = stream.size
      <3>1. v.accepted
        BY <1>2, <2>1, VerdictIsRight
      <3>2. read \in Validator /\ v = IF ~Finished(read, stream) THEN Refused(read) ELSE read
        BY <1>1, <2>1, FirstAdvance
      <3> HIDE DEF v, read
      <3>3. Finished(read, stream)
        BY <3>1, <3>2, RefusedFields
      <3> QED BY <1>3, <3>1, <3>3
    <2>2. CASE n # stream.size
      BY <1>1, <2>2, FirstAdvance
    <2> QED BY <2>1, <2>2
  <1>5. read \in Validator
    BY <1>1, FirstAdvance
  <1>6. CASE n < HeaderSize
    <2>1. read = Arrived(Fresh, n)
      BY <1>1, <1>6, FirstLook
    <2>2. read.published = 0
      BY <1>1, <2>1, ArrivedFields, FreshFields
    <2>3. n # stream.size
      BY <1>1, <1>2, <1>6
    <2> QED BY <1>4, <1>5, <2>2, <2>3
  <1>7. CASE ~(n < HeaderSize)
    <2>1. read = ReadRecords(start, n, stream)
      BY <1>1, <1>2, <1>7, FirstLook
    <2>2. start \in Validator /\ Sofar(start, stream)
      BY <1>1, ArrivedFields, OpenedFields, StartIsSofar
    <2> HIDE DEF start
    <2>3. Sofar(read, stream)
      BY <1>1, <2>1, <2>2, SoundGoesOn
    <2>4. n = stream.size => v.published > 0
      <3> HIDE DEF v
      <3> QED BY <1>1, <1>2, <1>4 DEF Finished
    <2> QED BY <1>4, <1>5, <2>3, <2>4
  <1> QED BY <1>6, <1>7

\* What the player is told is buffered is there: no record still to come is for an
\* earlier time, and a whole clip is buffered to its end (validator::buffered_samples,
\* by which the player decides that it may go on).
THEOREM HorizonIsRight ==
    ASSUME NEW stream, StreamType(stream), WellFormed(stream), NEW n \in 0..stream.size
    PROVE  LET v == advance(Fresh, n, stream)
           IN /\ \A i \in (Parsed(v) + 1)..stream.info.records :
                    stream.records[i].sample >= buffered_samples(v, stream)
              /\ n = stream.size => buffered_samples(v, stream) = stream.info.samples
  <1> DEFINE v == advance(Fresh, n, stream)
             horizon == buffered_samples(v, stream)
             count == stream.info.records
  <1>1. /\ v \in Validator
        /\ v.published = 0 \/ Sofar(v, stream)
        /\ n = stream.size => Finished(v, stream) /\ v.published > 0
    BY LookIsSofar
  <1> HIDE DEF v
  <1>2. /\ v.published \in Nat /\ v.videos \in Nat /\ v.audios \in Nat /\ Parsed(v) \in Nat
        /\ count \in Nat /\ stream.info.samples \in Nat /\ stream.info.frames \in Nat
        /\ Len(stream.records) \in Nat
    BY <1>1, ValidatorFields, StreamFields
  <1>3. ASSUME NEW i \in (Parsed(v) + 1)..count PROVE stream.records[i].sample >= horizon
    <2> DEFINE m == i - 1
               r == stream.records[i]
    <2>1. /\ m \in Nat /\ m + 1 = i /\ i \in 1..count /\ Parsed(v) <= m
          /\ i \in 1..Len(stream.records)
      BY <1>2, WellFormedMeans
    <2>2. r.sample \in Nat
      BY <2>1, StreamFields
    <2>3. CASE v.published = 0
      BY <2>2, <2>3 DEF buffered_samples
    <2>4. CASE v.published # 0
      <3>1. Sofar(v, stream) /\ v.published > 0
        BY <1>1, <1>2, <2>4
      <3>2. horizon <= frame_sample(v.videos) /\ horizon <= aac_sample(v.audios)
            /\ horizon \in Nat
        BY <1>1, <1>2, <3>1, HorizonFields, SampleIsNat
      <3>3. Proper(stream, m + 1)
        BY <2>1, WellFormedMeans
      <3>4. /\ r.kind = "video" => r.sample = frame_sample(OfKind(stream, "video", m))
            /\ r.kind = "audio" => r.sample = aac_sample(OfKind(stream, "audio", m))
            /\ r.kind = "video" \/ r.kind = "audio"
        <4>1. /\ r.kind = "video" => r.sample = frame_sample(OfKind(stream, "video", m))
              /\ r.kind = "audio" => r.sample = aac_sample(OfKind(stream, "audio", m))
              /\ r.kind # "video" /\ r.kind # "audio" => r.sample = -1
          <5> HIDE DEF m
          <5> QED BY <2>1, <3>3, ProperFields
        <4> HIDE DEF r
        <4> QED BY <2>2, <4>1
      <3>5. /\ v.videos <= OfKind(stream, "video", m) /\ v.audios <= OfKind(stream, "audio", m)
            /\ OfKind(stream, "video", m) \in Nat /\ OfKind(stream, "audio", m) \in Nat
        <4>1. /\ v.videos = OfKind(stream, "video", Parsed(v))
              /\ v.audios = OfKind(stream, "audio", Parsed(v))
          BY <3>1 DEF Sofar
        <4> HIDE DEF m
        <4> QED BY <1>2, <2>1, <4>1, KindsGrow, KindCounted
      <3> HIDE DEF m, r, horizon
      <3>6. CASE r.kind = "video"
        <4>1. frame_sample(v.videos) <= r.sample /\ frame_sample(v.videos) \in Nat
          BY <1>2, <3>4, <3>5, <3>6, SamplesGrow, SampleIsNat
        <4> QED BY <2>2, <3>2, <4>1 DEF r
      <3>7. CASE r.kind = "audio"
        <4>1. aac_sample(v.audios) <= r.sample /\ aac_sample(v.audios) \in Nat
          BY <1>2, <3>4, <3>5, <3>7, SamplesGrow, SampleIsNat
        <4> QED BY <2>2, <3>2, <4>1 DEF r
      <3> QED BY <3>4, <3>6, <3>7
    <2> QED BY <2>3, <2>4
  <1>4. ASSUME n = stream.size PROVE horizon = stream.info.samples
    <2>1. /\ v.videos = stream.info.frames /\ Parsed(v) = count /\ v.published > 0
      BY <1>1, <1>4 DEF Finished
    <2>2. /\ stream.info.samples = frame_sample(stream.info.frames)
          /\ count = stream.info.frames + aac_records(stream.info.samples)
      BY WellFormedMeans DEF parse_header
    <2>3. frame_sample(v.videos) = stream.info.samples
      BY <2>1, <2>2
    <2>4. v.audios = aac_records(stream.info.samples)
      <3> DEFINE q == aac_records(stream.info.samples)
      <3>1. q \in Nat
        <4> DEFINE x == stream.info.samples + 2 * AacSamples - 1
        <4>1. x \in Nat
          BY <1>2, SizesUsed
        <4> HIDE DEF x
        <4>2. x \div AacSamples \in Nat
          BY <4>1, QuotientIsNat, SizesUsed
        <4> QED BY <4>2 DEF aac_records, x
      <3> HIDE DEF q
      <3> QED BY <1>2, <2>1, <2>2, <3>1 DEF Parsed, q
    <2>5. stream.info.samples <= aac_sample(v.audios) /\ aac_sample(v.audios) \in Nat
      BY <1>2, <2>4, SoundReachesEnd, SampleIsNat
    <2>6. /\ horizon \in {stream.info.samples, frame_sample(v.videos), aac_sample(v.audios)}
          /\ horizon <= stream.info.samples
      BY <1>1, <2>1, HorizonFields
    <2> HIDE DEF horizon
    <2> QED BY <1>2, <2>3, <2>5, <2>6
  <1> QED BY <1>3, <1>4 DEF v

-----------------------------------------------------------------------------
(* Who may change what: the link, the sender board and the receiver board.  *)

SenderSteps == SenderMain \/ SenderWorker \/ SenderSilence \/ SenderReset
ReceiverSteps == ReceiverMain \/ ReceiverWorker \/ ReceiverSilence \/ ReceiverReset

LEMMA WhoSteps ==
    ASSUME [Next]_vars
    PROVE  Link \/ SenderSteps \/ ReceiverSteps \/ UNCHANGED vars
  BY DEF Next, Silence, Reset, SenderSteps, ReceiverSteps

LEMMA LinkLeavesBoards ==
    ASSUME Link
    PROVE  UNCHANGED <<active, mainVars, senderVars, receiverVars, lifecycleVars, ramVars,
                       historyVars>>
  BY DEF Link, OnSend, OnReceive

LEMMA SenderLeavesReceiver ==
    ASSUME SenderSteps, active \in [Boards -> BOOLEAN]
    PROVE  /\ UNCHANGED <<receiverVars, lifecycleVars, ramVars, stored, verified>>
           /\ active' \in [Boards -> BOOLEAN] /\ active'["receiver"] = active["receiver"]
  <1> USE DEF receiverVars, lifecycleVars, ramVars, historyVars, Boards
  <1>1. CASE SenderMain
    BY <1>1 DEF SenderMain, StartClaim, StartEnqueue, WindowCommand
  <1>2. CASE SenderSilence
    BY <1>2 DEF SenderSilence
  <1>3. CASE SenderReset
    BY <1>3 DEF SenderReset
  <1>4. CASE Configure \/ BeginSendFails \/ \E clip \in Clips : BeginSend(clip)
    BY <1>4 DEF Configure, BeginSendFails, BeginSend, StopSender
  <1>5. CASE ReplyError \/ ReplyBegun \/ ReplyData \/ ReplyFinished \/ ReplyIgnored
    BY <1>5 DEF ReplyError, ReplyBegun, ReplyData, ReplyFinished, ReplyIgnored, StopSender,
                SenderRest
  <1>6. CASE SenderTimeout \/ SendControl \/ \E elapsed, accepted \in BOOLEAN :
                                                SendData(elapsed, accepted)
    BY <1>6 DEF SenderTimeout, SendControl, SendData, StopSender
  <1> QED BY <1>1, <1>2, <1>3, <1>4, <1>5, <1>6 DEF SenderSteps, SenderWorker

LEMMA ReceiverLeavesSender ==
    ASSUME ReceiverSteps, active \in [Boards -> BOOLEAN]
    PROVE  /\ UNCHANGED <<mainVars, senderVars, offered, sent>>
           /\ active' \in [Boards -> BOOLEAN] /\ active'["sender"] = active["sender"]
  <1> USE DEF mainVars, senderVars, historyVars, Boards
  <1>1. CASE ReceiverMain
    BY <1>1 DEF ReceiverMain, MainLoopClear, MainLoopBegin
  <1>2. CASE ReceiverSilence
    BY <1>2 DEF ReceiverSilence, ReceiverRest
  <1>3. CASE ReceiverReset
    BY <1>3 DEF ReceiverReset
  <1>4. CASE BeginAnswered \/ RejectAnswered
    BY <1>4 DEF BeginAnswered, RejectAnswered
  <1>5. CASE BeginAgain \/ BeginNew \/ DataElsewhere \/ DataAppended \/ DataRejected
             \/ FinishFirst \/ FinishAgain \/ RequestIgnored
    BY <1>5 DEF BeginAgain, BeginNew, DataElsewhere, DataAppended, DataRejected,
                FinishFirst, FinishAgain, RequestIgnored, ReceiverRest
  <1>6. CASE ReceiverTimeout \/ \E elapsed, accepted \in BOOLEAN :
                                   ReceiverTick(elapsed, accepted)
    BY <1>6 DEF ReceiverTimeout, ReceiverTick, ReceiverRest
  <1> QED BY <1>1, <1>2, <1>3, <1>4, <1>5, <1>6 DEF ReceiverSteps, ReceiverWorker

-----------------------------------------------------------------------------
(* The sender's commands and its busy flag.                                 *)

StartsIn(q) == {i \in 1..Len(q) : q[i].kind = "start"}

LEMMA StartsAppend ==
    ASSUME NEW q \in Seq(Commands), NEW c \in Commands
    PROVE  /\ Append(q, c) \in Seq(Commands)
           /\ StartsIn(Append(q, c)) =
                IF c.kind = "start" THEN StartsIn(q) \cup {Len(q) + 1} ELSE StartsIn(q)
  <1> DEFINE r == Append(q, c)
  <1>1. /\ r \in Seq(Commands) /\ Len(r) = Len(q) + 1 /\ Len(q) \in Nat
        /\ \A i \in 1..Len(q) : r[i] = q[i] /\ r[Len(q) + 1] = c
    BY AppendProperties
  <1> HIDE DEF r
  <1> QED BY <1>1 DEF StartsIn

LEMMA StartsTail ==
    ASSUME NEW q \in Seq(Commands), q # <<>>
    PROVE  /\ Tail(q) \in Seq(Commands) /\ Head(q) \in Commands
           /\ Head(q).kind = "start" <=> 1 \in StartsIn(q)
           /\ \A i \in Nat : i \in StartsIn(Tail(q)) <=> i \in Nat \ {0} /\ i + 1 \in StartsIn(q)
           /\ StartsIn(Tail(q)) \subseteq Nat /\ StartsIn(q) \subseteq Nat
  <1> DEFINE r == Tail(q)
  <1>1. /\ r \in Seq(Commands) /\ Head(q) \in Commands /\ Head(q) = q[1] /\ Len(q) \in Nat
        /\ Len(q) > 0 /\ Len(r) = Len(q) - 1 /\ \A i \in 1..Len(r) : r[i] = q[i + 1]
    BY HeadTailProperties, EmptySeq, LenProperties
  <1> HIDE DEF r
  <1> QED BY <1>1 DEF StartsIn

LEMMA OneStartTaken ==
    ASSUME NEW q \in Seq(Commands), q # <<>>, \A i, j \in StartsIn(q) : i = j
    PROVE  /\ Tail(q) \in Seq(Commands) /\ Head(q) \in Commands
           /\ Head(q).kind = "start" => StartsIn(Tail(q)) = {} /\ StartsIn(q) # {}
           /\ Head(q).kind = "window" => (StartsIn(Tail(q)) = {} <=> StartsIn(q) = {})
           /\ \A i, j \in StartsIn(Tail(q)) : i = j
  <1>1. /\ Tail(q) \in Seq(Commands) /\ Head(q) \in Commands
        /\ Head(q).kind = "start" <=> 1 \in StartsIn(q)
        /\ \A i \in Nat : i \in StartsIn(Tail(q)) <=> i \in Nat \ {0} /\ i + 1 \in StartsIn(q)
        /\ StartsIn(Tail(q)) \subseteq Nat /\ StartsIn(q) \subseteq Nat
    BY StartsTail
  <1>2. \A i \in StartsIn(Tail(q)) : i \in Nat \ {0} /\ i + 1 \in StartsIn(q) /\ i + 1 # 1
    BY <1>1
  <1>3. \A i, j \in StartsIn(Tail(q)) : i = j
    BY <1>2
  <1>4. ASSUME 1 \notin StartsIn(q), NEW k \in StartsIn(q) PROVE k - 1 \in StartsIn(Tail(q))
    <2>1. k \in 1..Len(q)
      BY DEF StartsIn
    <2>2. k - 1 \in Nat \ {0} /\ (k - 1) + 1 = k
      BY <1>4, <2>1
    <2> QED BY <1>1, <2>2
  <1>5. Head(q).kind = "window" => Head(q).kind # "start"
    OBVIOUS
  <1> QED BY <1>1, <1>2, <1>3, <1>4, <1>5

\* The parts of SenderBusy, with the starts named.
LEMMA BusyMeans ==
    SenderBusy <=>
        /\ active \in [Boards -> BOOLEAN] /\ sending \in [Boards -> BOOLEAN]
        /\ main_pc \in {"idle", "claimed"} /\ commands \in Seq(Commands)
        /\ configured_window \in Nat
        /\ phase \in {"idle", "begin", "data", "finish"} /\ tx_stale \in BOOLEAN
        /\ active["sender"] <=> phase # "idle" \/ main_pc = "claimed" \/ StartsIn(commands) # {}
        /\ main_pc = "claimed" => phase = "idle" /\ StartsIn(commands) = {}
        /\ StartsIn(commands) # {} =>
              phase = "idle" /\ \A i, j \in StartsIn(commands) : i = j
        /\ active["sender"] /\ phase = "idle" => Len(offered) < MaxSessions
  BY DEF SenderBusy, Starts, StartsIn

LEMMA SendingTyped ==
    ASSUME sending \in [Boards -> BOOLEAN], [Next]_vars
    PROVE  sending' \in [Boards -> BOOLEAN]
  <1>1. CASE Link
    BY <1>1 DEF Link, OnSend, OnReceive
  <1>2. CASE SenderMain \/ Silence \/ UNCHANGED vars
    BY <1>2 DEF SenderMain, StartClaim, StartEnqueue, WindowCommand, Silence, SenderSilence,
                ReceiverSilence, vars
  <1>3. CASE Reset
    BY <1>3 DEF Reset, SenderReset, ReceiverReset
  <1>4. CASE Configure \/ BeginSendFails \/ \E clip \in Clips : BeginSend(clip)
    BY <1>4 DEF Configure, BeginSendFails, BeginSend
  <1>5. CASE ReplyError \/ ReplyBegun \/ ReplyData \/ ReplyFinished \/ ReplyIgnored
    BY <1>5 DEF ReplyError, ReplyBegun, ReplyData, ReplyFinished, ReplyIgnored, Take
  <1>6. CASE SenderTimeout \/ SendControl \/ \E elapsed, accepted \in BOOLEAN :
                                                SendData(elapsed, accepted)
    BY <1>6 DEF SenderTimeout, SendControl, SendData, Transmit
  <1>7. CASE ReceiverMain
    BY <1>7 DEF ReceiverMain, MainLoopClear, MainLoopBegin
  <1>8. CASE BeginAnswered \/ RejectAnswered
    BY <1>8 DEF BeginAnswered, RejectAnswered
  <1>9. CASE BeginAgain \/ BeginNew \/ DataElsewhere \/ DataAppended \/ DataRejected
             \/ FinishFirst \/ FinishAgain \/ RequestIgnored
    BY <1>9 DEF BeginAgain, BeginNew, DataElsewhere, DataAppended, DataRejected,
                FinishFirst, FinishAgain, RequestIgnored, Take
  <1>10. CASE ReceiverTimeout \/ \E elapsed, accepted \in BOOLEAN :
                                    ReceiverTick(elapsed, accepted)
    BY <1>10 DEF ReceiverTimeout, ReceiverTick, Transmit
  <1> QED BY <1>1, <1>2, <1>3, <1>4, <1>5, <1>6, <1>7, <1>8, <1>9, <1>10
          DEF Next, SenderWorker, ReceiverWorker

LEMMA CommandsMade ==
    /\ [kind |-> "start"] \in Commands
    /\ \A n \in Windows : [kind |-> "window", value |-> n] \in Commands
    /\ \A c \in Commands : c.kind = "start" \/ (c.kind = "window" /\ c.value \in Nat)
  <1>1. \A n \in Windows : n \in Nat
    BY RadioConstants
  <1>2. \A c \in [kind : {"start"}] : c.kind = "start"
    OBVIOUS
  <1>3. \A c \in [kind : {"window"}, value : Windows] : c.kind = "window" /\ c.value \in Windows
    OBVIOUS
  <1>4. [kind |-> "start"] \in Commands
    BY DEF Commands
  <1>5. \A n \in Windows : [kind |-> "window", value |-> n] \in Commands
    BY DEF Commands
  <1>6. \A c \in Commands : c.kind = "start" \/ (c.kind = "window" /\ c.value \in Nat)
    BY <1>1, <1>2, <1>3 DEF Commands
  <1> QED BY <1>4, <1>5, <1>6

LEMMA SenderBusyKept ==
    ASSUME SenderBusy, Len(offered) \in Nat, [Next]_vars
    PROVE  SenderBusy'
  <1> DEFINE starts == StartsIn(commands)
             claims == main_pc = "claimed"
  <1>1. /\ active \in [Boards -> BOOLEAN]
        /\ main_pc \in {"idle", "claimed"} /\ commands \in Seq(Commands)
        /\ configured_window \in Nat
        /\ phase \in {"idle", "begin", "data", "finish"} /\ tx_stale \in BOOLEAN
        /\ active["sender"] <=> phase # "idle" \/ claims \/ starts # {}
        /\ claims => phase = "idle" /\ starts = {}
        /\ starts # {} => phase = "idle" /\ \A i, j \in starts : i = j
        /\ active["sender"] /\ phase = "idle" => Len(offered) < MaxSessions
    BY BusyMeans
  <1>2. sending' \in [Boards -> BOOLEAN]
    BY SendingTyped DEF SenderBusy
  <1> SUFFICES
        /\ active' \in [Boards -> BOOLEAN]
        /\ main_pc' \in {"idle", "claimed"} /\ commands' \in Seq(Commands)
        /\ configured_window' \in Nat
        /\ phase' \in {"idle", "begin", "data", "finish"} /\ tx_stale' \in BOOLEAN
        /\ active'["sender"] <=> phase' # "idle" \/ claims' \/ starts' # {}
        /\ claims' => phase' = "idle" /\ starts' = {}
        /\ starts' # {} => phase' = "idle" /\ \A i, j \in starts' : i = j
        /\ active'["sender"] /\ phase' = "idle" => Len(offered') < MaxSessions
    BY <1>2 DEF SenderBusy, Starts, StartsIn
  <1> USE DEF mainVars, senderVars, historyVars, Boards, SenderRest
  <1>3. ASSUME UNCHANGED <<main_pc, commands, configured_window, phase, tx_stale, offered>>,
               active' \in [Boards -> BOOLEAN], active'["sender"] = active["sender"]
        PROVE  /\ active' \in [Boards -> BOOLEAN]
               /\ main_pc' \in {"idle", "claimed"} /\ commands' \in Seq(Commands)
               /\ configured_window' \in Nat
               /\ phase' \in {"idle", "begin", "data", "finish"} /\ tx_stale' \in BOOLEAN
               /\ active'["sender"] <=> phase' # "idle" \/ claims' \/ starts' # {}
               /\ claims' => phase' = "idle" /\ starts' = {}
               /\ starts' # {} => phase' = "idle" /\ \A i, j \in starts' : i = j
               /\ active'["sender"] /\ phase' = "idle" => Len(offered') < MaxSessions
    <2>1. starts' = starts
      BY <1>3
    <2> HIDE DEF starts
    <2> QED BY <1>1, <1>3, <2>1
  <1>4. CASE Link \/ UNCHANGED vars
    <2>1. UNCHANGED <<active, main_pc, commands, configured_window, phase, tx_stale, offered>>
      BY <1>4, LinkLeavesBoards DEF vars
    <2> HIDE DEF starts
    <2> QED BY <1>1, <1>3, <2>1
  <1>5. CASE ReceiverSteps
    <2>1. UNCHANGED <<main_pc, commands, configured_window, phase, tx_stale, offered>>
      BY <1>1, <1>5, ReceiverLeavesSender
    <2>2. active' \in [Boards -> BOOLEAN] /\ active'["sender"] = active["sender"]
      BY <1>1, <1>5, ReceiverLeavesSender
    <2> HIDE DEF starts
    <2> QED BY <1>3, <2>1, <2>2
  <1>6. CASE SenderSilence
    <2>1. starts' = starts
      BY <1>6 DEF SenderSilence
    <2> HIDE DEF starts
    <2> QED BY <1>1, <1>6, <2>1 DEF SenderSilence
  <1>7. CASE SenderReset
    <2>1. starts' = {} /\ commands' \in Seq(Commands)
      BY <1>7 DEF SenderReset, StartsIn
    <2> HIDE DEF starts
    <2> QED BY <1>1, <1>7, <2>1, RadioConstants DEF SenderReset
  <1>8. CASE StartClaim
    <2>1. starts' = starts
      BY <1>8 DEF StartClaim
    <2> HIDE DEF starts
    <2> QED BY <1>1, <1>8, <2>1 DEF StartClaim
  <1>9. CASE StartEnqueue
    <2>1. CASE commands' = Append(commands, [kind |-> "start"]) /\ UNCHANGED active
      <3> DEFINE c == [kind |-> "start"]
      <3>1. c \in Commands /\ c.kind = "start"
        BY CommandsMade
      <3>2. commands' \in Seq(Commands) /\ starts' = starts \cup {Len(commands) + 1}
        <4> HIDE DEF c
        <4> QED BY <1>1, <2>1, <3>1, StartsAppend DEF c
      <3> HIDE DEF starts
      <3> QED BY <1>1, <1>9, <2>1, <3>2 DEF StartEnqueue
    <2>2. CASE active' = [active EXCEPT !["sender"] = FALSE] /\ UNCHANGED commands
      <3>1. starts' = starts
        BY <2>2
      <3> HIDE DEF starts
      <3> QED BY <1>1, <1>9, <2>2, <3>1 DEF StartEnqueue
    <2> QED BY <1>9, <2>1, <2>2 DEF StartEnqueue
  <1>10. CASE \E n \in Windows : WindowCommand(n)
    <2> PICK n \in Windows : WindowCommand(n)
      BY <1>10
    <2> DEFINE c == [kind |-> "window", value |-> n]
    <2>1. c \in Commands /\ c.kind # "start"
      BY CommandsMade
    <2>2. commands' \in Seq(Commands) /\ starts' = starts
      <3>1. commands' = Append(commands, c)
        BY DEF WindowCommand
      <3> HIDE DEF c
      <3> QED BY <1>1, <2>1, <3>1, StartsAppend
    <2> HIDE DEF starts
    <2> QED BY <1>1, <2>2 DEF WindowCommand
  <1>11. CASE Configure
    <2>1. commands # <<>> /\ Head(commands).kind = "window" /\ commands' = Tail(commands)
      BY <1>11 DEF Configure
    <2>2. \A i, j \in starts : i = j
      BY <1>1
    <2>3. /\ commands' \in Seq(Commands) /\ Head(commands) \in Commands
          /\ starts' = {} <=> starts = {}
          /\ \A i, j \in starts' : i = j
      <3> HIDE DEF starts
      <3> QED BY <1>1, <2>1, <2>2, OneStartTaken DEF starts
    <2>4. configured_window' \in Nat
      BY <1>1, <1>11, <2>1, <2>3, CommandsMade DEF Configure
    <2> HIDE DEF starts
    <2> QED BY <1>1, <1>11, <2>3, <2>4 DEF Configure
  <1>12. ASSUME commands # <<>>, Head(commands).kind = "start", commands' = Tail(commands)
         PROVE  /\ commands' \in Seq(Commands) /\ starts # {} /\ starts' = {}
    <2>1. \A i, j \in starts : i = j
      BY <1>1
    <2> HIDE DEF starts
    <2> QED BY <1>1, <1>12, <2>1, OneStartTaken DEF starts
  <1>13. CASE BeginSendFails
    <2>1. commands' \in Seq(Commands) /\ starts # {} /\ starts' = {}
      BY <1>12, <1>13 DEF BeginSendFails
    <2> HIDE DEF starts
    <2> QED BY <1>1, <1>13, <2>1 DEF BeginSendFails, StopSender
  <1>14. CASE \E clip \in Clips : BeginSend(clip)
    <2> PICK clip \in Clips : BeginSend(clip)
      BY <1>14
    <2>1. commands' \in Seq(Commands) /\ starts # {} /\ starts' = {}
      BY <1>12 DEF BeginSend
    <2> HIDE DEF starts
    <2> QED BY <1>1, <2>1 DEF BeginSend
  <1>15. CASE ReplyError \/ ReplyFinished \/ SenderTimeout
    <2>1. starts' = starts /\ phase # "idle"
      BY <1>15 DEF ReplyError, ReplyFinished, SenderTimeout, Answers
    <2> HIDE DEF starts
    <2> QED BY <1>1, <1>15, <2>1 DEF ReplyError, ReplyFinished, SenderTimeout, StopSender
  <1>16. CASE ReplyBegun \/ ReplyData
    <2>1. starts' = starts /\ phase # "idle"
      BY <1>16 DEF ReplyBegun, ReplyData, Answers
    <2> HIDE DEF starts
    <2> QED BY <1>1, <1>16, <2>1 DEF ReplyBegun, ReplyData
  <1>17. CASE ReplyIgnored \/ SendControl \/ \E elapsed, accepted \in BOOLEAN :
                                                SendData(elapsed, accepted)
    <2>1. UNCHANGED <<active, main_pc, commands, configured_window, phase, tx_stale, offered>>
      BY <1>17 DEF ReplyIgnored, SendControl, SendData
    <2> HIDE DEF starts
    <2> QED BY <1>1, <1>3, <2>1
  <1> HIDE DEF starts, claims
  <1> QED BY <1>4, <1>5, <1>6, <1>7, <1>8, <1>9, <1>10, <1>11, <1>13, <1>14, <1>15, <1>16,
             <1>17, WhoSteps DEF SenderSteps, SenderMain, SenderWorker

-----------------------------------------------------------------------------
(* The receiver's worker and its main loop.                                 *)

LEMMA HandshakeUntouched ==
    ASSUME Handshake,
           rx_pc' = rx_pc, rx_active' = rx_active, rx_verified' = rx_verified,
           rx_stale' = rx_stale, player_request' = player_request,
           lifecycle_done' = lifecycle_done, active'["receiver"] = active["receiver"]
    PROVE  Handshake'
  <1> USE DEF Handshake, Waiting
  <1>1. /\ (rx_active \in BOOLEAN)' /\ (rx_verified \in BOOLEAN)' /\ (rx_stale \in BOOLEAN)'
        /\ (rx_stale => Timeouts)'
    BY Zenon
  <1>2. (rx_pc # "run" => ~rx_active /\ ~rx_verified)' /\ (~(rx_active /\ rx_verified))'
    BY Zenon
  <1>3. /\ (rx_pc = "run" => (active["receiver"] <=> rx_active))'
        /\ (rx_pc = "begin" => active["receiver"])' /\ (rx_pc = "tick" => ~active["receiver"])'
    BY Zenon
  <1>4. /\ (rx_pc \in {"run", "begin", "clear", "tick_clear", "tick"})'
        /\ (player_request \in {"idle", "begin", "clear"})'
        /\ (lifecycle_done \in {"empty", "done", "failed"})'
        /\ (Waiting <=> player_request # "idle" \/ lifecycle_done # "empty")'
        /\ (player_request = "idle" \/ lifecycle_done = "empty")'
        /\ (player_request = "begin" => rx_pc = "begin")'
        /\ (player_request = "clear" => rx_pc # "begin")'
        /\ (lifecycle_done = "failed" => rx_pc = "begin")'
        /\ (lifecycle_done = "failed" => FALSE \in Allocations)'
    OBVIOUS
  <1> QED BY <1>1, <1>2, <1>3, <1>4 DEF Handshake, Waiting

LEMMA HandshakeKept ==
    ASSUME Handshake, active \in [Boards -> BOOLEAN], [Next]_vars
    PROVE  Handshake'
  <1> USE DEF Boards, Handshake, Waiting
  <1>1. CASE Link \/ UNCHANGED vars
    <2>1. UNCHANGED <<active, receiverVars, lifecycleVars>>
      BY <1>1, LinkLeavesBoards DEF vars
    <2> QED BY <2>1, HandshakeUntouched DEF receiverVars, lifecycleVars
  <1>2. CASE SenderSteps
    <2>1. UNCHANGED <<receiverVars, lifecycleVars>> /\ active'["receiver"] = active["receiver"]
      BY <1>2, SenderLeavesReceiver
    <2> QED BY <2>1, HandshakeUntouched DEF receiverVars, lifecycleVars
  <1>3. CASE MainLoopClear \/ \E allocated \in Allocations : MainLoopBegin(allocated)
    <2>1. UNCHANGED <<active, rx_pc, rx_active, rx_verified, rx_stale>> /\ player_request' = "idle"
      BY <1>3 DEF MainLoopClear, MainLoopBegin, receiverVars
    <2>2. CASE MainLoopClear
      <3>1. rx_pc \in {"clear", "tick_clear"} /\ lifecycle_done' = "done"
        BY <2>2 DEF MainLoopClear
      <3> QED BY <2>1, <3>1
    <2>3. CASE \E allocated \in Allocations : MainLoopBegin(allocated)
      <3>1. rx_pc = "begin"
        BY <2>3 DEF MainLoopBegin
      <3>2. \/ lifecycle_done' = "done"
            \/ lifecycle_done' = "failed" /\ FALSE \in Allocations
        BY <2>3, RadioConstants DEF MainLoopBegin
      <3> QED BY <2>1, <3>1, <3>2
    <2> QED BY <1>3, <2>2, <2>3
  <1>4. CASE BeginAnswered
    <2>1. rx_pc = "begin" /\ lifecycle_done' = "empty" /\ UNCHANGED active
      BY <1>4 DEF BeginAnswered
    <2>2. CASE lifecycle_done = "done"
      <3>1. /\ rx_active' = TRUE /\ rx_stale' = FALSE /\ rx_pc' = "run"
            /\ UNCHANGED <<player_request, rx_verified>>
        BY <1>4, <2>2 DEF BeginAnswered
      <3> QED BY <2>1, <2>2, <3>1
    <2>3. CASE lifecycle_done # "done"
      <3>1. /\ rx_active' = FALSE /\ rx_verified' = FALSE /\ rx_stale' = FALSE
            /\ player_request' = "clear" /\ rx_pc' = "clear"
        BY <1>4, <2>3 DEF BeginAnswered
      <3> QED BY <2>1, <3>1
    <2> QED BY <2>2, <2>3
  <1>5. CASE RejectAnswered
    BY <1>5 DEF RejectAnswered
  <1>6. CASE BeginNew
    BY <1>6 DEF BeginNew, CallMainLoop, Requests
  <1>7. CASE DataElsewhere \/ FinishAgain \/ RequestIgnored
    BY <1>7, HandshakeUntouched DEF DataElsewhere, FinishAgain, RequestIgnored, HandshakeIdle,
                lifecycleVars, receiverVars
  <1>8. CASE BeginAgain
    BY <1>8 DEF BeginAgain, HandshakeIdle, lifecycleVars
  <1>9. CASE DataAppended
    BY <1>9 DEF DataAppended, HandshakeIdle, lifecycleVars
  <1>10. CASE DataRejected
    BY <1>10 DEF DataRejected, Reject, CallMainLoop, Requests
  <1>11. CASE FinishFirst
    <2>1. CASE FinishMatches /\ ClipFinishes
      BY <1>11, <2>1 DEF FinishFirst, Requests, HandshakeIdle, lifecycleVars
    <2>2. CASE ~(FinishMatches /\ ClipFinishes)
      BY <1>11, <2>2 DEF FinishFirst, Reject, CallMainLoop, Requests
    <2> QED BY <2>1, <2>2
  <1>12. CASE ReceiverTimeout
    BY <1>12 DEF ReceiverTimeout, Reject, CallMainLoop
  <1>13. CASE \E elapsed, accepted \in BOOLEAN : ReceiverTick(elapsed, accepted)
    <2>1. /\ rx_pc \in {"run", "tick"} /\ rx_pc' = "run"
          /\ UNCHANGED <<active, rx_active, rx_verified, rx_stale, player_request,
                         lifecycle_done>>
      BY <1>13 DEF ReceiverTick, HandshakeIdle, lifecycleVars
    <2>2. CASE rx_pc = "run"
      BY <2>1, <2>2, HandshakeUntouched
    <2>3. CASE rx_pc = "tick"
      BY <2>1, <2>3
    <2> QED BY <2>1, <2>2, <2>3
  <1>14. CASE ReceiverSilence
    BY <1>14, RadioConstants DEF ReceiverSilence, HandshakeIdle, lifecycleVars
  <1>15. CASE ReceiverReset
    BY <1>15 DEF ReceiverReset
  <1> QED BY <1>1, <1>2, <1>3, <1>4, <1>5, <1>6, <1>7, <1>8, <1>9, <1>10, <1>11, <1>12,
             <1>13, <1>14, <1>15, WhoSteps DEF ReceiverSteps, ReceiverMain, ReceiverWorker

-----------------------------------------------------------------------------
(* Packets: what they carry stays true while they wait.                     *)

LEMMA ClipFields ==
    /\ \A clip \in Clips : /\ StreamType(Stream[clip]) /\ Size[clip] = Stream[clip].size
                           /\ Size[clip] \in Nat /\ Size[clip] >= HeaderSize /\ Size[clip] > 0
    /\ NoClip \notin Clips
  <1> SUFFICES ASSUME NEW clip \in Clips
               PROVE  /\ StreamType(Stream[clip]) /\ Size[clip] = Stream[clip].size
                      /\ Size[clip] \in Nat /\ Size[clip] >= HeaderSize /\ Size[clip] > 0
    BY RadioConstants
  <1>1. StreamType(Stream[clip]) /\ Stream[clip].size >= HeaderSize
    BY RadioConstants
  <1>2. Size[clip] = Stream[clip].size
    BY DEF Size
  <1>3. Stream[clip].size \in Nat
    BY <1>1, StreamFields
  <1>4. HeaderSize \in Nat /\ HeaderSize > 0
    BY SizesUsed
  <1> QED BY <1>1, <1>2, <1>3, <1>4

LEMMA SeqWidens ==
    ASSUME NEW S, NEW T, S \subseteq T, NEW q \in Seq(S)
    PROVE  q \in Seq(T)
  <1>1. /\ q = [i \in 1..Len(q) |-> q[i]] /\ Len(q) \in Nat
        /\ \A i \in 1..Len(q) : q[i] \in T
    BY ElementOfSeq, SeqDef
  <1> QED BY <1>1, IsASeq

LEMMA QueueMoves ==
    ASSUME NEW S, NEW q \in Seq(S)
    PROVE  /\ q # <<>> => Head(q) \in S /\ Tail(q) \in Seq(S)
           /\ \A p \in S : Append(q, p) \in Seq(S) /\ Enqueued(q, p) \in Seq(S)
           /\ <<>> \in Seq(S)
  <1>1. q # <<>> => Head(q) \in S /\ Tail(q) \in Seq(S)
    BY HeadTailProperties, EmptySeq
  <1>2. \A p \in S : Append(q, p) \in Seq(S)
    BY AppendProperties
  <1> QED BY <1>1, <1>2, EmptySeq DEF Enqueued

LEMMA BytesFields ==
    ASSUME NEW clip \in Clips, NEW offset \in Nat, NEW length \in Nat
    PROVE  /\ Bytes(clip, offset, length) \in Seq(Clips \X Nat)
           /\ Len(Bytes(clip, offset, length)) = length
           /\ \A i \in 1..length : Bytes(clip, offset, length)[i] = <<clip, offset + i - 1>>
  <1> DEFINE b == Bytes(clip, offset, length)
  <1>1. b = [i \in 1..length |-> <<clip, offset + i - 1>>]
    BY DEF Bytes
  <1>2. \A i \in 1..length : <<clip, offset + i - 1>> \in Clips \X Nat
    OBVIOUS
  <1>3. b \in [1..length -> Clips \X Nat]
    BY <1>1, <1>2
  <1>4. b \in Seq(Clips \X Nat)
    BY <1>3, SeqDef
  <1>5. Len(b) = length
    BY <1>1, <1>4, LenProperties
  <1> QED BY <1>1, <1>4, <1>5

\* What an offer, a packet stored and a clip verified leave as it was.
Grown ==
    /\ Len(offered) \in Nat /\ Len(offered)' \in Nat /\ Len(offered) <= Len(offered)'
    /\ \A s \in 1..Len(offered) : offered'[s] = offered[s] /\ offered[s] \in Clips
    /\ \A s \in Sessions : stored[s] \in Nat /\ stored'[s] \in Nat /\ stored[s] <= stored'[s]
    /\ verified \subseteq verified'

LEMMA PacketsStay ==
    ASSUME Grown, History'
    PROVE  Askeds \subseteq Askeds' /\ Givens \subseteq Givens'
  <1>1. ASSUME NEW p \in Requested, Asked(p) PROVE Asked(p)'
    <2>1. p.session \in Sessions /\ p.session \in Nat /\ p.session > 0
      <3>1. MaxSessions \in Nat
        BY RadioConstants
      <3> QED BY <3>1 DEF Requested, Sessions
    <2>2. p.session <= Len(offered) /\ p.session <= Len(offered')
          /\ offered'[p.session] = offered[p.session] /\ offered[p.session] \in Clips
      BY <1>1, <2>1 DEF Asked, Grown
    <2>3. ASSUME p.kind = "finish" PROVE stored'[p.session] = p.offset
      <3>1. p.offset = Size[p.crc] /\ stored[p.session] = p.offset /\ p.crc = offered[p.session]
        BY <1>1, <2>3 DEF Asked
      <3>2. stored'[p.session] <= Size[offered'[p.session]]
        BY <2>1, <2>2 DEF History
      <3>3. stored[p.session] <= stored'[p.session] /\ stored'[p.session] \in Nat
            /\ stored[p.session] \in Nat
        BY <2>1 DEF Grown
      <3>4. stored'[p.session] <= p.offset /\ p.offset <= stored'[p.session] /\ p.offset \in Nat
        BY <2>2, <3>1, <3>2, <3>3
      <3> QED BY <3>3, <3>4
    <2> QED BY <1>1, <2>2, <2>3 DEF Asked
  <1>2. ASSUME NEW p \in Answered, Given(p) PROVE Given(p)'
    <2>1. p.session \in Sessions /\ p.session \in Nat /\ p.session > 0 /\ p.offset \in Nat
      <3>1. MaxSessions \in Nat
        BY RadioConstants
      <3> QED BY <3>1 DEF Answered, Sessions
    <2>2. p.session <= Len(offered')
      BY <1>2, <2>1 DEF Given, Grown
    <2>3. ASSUME p.kind = "data_ack" PROVE p.offset <= stored'[p.session]
      <3>1. p.offset <= stored[p.session]
        BY <1>2, <2>3 DEF Given
      <3>2. stored[p.session] <= stored'[p.session] /\ stored'[p.session] \in Nat
            /\ stored[p.session] \in Nat
        BY <2>1 DEF Grown
      <3> QED BY <2>1, <3>1, <3>2
    <2>4. p.kind = "finish_ack" => p.session \in verified'
      BY <1>2 DEF Given, Grown
    <2> QED BY <2>2, <2>3, <2>4 DEF Given
  <1>3. Askeds \subseteq Askeds'
    BY <1>1 DEF Askeds
  <1>4. Givens \subseteq Givens'
    BY <1>2 DEF Givens
  <1> QED BY <1>3, <1>4

LEMMA AskedFields ==
    ASSUME NEW p \in Askeds, History
    PROVE  /\ p.session \in Sessions /\ p.session \in 1..Len(offered) /\ p.offset \in Nat
           /\ offered[p.session] \in Clips
           /\ p.kind = "data" \/ p.kind = "begin" \/ p.kind = "finish"
           /\ p.kind = "data" =>
                 /\ Len(p.payload) \in Nat
                 /\ p.payload = Bytes(offered[p.session], p.offset, Len(p.payload))
                 /\ p.offset + Len(p.payload) <= Size[offered[p.session]]
           /\ p.kind # "data" => p.crc = offered[p.session] /\ p.offset = Size[p.crc]
           /\ p.kind = "finish" => stored[p.session] = p.offset
  <1>1. p \in Requested /\ Asked(p)
    BY DEF Askeds
  <1>2. MaxSessions \in Nat
    BY RadioConstants
  <1>3. p.session \in 1..MaxSessions /\ p.offset \in Nat
    BY <1>1 DEF Requested, Sessions
  <1>4. p.session \in 1..Len(offered) /\ offered \in Seq(Clips) /\ Len(offered) \in Nat
    BY <1>1, <1>2, <1>3, LenProperties DEF Asked, History
  <1>5. offered[p.session] \in Clips
    BY <1>4, ElementOfSeq
  <1>6. p.kind = "data" \/ p.kind = "begin" \/ p.kind = "finish"
    BY <1>1 DEF Requested
  <1>7. ASSUME p.kind = "data" PROVE Len(p.payload) \in Nat
    <2>1. p.payload \in Seq(Clips \X Nat)
      BY <1>1, <1>7 DEF Requested
    <2> QED BY <2>1, LenProperties
  <1> QED BY <1>1, <1>3, <1>4, <1>5, <1>6, <1>7 DEF Asked, Sessions

LEMMA GivenFields ==
    ASSUME NEW p \in Givens
    PROVE  /\ p.session \in Sessions /\ p.session <= Len(offered) /\ p.offset \in Nat
           /\ p.kind = "data_ack" => p.offset <= stored[p.session]
           /\ p.kind = "finish_ack" => p.session \in verified
  BY DEF Givens, Given, Answered

-----------------------------------------------------------------------------
(* What was offered, stored, verified and reported.                         *)

LEMMA HistoryFields ==
    ASSUME History
    PROVE  /\ offered \in Seq(Clips) /\ Len(offered) \in Nat /\ Len(offered) <= MaxSessions
           /\ MaxSessions \in Nat /\ stored \in [Sessions -> Nat]
           /\ \A s \in 1..Len(offered) : s \in Sessions /\ offered[s] \in Clips
  <1>1. offered \in Seq(Clips) /\ Len(offered) \in Nat /\ Len(offered) <= MaxSessions
    BY LenProperties DEF History
  <1>2. MaxSessions \in Nat
    BY RadioConstants
  <1>3. \A s \in 1..Len(offered) : offered[s] \in Clips
    BY <1>1, ElementOfSeq
  <1> QED BY <1>1, <1>2, <1>3 DEF History, Sessions

LEMMA HistoryUntouched ==
    ASSUME History, UNCHANGED <<offered, stored, verified, sent>>, resets' \in 0..MaxResets
    PROVE  Grown /\ History'
  <1>1. History'
    BY DEF History
  <1>2. Grown
    BY HistoryFields DEF Grown
  <1> QED BY <1>1, <1>2

LEMMA BeginSendHistory ==
    ASSUME IInv, NEW clip \in Clips, BeginSend(clip)
    PROVE  Grown /\ History' /\ stored[Len(offered) + 1] = 0 /\ Len(offered) + 1 \in Sessions
  <1>1. /\ offered \in Seq(Clips) /\ Len(offered) \in Nat /\ MaxSessions \in Nat
        /\ stored \in [Sessions -> Nat]
        /\ \A s \in 1..Len(offered) : s \in Sessions /\ offered[s] \in Clips
    BY HistoryFields DEF IInv
  <1>2. Len(offered) < MaxSessions
    <2>1. commands # <<>> /\ Head(commands).kind = "start"
      BY DEF BeginSend
    <2>2. StartsIn(commands) # {}
      <3>1. commands \in Seq(Commands) /\ \A i, j \in StartsIn(commands) : i = j
        BY BusyMeans DEF IInv
      <3> QED BY <2>1, <3>1, OneStartTaken
    <2> QED BY <2>2, BusyMeans DEF IInv
  <1>3. /\ offered' \in Seq(Clips) /\ Len(offered') = Len(offered) + 1
        /\ \A s \in 1..Len(offered) : offered'[s] = offered[s]
    <2>1. offered' = Append(offered, clip)
      BY DEF BeginSend
    <2> QED BY <1>1, <2>1, AppendProperties
  <1>4. UNCHANGED <<stored, verified, sent, resets>>
    BY DEF BeginSend
  <1>5. Len(offered) + 1 \in Sessions
    BY <1>1, <1>2 DEF Sessions
  <1>6. stored[Len(offered) + 1] = 0
    <2>1. \A s \in Sessions : s > Len(offered) => stored[s] = 0
      BY DEF IInv, History
    <2> QED BY <1>1, <1>5, <2>1
  <1>7. \A s \in 1..Len(offered') : stored'[s] <= Size[offered'[s]]
    <2> SUFFICES ASSUME NEW s \in 1..Len(offered') PROVE stored[s] <= Size[offered'[s]]
      BY <1>4
    <2>1. CASE s \in 1..Len(offered)
      BY <1>1, <1>3, <2>1 DEF IInv, History
    <2>2. CASE s = Len(offered) + 1
      <3>1. offered'[s] \in Clips
        BY <1>1, <1>3, ElementOfSeq
      <3> QED BY <1>6, <2>2, <3>1, ClipFields
    <2> QED BY <1>1, <1>3, <2>1, <2>2
  <1>8. \A s \in Sessions : s > Len(offered') => stored'[s] = 0
    <2>1. \A s \in Sessions : s > Len(offered) => stored[s] = 0
      BY DEF IInv, History
    <2> QED BY <1>1, <1>3, <1>4, <2>1 DEF Sessions
  <1>9. verified \subseteq 1..Len(offered') /\ sent \subseteq verified
        /\ \A s \in verified : stored[s] = Size[offered'[s]]
    <2>1. verified \subseteq 1..Len(offered) /\ sent \subseteq verified
          /\ \A s \in verified : stored[s] = Size[offered[s]]
      BY DEF IInv, History
    <2>2. \A s \in verified : offered'[s] = offered[s]
      BY <1>3, <2>1
    <2> QED BY <1>1, <1>3, <2>1, <2>2
  <1>10. Len(offered') <= MaxSessions /\ resets \in 0..MaxResets
    BY <1>1, <1>2, <1>3 DEF IInv, History
  <1>11. Grown
    BY <1>1, <1>3, <1>4 DEF Grown
  <1>12. History'
    BY <1>1, <1>3, <1>4, <1>7, <1>8, <1>9, <1>10 DEF History, Sessions
  <1> QED BY <1>5, <1>6, <1>11, <1>12

LEMMA RequestTaken ==
    ASSUME IInv, queue["receiver"] # <<>>
    PROVE  Request \in Askeds
  BY QueueMoves DEF IInv, PacketsInStep, Request

LEMMA AnswerTaken ==
    ASSUME IInv, queue["sender"] # <<>>
    PROVE  Answer \in Givens
  BY QueueMoves DEF IInv, PacketsInStep, Answer

\* What the receiver knows of the session it holds.
LEMMA HeldFields ==
    ASSUME History, ReceiverInStep, rx_session > 0
    PROVE  /\ rx_session \in 1..Len(offered) /\ rx_session \in Sessions /\ rx_crc \in Clips
           /\ rx_crc = offered[rx_session] /\ rx_size = Size[rx_crc] /\ rx_size \in Nat
           /\ rx_offset \in Nat /\ rx_offset <= stored[rx_session] /\ rx_offset <= rx_size
           /\ stored[rx_session] \in Nat /\ stored[rx_session] <= rx_size
  <1>1. rx_session \in 1..Len(offered)
    BY HistoryFields DEF ReceiverInStep
  <1>2. rx_session \in Sessions /\ offered[rx_session] \in Clips
    BY <1>1, HistoryFields
  <1>3. rx_crc = offered[rx_session] /\ rx_size = Size[rx_crc] /\ rx_offset <= stored[rx_session]
        /\ rx_offset \in Nat
    BY DEF ReceiverInStep
  <1>4. stored[rx_session] \in Nat /\ stored[rx_session] <= Size[offered[rx_session]]
    BY <1>1, <1>2, HistoryFields DEF History
  <1>5. Size[rx_crc] \in Nat
    BY <1>2, <1>3, ClipFields
  <1> QED BY <1>1, <1>2, <1>3, <1>4, <1>5

\* The data packet the receiver takes next.
LEMMA NextDataFields ==
    ASSUME IInv, Requests("data"), Current, WellPlaced(Request), Request.offset = rx_offset
    PROVE  /\ rx_session \in 1..Len(offered) /\ rx_session \in Sessions /\ rx_crc \in Clips
           /\ rx_crc = offered[rx_session] /\ rx_size = Size[rx_crc]
           /\ Len(Request.payload) \in Nat /\ Len(Request.payload) > 0
           /\ Request.payload = Bytes(rx_crc, rx_offset, Len(Request.payload))
           /\ rx_offset \in Nat /\ rx_offset + Len(Request.payload) <= rx_size
  <1>1. /\ Request.session \in 1..Len(offered) /\ Len(Request.payload) \in Nat
        /\ Request.payload = Bytes(offered[Request.session], Request.offset, Len(Request.payload))
        /\ Request.offset + Len(Request.payload) <= Size[offered[Request.session]]
    BY RequestTaken, AskedFields DEF Requests, IInv
  <1>2. Request.session = rx_session
    BY DEF Current
  <1>3. rx_session > 0
    BY <1>1, <1>2
  <1>4. /\ rx_session \in 1..Len(offered) /\ rx_session \in Sessions /\ rx_crc \in Clips
        /\ rx_crc = offered[rx_session] /\ rx_size = Size[rx_crc] /\ rx_offset \in Nat
    BY <1>3, HeldFields DEF IInv
  <1>5. Len(Request.payload) > 0
    <2>1. Request.payload # <<>>
      BY DEF WellPlaced
    <2>2. Request.payload \in Seq(Clips \X Nat)
      <3>1. /\ offered[Request.session] \in Clips /\ Request.offset \in Nat
        BY <1>2, <1>4
      <3>2. Bytes(offered[Request.session], Request.offset, Len(Request.payload))
              \in Seq(Clips \X Nat)
        BY <1>1, <3>1, BytesFields
      <3> QED BY <1>1, <3>2
    <2> QED BY <1>1, <2>1, <2>2, EmptySeq, LenProperties
  <1> QED BY <1>1, <1>2, <1>4, <1>5

LEMMA AppendedHistory ==
    ASSUME IInv, DataAppended
    PROVE  /\ Grown /\ History' /\ rx_offset' \in Nat /\ rx_offset' <= stored'[rx_session]
           /\ rx_offset' <= rx_size
  <1> DEFINE n == rx_offset + Len(Request.payload)
  <1>1. /\ rx_session \in 1..Len(offered) /\ rx_session \in Sessions
        /\ rx_size = Size[offered[rx_session]] /\ n \in Nat /\ n <= rx_size
    BY NextDataFields DEF DataAppended
  <1>2. /\ rx_offset' = n /\ stored' = [stored EXCEPT ![rx_session] = Larger(@, n)]
        /\ UNCHANGED <<offered, verified, sent, resets>>
    BY DEF DataAppended
  <1> HIDE DEF n
  <1>3. /\ offered \in Seq(Clips) /\ Len(offered) \in Nat /\ stored \in [Sessions -> Nat]
        /\ \A s \in 1..Len(offered) : s \in Sessions /\ offered[s] \in Clips
    BY HistoryFields DEF IInv
  <1>4. stored[rx_session] \in Nat
    BY <1>1, <1>3
  <1>5. /\ Larger(stored[rx_session], n) \in Nat /\ n <= Larger(stored[rx_session], n)
        /\ stored[rx_session] <= Larger(stored[rx_session], n)
    BY <1>1, <1>4 DEF Larger
  <1>6. stored' \in [Sessions -> Nat] /\ stored'[rx_session] = Larger(stored[rx_session], n)
        /\ \A s \in Sessions : s # rx_session => stored'[s] = stored[s]
    BY <1>1, <1>2, <1>3, <1>5
  <1>7. stored[rx_session] <= rx_size
    BY <1>1 DEF IInv, History
  <1>8. Larger(stored[rx_session], n) <= rx_size
    BY <1>1, <1>4, <1>7 DEF Larger
  <1>9. Grown
    BY <1>2, <1>3, <1>5, <1>6 DEF Grown
  <1>10. \A s \in 1..Len(offered) : stored'[s] <= Size[offered[s]]
    <2>1. \A s \in 1..Len(offered) : stored[s] <= Size[offered[s]]
      BY DEF IInv, History
    <2> QED BY <1>1, <1>3, <1>6, <1>8, <2>1
  <1>11. \A s \in Sessions : s > Len(offered) => stored'[s] = 0
    <2>1. \A s \in Sessions : s > Len(offered) => stored[s] = 0
      BY DEF IInv, History
    <2>2. \A s \in Sessions : s > Len(offered) => s # rx_session
      BY <1>1, <1>3
    <2> QED BY <1>6, <2>1, <2>2
  <1>12. \A s \in verified : stored'[s] = Size[offered[s]]
    <2> SUFFICES ASSUME NEW s \in verified PROVE stored'[s] = Size[offered[s]]
      OBVIOUS
    <2>1. stored[s] = Size[offered[s]] /\ s \in 1..Len(offered) /\ s \in Sessions
      BY <1>3 DEF IInv, History
    <2>2. CASE s = rx_session
      BY <1>1, <1>4, <1>5, <1>6, <1>8, <2>1, <2>2
    <2>3. CASE s # rx_session
      BY <1>6, <2>1, <2>3
    <2> QED BY <2>2, <2>3
  <1>13. History'
    BY <1>2, <1>3, <1>6, <1>10, <1>11, <1>12 DEF IInv, History
  <1> QED BY <1>1, <1>2, <1>5, <1>6, <1>9, <1>13

\* A session is verified only with everything of it stored.
LEMMA FinishedHistory ==
    ASSUME IInv, FinishFirst
    PROVE  /\ Grown /\ History'
           /\ FinishMatches /\ ClipFinishes =>
                 /\ rx_session \in Sessions /\ rx_session > 0 /\ rx_session \in verified'
                 /\ stored[rx_session] = Size[offered[rx_session]] /\ rx_offset = rx_size
  <1> USE DEF IInv
  <1>1. /\ rx_session \in 1..Len(offered) /\ rx_session \in Sessions
        /\ rx_size = Size[offered[rx_session]] /\ rx_size \in Nat /\ rx_offset \in Nat
        /\ rx_offset <= stored[rx_session] /\ stored[rx_session] \in Nat
        /\ stored[rx_session] <= rx_size
    <2>1. rx_session > 0
      BY DEF FinishFirst, Current, ReceiverInStep
    <2> QED BY <2>1, HeldFields
  <1>2. UNCHANGED <<offered, stored, sent, resets>>
    BY DEF FinishFirst
  <1>3. CASE FinishMatches /\ ClipFinishes
    <2>1. verified' = verified \cup {rx_session} /\ rx_offset = rx_size
      BY <1>3 DEF FinishFirst, FinishMatches
    <2>2. stored[rx_session] = Size[offered[rx_session]]
      BY <1>1, <2>1
    <2>3. Grown
      BY <1>2, <2>1, HistoryFields DEF Grown
    <2>4. /\ verified' \subseteq 1..Len(offered) /\ sent \subseteq verified'
          /\ \A s \in verified' : stored[s] = Size[offered[s]]
      BY <1>1, <2>1, <2>2 DEF History
    <2>5. History'
      BY <1>2, <2>4 DEF History
    <2>6. rx_session > 0
      BY <1>1
    <2> QED BY <1>1, <2>1, <2>2, <2>3, <2>5, <2>6
  <1>4. CASE ~(FinishMatches /\ ClipFinishes)
    <2>1. UNCHANGED verified
      BY <1>4 DEF FinishFirst
    <2>2. resets' \in 0..MaxResets
      BY <1>2 DEF History
    <2> QED BY <1>2, <1>4, <2>1, <2>2, HistoryUntouched
  <1> QED BY <1>3, <1>4

LEMMA HistoryKept ==
    ASSUME IInv, [Next]_vars
    PROVE  Grown /\ History'
  <1>1. resets \in 0..MaxResets /\ active \in [Boards -> BOOLEAN] /\ MaxResets \in Nat
    BY RadioConstants DEF IInv, History, SenderBusy
  <1>2. CASE UNCHANGED historyVars
    BY <1>1, <1>2, HistoryUntouched DEF historyVars, IInv
  <1>3. CASE Link \/ UNCHANGED vars
    BY <1>2, <1>3, LinkLeavesBoards DEF vars
  <1>4. CASE SenderMain \/ Silence \/ ReceiverMain
    BY <1>2, <1>4 DEF SenderMain, StartClaim, StartEnqueue, WindowCommand, Silence,
                      SenderSilence, ReceiverSilence, ReceiverMain, MainLoopClear,
                      MainLoopBegin, historyVars
  <1>5. CASE Reset
    <2>1. UNCHANGED <<offered, stored, verified, sent>> /\ resets' = resets + 1
          /\ resets < MaxResets
      BY <1>5 DEF Reset, SenderReset, ReceiverReset
    <2>2. resets' \in 0..MaxResets
      BY <1>1, <2>1
    <2> QED BY <2>1, <2>2, HistoryUntouched DEF IInv
  <1>6. CASE Configure \/ BeginSendFails \/ ReplyError \/ ReplyBegun \/ ReplyData \/ ReplyIgnored
             \/ SenderTimeout \/ SendControl
             \/ \E elapsed, accepted \in BOOLEAN : SendData(elapsed, accepted)
    BY <1>2, <1>6 DEF Configure, BeginSendFails, ReplyError, ReplyBegun, ReplyData,
                      ReplyIgnored, SenderTimeout, SendControl, SendData
  <1>7. CASE \E clip \in Clips : BeginSend(clip)
    BY <1>7, BeginSendHistory
  <1>8. CASE ReplyFinished
    <2>1. Answer.session \in verified /\ Answer.session = session
      BY <1>8, AnswerTaken, GivenFields DEF ReplyFinished, Answers
    <2>2. UNCHANGED <<offered, stored, verified, resets>> /\ sent' = sent \cup {session}
      BY <1>8 DEF ReplyFinished
    <2>3. Grown
      BY <2>2, HistoryFields DEF Grown, IInv
    <2>4. History'
      BY <2>1, <2>2 DEF IInv, History
    <2> QED BY <2>3, <2>4
  <1>9. CASE BeginAnswered \/ RejectAnswered \/ BeginAgain \/ BeginNew \/ DataElsewhere
             \/ DataRejected \/ FinishAgain \/ RequestIgnored \/ ReceiverTimeout
             \/ \E elapsed, accepted \in BOOLEAN : ReceiverTick(elapsed, accepted)
    BY <1>2, <1>9 DEF BeginAnswered, RejectAnswered, BeginAgain, BeginNew, DataElsewhere,
                      DataRejected, FinishAgain, RequestIgnored, ReceiverTimeout, ReceiverTick
  <1>10. CASE DataAppended
    BY <1>10, AppendedHistory
  <1>11. CASE FinishFirst
    BY <1>11, FinishedHistory
  <1> QED BY <1>3, <1>4, <1>5, <1>6, <1>7, <1>8, <1>9, <1>10, <1>11
          DEF Next, SenderWorker, ReceiverWorker

-----------------------------------------------------------------------------
(* The sender.                                                              *)

LEMMA SenderUntouched ==
    ASSUME History, SenderInStep, Grown, UNCHANGED senderVars,
           phase # "idle" => Len(offered)' = Len(offered)
    PROVE  SenderInStep'
  <1>1. UNCHANGED <<phase, session, source, window>>
    BY DEF senderVars
  <1>2. session \in 0..Len(offered)' /\ session \in Nat
    BY DEF SenderInStep, Grown
  <1>3. ASSUME phase # "idle"
        PROVE  /\ session = Len(offered)' /\ source = offered'[session]
               /\ window.acknowledged <= stored'[session]
    <2>1. /\ session = Len(offered) /\ session > 0 /\ source = offered[session]
          /\ window.acknowledged <= stored[session] /\ window.acknowledged \in Nat
      BY <1>3 DEF SenderInStep, WindowOK, WindowType
    <2>2. session \in 1..Len(offered)
      BY <2>1 DEF Grown
    <2>3. source = offered'[session] /\ session = Len(offered)'
      BY <1>3, <2>1, <2>2 DEF Grown
    <2>4. stored[session] <= stored'[session] /\ stored[session] \in Nat /\ stored'[session] \in Nat
      BY <2>2, HistoryFields DEF Grown
    <2> QED BY <2>1, <2>3, <2>4
  <1> QED BY <1>1, <1>2, <1>3 DEF SenderInStep

\* What the sender knows of the transfer it is in.
LEMMA SendingFields ==
    ASSUME IInv, phase # "idle"
    PROVE  /\ session = Len(offered) /\ session > 0 /\ session \in Sessions
           /\ session \in 1..Len(offered) /\ source = offered[session] /\ source \in Clips
           /\ window.total = Size[source] /\ window.acknowledged <= stored[session]
           /\ window.total \in Nat /\ window.acknowledged \in Nat /\ window.next \in Nat
           /\ window.high_water \in Nat /\ window.acknowledged <= window.next
           /\ window.next <= window.high_water /\ window.high_water <= window.total
           /\ WindowOK(window) /\ stored[session] \in Nat /\ stored[session] <= Size[source]
           /\ phase = "finish" => window.acknowledged = window.total
  <1> USE DEF IInv
  <1>1. /\ session = Len(offered) /\ session > 0 /\ source = offered[session]
        /\ window.total = Size[source] /\ window.acknowledged <= stored[session]
        /\ WindowOK(window)
        /\ phase = "finish" => window.acknowledged = window.total
    BY DEF SenderInStep
  <1>2. session \in 1..Len(offered) /\ session \in Sessions /\ source \in Clips
        /\ stored[session] \in Nat
    BY <1>1, HistoryFields
  <1>3. stored[session] <= Size[source]
    BY <1>1, <1>2 DEF History
  <1>4. /\ window.total \in Nat /\ window.acknowledged \in Nat /\ window.next \in Nat
        /\ window.high_water \in Nat /\ window.acknowledged <= window.next
        /\ window.next <= window.high_water /\ window.high_water <= window.total
    BY <1>1 DEF WindowOK, WindowType, WindowOrdered
  <1> QED BY <1>1, <1>2, <1>3, <1>4

LEMMA TickWindowOK ==
    ASSUME WindowOK(window), NEW elapsed \in BOOLEAN
    PROVE  /\ WindowOK(TickWindow(elapsed))
           /\ TickWindow(elapsed).total = window.total
           /\ TickWindow(elapsed).acknowledged = window.acknowledged
  BY RetriedOK DEF TickWindow

LEMMA SenderInStepKept ==
    ASSUME IInv, [Next]_vars, Grown, History'
    PROVE  SenderInStep'
  <1>1. /\ active \in [Boards -> BOOLEAN] /\ Len(offered) \in Nat
        /\ session \in 0..Len(offered) /\ source \in Clips \cup {NoClip} /\ WindowOK(window)
    BY HistoryFields DEF IInv, SenderBusy, SenderInStep
  <1>2. CASE UNCHANGED <<senderVars, offered>>
    <2>1. Len(offered)' = Len(offered)
      BY <1>2
    <2> QED BY <1>2, <2>1, SenderUntouched DEF IInv
  <1>3. CASE Link \/ UNCHANGED vars
    <2>1. UNCHANGED <<senderVars, historyVars>>
      BY <1>3, LinkLeavesBoards DEF vars
    <2> QED BY <1>2, <2>1 DEF historyVars
  <1>4. CASE ReceiverSteps
    BY <1>1, <1>2, <1>4, ReceiverLeavesSender
  <1>5. CASE SenderMain \/ Configure \/ SendControl \/ ReplyIgnored
    BY <1>2, <1>5 DEF SenderMain, StartClaim, StartEnqueue, WindowCommand, Configure,
                      SendControl, ReplyIgnored, historyVars
  <1>6. ASSUME phase' = "idle", session' \in {session, 0}, source' = NoClip, WindowOK(window')
        PROVE  SenderInStep'
    <2>1. session' \in 0..Len(offered)'
      BY <1>1, <1>6 DEF Grown
    <2> QED BY <1>6, <2>1 DEF SenderInStep
  <1>7. CASE ReplyError \/ ReplyFinished \/ SenderTimeout
    <2>1. phase' = "idle" /\ session' = session /\ source' = NoClip /\ window' = window
      BY <1>7 DEF ReplyError, ReplyFinished, SenderTimeout, StopSender
    <2> QED BY <1>1, <1>6, <2>1
  <1>8. CASE BeginSendFails
    <2>1. phase' = "idle" /\ session' = session /\ source' = NoClip
          /\ window' \in {window} \cup {NewWindow(Size[clip], configured_window) : clip \in Clips}
      BY <1>8 DEF BeginSendFails, StopSender
    <2>2. WindowOK(window')
      <3>1. configured_window \in Nat
        BY DEF IInv, SenderBusy
      <3>2. \A clip \in Clips : WindowOK(NewWindow(Size[clip], configured_window))
        BY <3>1, ClipFields, NewWindowOK
      <3> QED BY <1>1, <2>1, <3>2
    <2> QED BY <1>6, <2>1, <2>2
  <1>9. CASE SenderReset
    <2>1. phase' = "idle" /\ session' = 0 /\ source' = NoClip
          /\ window' = NewWindow(0, DefaultWindow)
      BY <1>9 DEF SenderReset
    <2>2. WindowOK(window')
      <3>1. DefaultWindow \in Nat
        BY RadioConstants
      <3> QED BY <2>1, <3>1, NewWindowOK
    <2> QED BY <1>6, <2>1, <2>2
  <1>10. CASE SenderSilence
    <2>1. UNCHANGED <<phase, session, source, window, offered, stored>>
      BY <1>10 DEF SenderSilence, historyVars
    <2> QED BY <2>1 DEF IInv, SenderInStep
  <1>11. CASE \E clip \in Clips : BeginSend(clip)
    <2> PICK clip \in Clips : BeginSend(clip)
      BY <1>11
    <2>1. stored[Len(offered) + 1] = 0 /\ Len(offered) + 1 \in Sessions
      BY BeginSendHistory
    <2>2. /\ session' = Len(offered) + 1 /\ offered' = Append(offered, clip)
          /\ source' = clip /\ window' = NewWindow(Size[clip], configured_window)
          /\ phase' = "begin" /\ UNCHANGED stored
      BY DEF BeginSend
    <2>3. Len(offered') = Len(offered) + 1 /\ offered'[Len(offered) + 1] = clip
      BY <2>2, HistoryFields, AppendProperties DEF IInv
    <2>4. WindowOK(window') /\ window'.total = Size[clip] /\ window'.acknowledged = 0
      <3>1. configured_window \in Nat /\ Size[clip] \in Nat
        BY ClipFields DEF IInv, SenderBusy
      <3>2. WindowOK(window')
        BY <2>2, <3>1, NewWindowOK
      <3> QED BY <2>2, <3>2 DEF NewWindow
    <2>5. session' \in 0..Len(offered') /\ session' > 0 /\ session' = Len(offered')
      BY <1>1, <2>2, <2>3
    <2>6. window'.acknowledged <= stored'[session']
      BY <2>1, <2>2, <2>4
    <2> QED BY <2>2, <2>3, <2>4, <2>5, <2>6 DEF SenderInStep
  <1>12. CASE ReplyBegun
    <2>1. UNCHANGED <<session, source, window, offered, stored>> /\ phase # "idle"
          /\ phase' = "data"
      BY <1>12 DEF ReplyBegun, historyVars
    <2> QED BY <2>1 DEF IInv, SenderInStep
  <1>13. CASE ReplyData
    <2> DEFINE offset == Answer.offset
    <2>1. UNCHANGED <<session, source, offered, stored>> /\ phase # "idle"
          /\ window' = Acked(window, offset) /\ AckAccepted(window, offset)
          /\ phase' = (IF offset = window.total THEN "finish" ELSE phase)
          /\ phase = "data" /\ Answer.session = session /\ Answer.kind = "data_ack"
      BY <1>13 DEF ReplyData, Answers, historyVars
    <2>2. offset \in Nat /\ offset <= stored[session]
      BY <1>13, <2>1, AnswerTaken, GivenFields DEF ReplyData, Answers
    <2> HIDE DEF offset
    <2>3. WindowOK(window') /\ window'.total = window.total /\ window'.acknowledged = offset
      BY <1>1, <2>1, <2>2, AckedOK
    <2>4. phase' = "finish" => window'.acknowledged = window'.total
      BY <2>1, <2>3
    <2> QED BY <2>1, <2>2, <2>3, <2>4 DEF IInv, SenderInStep
  <1>14. CASE \E elapsed, accepted \in BOOLEAN : SendData(elapsed, accepted)
    <2> PICK elapsed \in BOOLEAN, accepted \in BOOLEAN : SendData(elapsed, accepted)
      BY <1>14
    <2> DEFINE w == TickWindow(elapsed)
    <2>1. UNCHANGED <<phase, session, source, offered, stored>> /\ phase = "data"
          /\ \/ Count(w) > 0 /\ window' = Sent(w, Count(w))
             \/ window' = w
      BY DEF SendData, historyVars
    <2>2. WindowOK(w) /\ w.total = window.total /\ w.acknowledged = window.acknowledged
      BY <1>1, TickWindowOK
    <2> HIDE DEF w
    <2>3. /\ WindowOK(window') /\ window'.total = window.total
          /\ window'.acknowledged = window.acknowledged
      BY <2>1, <2>2, SentOK
    <2> QED BY <2>1, <2>3 DEF IInv, SenderInStep
  <1> QED BY <1>3, <1>4, <1>5, <1>7, <1>8, <1>9, <1>10, <1>11, <1>12, <1>13, <1>14, WhoSteps
          DEF SenderSteps, SenderWorker

-----------------------------------------------------------------------------
(* The receiver's record of its session.                                    *)

LEMMA ReceiverUntouched ==
    ASSUME History, ReceiverInStep, Grown,
           UNCHANGED <<rx_session, rx_size, rx_crc, rx_offset>>, rx_last_ack' \in Nat,
           Waiting' \/ rx_active' \/ rx_verified' => Waiting \/ rx_active \/ rx_verified,
           rx_verified' => rx_verified \/ rx_session \in verified'
    PROVE  ReceiverInStep'
  <1>1. rx_session \in Nat /\ rx_session \in 0..Len(offered)'
    BY DEF ReceiverInStep, Grown
  <1>2. ASSUME rx_session > 0
        PROVE  rx_crc = offered'[rx_session] /\ rx_offset <= stored'[rx_session]
    <2>1. /\ rx_session \in 1..Len(offered) /\ rx_session \in Sessions
          /\ rx_crc = offered[rx_session] /\ rx_offset \in Nat
          /\ rx_offset <= stored[rx_session]
      BY <1>2, HeldFields
    <2>2. offered'[rx_session] = offered[rx_session]
      BY <2>1 DEF Grown
    <2>3. stored[rx_session] <= stored'[rx_session] /\ stored[rx_session] \in Nat
          /\ stored'[rx_session] \in Nat
      BY <2>1 DEF Grown
    <2> QED BY <2>1, <2>2, <2>3
  <1>3. /\ Waiting' \/ rx_active' \/ rx_verified' => rx_session > 0
        /\ rx_verified' => rx_session \in verified'
    BY DEF ReceiverInStep, Grown
  <1> QED BY <1>1, <1>2, <1>3 DEF ReceiverInStep

LEMMA ReceiverInStepKept ==
    ASSUME IInv, [Next]_vars, Grown, History'
    PROVE  ReceiverInStep'
  <1> USE DEF IInv
  <1>1. active \in [Boards -> BOOLEAN] /\ rx_last_ack \in Nat
    BY DEF SenderBusy, ReceiverInStep
  <1>2. CASE UNCHANGED receiverVars
    <2>1. UNCHANGED <<rx_pc, rx_active, rx_verified, rx_session, rx_size, rx_crc, rx_offset,
                      rx_last_ack>>
      BY <1>2 DEF receiverVars
    <2>2. /\ Waiting' \/ rx_active' \/ rx_verified' => Waiting \/ rx_active \/ rx_verified
          /\ rx_verified' => rx_verified
      BY <2>1 DEF Waiting
    <2> QED BY <1>1, <2>1, <2>2, ReceiverUntouched
  <1>3. CASE Link \/ UNCHANGED vars
    BY <1>2, <1>3, LinkLeavesBoards DEF vars
  <1>4. CASE SenderSteps
    BY <1>1, <1>2, <1>4, SenderLeavesReceiver
  <1>5. CASE ReceiverMain \/ RequestIgnored
    BY <1>2, <1>5 DEF ReceiverMain, MainLoopClear, MainLoopBegin, RequestIgnored
  <1>6. CASE BeginAnswered \/ RejectAnswered
    <2>1. UNCHANGED <<rx_session, rx_size, rx_crc, rx_offset, rx_last_ack>> /\ Waiting
          /\ (rx_verified' => rx_verified)
      BY <1>6 DEF BeginAnswered, RejectAnswered, Waiting
    <2> QED BY <1>1, <2>1, ReceiverUntouched
  <1>7. CASE BeginAgain \/ DataElsewhere \/ DataRejected \/ FinishFirst \/ FinishAgain
    <2>1. UNCHANGED <<rx_session, rx_size, rx_crc, rx_offset, rx_last_ack>>
          /\ (rx_active \/ rx_verified)
          /\ (rx_verified' => rx_verified \/ rx_session \in verified')
      BY <1>7 DEF BeginAgain, DataElsewhere, DataRejected, FinishFirst, FinishAgain, Current,
                  Reject
    <2> QED BY <1>1, <2>1, ReceiverUntouched
  <1>8. CASE ReceiverTimeout \/ ReceiverSilence
    <2>1. UNCHANGED <<rx_session, rx_size, rx_crc, rx_offset, rx_last_ack>> /\ rx_active
          /\ (rx_verified' => rx_verified)
      BY <1>8 DEF ReceiverTimeout, ReceiverSilence, Reject
    <2> QED BY <1>1, <2>1, ReceiverUntouched
  <1>9. CASE \E elapsed, accepted \in BOOLEAN : ReceiverTick(elapsed, accepted)
    <2> PICK elapsed \in BOOLEAN, accepted \in BOOLEAN : ReceiverTick(elapsed, accepted)
      BY <1>9
    <2>1. UNCHANGED <<rx_session, rx_size, rx_crc, rx_offset, rx_active, rx_verified>>
          /\ rx_pc' = "run"
      BY DEF ReceiverTick
    <2>2. \A due \in DueReply(elapsed) : due.kind = "data_ack" => due.offset \in Nat
      <3>1. \A due \in reply : due.offset \in Nat
        BY GivenFields DEF PacketsInStep
      <3>2. rx_offset \in Nat
        BY DEF ReceiverInStep
      <3> QED BY <3>1, <3>2 DEF DueReply, Reply
    <2>3. rx_last_ack' \in Nat
      BY <1>1, <2>2 DEF ReceiverTick
    <2>4. /\ Waiting' \/ rx_active' \/ rx_verified' => Waiting \/ rx_active \/ rx_verified
          /\ rx_verified' => rx_verified
      BY <2>1 DEF Waiting
    <2> QED BY <2>1, <2>3, <2>4, ReceiverUntouched
  <1>10. CASE BeginNew
    <2>1. /\ Request.kind = "begin" /\ rx_session' = Request.session /\ rx_crc' = Request.crc
          /\ rx_size' = Request.offset /\ rx_offset' = 0 /\ rx_last_ack' = 0
          /\ UNCHANGED <<offered, stored>> /\ queue["receiver"] # <<>> /\ rx_verified' = FALSE
      BY <1>10 DEF BeginNew, Requests, historyVars
    <2>2. /\ Request.session \in 1..Len(offered) /\ Request.session \in Sessions
          /\ offered[Request.session] \in Clips
          /\ Request.crc = offered[Request.session] /\ Request.offset = Size[Request.crc]
          /\ Request.offset \in Nat
      BY <2>1, RequestTaken, AskedFields
    <2>3. stored[Request.session] \in Nat
      BY <2>2, HistoryFields
    <2>4. /\ Request.session \in 0..Len(offered) /\ Request.session > 0
          /\ 0 <= stored[Request.session]
      BY <2>2, <2>3
    <2> QED BY <2>1, <2>2, <2>4 DEF ReceiverInStep
  <1>11. CASE DataAppended
    <2>1. rx_offset' \in Nat /\ rx_offset' <= stored'[rx_session]
      BY <1>11, AppendedHistory
    <2>2. UNCHANGED <<rx_session, rx_size, rx_crc, rx_last_ack, offered, rx_verified, verified>>
          /\ (rx_active \/ rx_verified)
      BY <1>11 DEF DataAppended, Current
    <2> QED BY <2>1, <2>2 DEF ReceiverInStep
  <1>12. CASE ReceiverReset
    <2>1. /\ rx_pc' = "run" /\ rx_active' = FALSE /\ rx_verified' = FALSE /\ rx_session' = 0
          /\ rx_size' = 0 /\ rx_crc' = NoClip /\ rx_offset' = 0 /\ rx_last_ack' = 0
      BY <1>12 DEF ReceiverReset
    <2>2. 0 \in 0..Len(offered)'
      BY DEF Grown
    <2> QED BY <2>1, <2>2 DEF ReceiverInStep, Waiting
  <1> QED BY <1>3, <1>4, <1>5, <1>6, <1>7, <1>8, <1>9, <1>10, <1>11, <1>12, WhoSteps
          DEF ReceiverSteps, ReceiverWorker

-----------------------------------------------------------------------------
(* The packets under way, queued and pending.                               *)

AnswerKinds == {"begin_ack", "data_ack", "finish_ack", "error"}

LEMMA ReplyMade ==
    ASSUME NEW kind \in AnswerKinds, NEW s \in Sessions, NEW offset \in Nat,
           s <= Len(offered'), kind = "data_ack" => offset <= stored'[s],
           kind = "finish_ack" => s \in verified'
    PROVE  Reply(kind, s, offset) \in Givens'
  <1> DEFINE p == Reply(kind, s, offset)
  <1>1. p \in Answered /\ p.kind = kind /\ p.session = s /\ p.offset = offset
    BY DEF Answered, Reply, AnswerKinds
  <1> HIDE DEF p
  <1>2. p \in Givens'
    BY <1>1 DEF Givens, Given
  <1> QED BY <1>2 DEF p

LEMMA ControlMade ==
    ASSUME IInv, phase \in {"begin", "finish"}
    PROVE  Control(phase, session, source) \in Askeds
  <1> DEFINE p == Control(phase, session, source)
  <1>1. /\ session = Len(offered) /\ session \in Sessions /\ source = offered[session]
        /\ source \in Clips /\ Size[source] \in Nat
    BY SendingFields, ClipFields
  <1>2. /\ p \in Requested /\ p.kind = phase /\ p.session = session
        /\ p.offset = Size[source] /\ p.crc = source
    BY <1>1 DEF Requested, Control
  <1>3. ASSUME phase = "finish" PROVE stored[session] = Size[source]
    <2>1. /\ window.acknowledged = Size[source] /\ window.acknowledged <= stored[session]
          /\ stored[session] <= Size[source] /\ stored[session] \in Nat
      BY <1>3, SendingFields
    <2> QED BY <1>1, <2>1
  <1>4. session <= Len(offered)
    <2>1. Len(offered) \in Nat
      BY HistoryFields DEF IInv
    <2> QED BY <1>1, <2>1
  <1> HIDE DEF p
  <1>5. Asked(p)
    BY <1>1, <1>2, <1>3, <1>4 DEF Asked
  <1> QED BY <1>2, <1>5 DEF Askeds, p

LEMMA DataMade ==
    ASSUME IInv, phase = "data", NEW elapsed \in BOOLEAN, Count(TickWindow(elapsed)) > 0
    PROVE  LET w == TickWindow(elapsed)
           IN Data(session, source, w.next, Count(w)) \in Askeds
  <1> DEFINE w == TickWindow(elapsed)
             next == w.next
             count == Count(w)
             p == Data(session, source, next, count)
  <1>1. /\ session = Len(offered) /\ session \in Sessions /\ source = offered[session]
        /\ source \in Clips /\ window.total = Size[source]
    BY SendingFields
  <1>2. WindowOK(w) /\ w.total = Size[source]
    <2>1. WindowOK(window)
      BY SendingFields
    <2> QED BY <1>1, <2>1, TickWindowOK
  <1>3. next \in Nat /\ count \in Nat /\ next + count <= Size[source]
    <2>1. count > 0
      OBVIOUS
    <2> HIDE DEF w
    <2>2. w.next \in Nat
      BY <1>2 DEF WindowOK, WindowType
    <2>3. Count(w) \in Nat /\ w.next + Count(w) <= w.total
      BY <1>2, <2>1, CountBounds
    <2> QED BY <1>2, <2>2, <2>3
  <1> HIDE DEF next, count, w
  <1>4. /\ Bytes(source, next, count) \in Seq(Clips \X Nat)
        /\ Len(Bytes(source, next, count)) = count
    BY <1>1, <1>3, BytesFields, ZenonT(30)
  <1>5. /\ p \in Requested /\ p.kind = "data" /\ p.session = session
        /\ p.offset = next /\ p.payload = Bytes(source, next, count)
    BY <1>1, <1>3, <1>4 DEF Requested, Data
  <1>6. session <= Len(offered)
    <2>1. Len(offered) \in Nat
      BY HistoryFields DEF IInv
    <2> QED BY <1>1, <2>1
  <1> HIDE DEF p
  <1>7. Asked(p)
    BY <1>1, <1>3, <1>4, <1>5, <1>6 DEF Asked
  <1>8. p \in Askeds
    BY <1>5, <1>7 DEF Askeds
  <1> QED BY <1>8 DEF p, next, count, w

LEMMA DueReplyGiven ==
    ASSUME IInv, NEW elapsed \in BOOLEAN
    PROVE  DueReply(elapsed) \subseteq Givens
  <1> USE DEF IInv
  <1>1. reply \subseteq Givens
    BY DEF PacketsInStep
  <1>2. ASSUME rx_active PROVE Reply("data_ack", rx_session, rx_offset) \in Givens
    <2> DEFINE p == Reply("data_ack", rx_session, rx_offset)
    <2>1. rx_session > 0
      BY <1>2 DEF ReceiverInStep
    <2>2. /\ rx_session \in 1..Len(offered) /\ rx_session \in Sessions /\ rx_offset \in Nat
          /\ rx_offset <= stored[rx_session]
      BY <2>1, HeldFields
    <2>3. p \in Answered /\ p.kind = "data_ack" /\ p.session = rx_session
          /\ p.offset = rx_offset
      BY <2>2 DEF Answered, Reply
    <2> HIDE DEF p
    <2>4. Given(p)
      BY <2>2, <2>3 DEF Given
    <2>5. p \in Givens
      BY <2>3, <2>4 DEF Givens
    <2> QED BY <2>5 DEF p
  <1> QED BY <1>1, <1>2 DEF DueReply

LEMMA PacketsInStepKept ==
    ASSUME IInv, [Next]_vars, Grown, History', ReceiverInStep'
    PROVE  PacketsInStep'
  <1> DEFINE A == Askeds'
             G == Givens'
             Kept == /\ DOMAIN air' = Boards /\ DOMAIN queue' = Boards
                     /\ air'["sender"] \in Seq(A) /\ queue'["receiver"] \in Seq(A)
                     /\ air'["receiver"] \in Seq(G) /\ queue'["sender"] \in Seq(G)
                     /\ reply' \subseteq G
  <1> SUFFICES Kept
    BY DEF PacketsInStep
  <1>1. /\ DOMAIN air = Boards /\ DOMAIN queue = Boards
        /\ air["sender"] \in Seq(A) /\ queue["receiver"] \in Seq(A)
        /\ air["receiver"] \in Seq(G) /\ queue["sender"] \in Seq(G)
        /\ reply \subseteq G
    <2>1. Askeds \subseteq A /\ Givens \subseteq G
      BY PacketsStay
    <2>2. /\ DOMAIN air = Boards /\ DOMAIN queue = Boards
          /\ air["sender"] \in Seq(Askeds) /\ queue["receiver"] \in Seq(Askeds)
          /\ air["receiver"] \in Seq(Givens) /\ queue["sender"] \in Seq(Givens)
          /\ reply \subseteq Givens
      BY DEF IInv, PacketsInStep
    <2> HIDE DEF A, G
    <2> QED BY <2>1, <2>2, SeqWidens
  <1>2. Askeds \subseteq A /\ Givens \subseteq G
    BY PacketsStay
  <1>3. ASSUME rx_session' > 0
        PROVE  /\ rx_session' \in Sessions /\ rx_session' <= Len(offered')
               /\ rx_offset' \in Nat /\ rx_offset' <= stored'[rx_session'] /\ rx_size' \in Nat
    <2>1. MaxSessions \in Nat /\ Len(offered') \in Nat /\ Len(offered') <= MaxSessions
      BY RadioConstants DEF Grown, History
    <2>2. rx_session' \in 0..Len(offered')
      BY DEF ReceiverInStep
    <2> QED BY <1>3, <2>1, <2>2 DEF ReceiverInStep, Sessions
  <1>4. ASSUME rx_session' > 0
        PROVE  /\ Reply("begin_ack", rx_session', 0) \in G
               /\ Reply("error", rx_session', 0) \in G
               /\ Reply("data_ack", rx_session', rx_offset') \in G
               /\ rx_session' \in verified' => Reply("finish_ack", rx_session', rx_size') \in G
    BY <1>3, <1>4, ReplyMade DEF AnswerKinds
  <1> HIDE DEF A, G
  <1>5. ASSUME UNCHANGED <<air, queue>>, reply' \subseteq G PROVE Kept
    BY <1>1, <1>5
  <1>6. ASSUME UNCHANGED <<linkVars, receiverVars>> PROVE Kept
    BY <1>1, <1>6 DEF linkVars, receiverVars
  <1>7. ASSUME Take("receiver"), reply' \subseteq G PROVE Kept
    BY <1>1, <1>7, QueueMoves DEF Take, Boards
  <1>8. ASSUME Take("sender"), UNCHANGED receiverVars PROVE Kept
    BY <1>1, <1>8, QueueMoves DEF Take, Boards, receiverVars
  <1>9. ASSUME NEW p \in A, Transmit("sender", p), UNCHANGED receiverVars PROVE Kept
    BY <1>1, <1>9, QueueMoves DEF Transmit, Boards, receiverVars
  <1>10. ASSUME NEW p \in G, Transmit("receiver", p), reply' \subseteq G PROVE Kept
    BY <1>1, <1>10, QueueMoves DEF Transmit, Boards
  <1>11. CASE Link
    <2>1. UNCHANGED receiverVars
      BY <1>11, LinkLeavesBoards
    <2>2. CASE \E b \in Boards : OnSend(b)
      BY <1>6, <2>1, <2>2 DEF OnSend
    <2>3. CASE \E copies \in Copies : OnReceive("receiver", copies)
      <3> PICK copies \in Copies : OnReceive("receiver", copies)
        BY <2>3
      <3> DEFINE q == queue["receiver"]
                 p == Head(air["sender"])
      <3>1. /\ air["sender"] # <<>> /\ air' = [air EXCEPT !["sender"] = Tail(@)]
            /\ \/ queue' = [queue EXCEPT !["receiver"] = q]
               \/ queue' = [queue EXCEPT !["receiver"] = Enqueued(q, p)]
               \/ queue' = [queue EXCEPT !["receiver"] = Enqueued(Enqueued(q, p), p)]
        BY DEF OnReceive, Peer
      <3>2. p \in A /\ Tail(air["sender"]) \in Seq(A)
        BY <1>1, <3>1, QueueMoves
      <3>3. q \in Seq(A) /\ Enqueued(q, p) \in Seq(A)
        BY <1>1, <3>2, QueueMoves
      <3>4. Enqueued(Enqueued(q, p), p) \in Seq(A)
        BY <3>2, <3>3, QueueMoves
      <3> HIDE DEF q, p
      <3> QED BY <1>1, <2>1, <3>1, <3>2, <3>3, <3>4 DEF Boards, receiverVars
    <2>4. CASE \E copies \in Copies : OnReceive("sender", copies)
      <3> PICK copies \in Copies : OnReceive("sender", copies)
        BY <2>4
      <3> DEFINE q == queue["sender"]
                 p == Head(air["receiver"])
      <3>1. /\ air["receiver"] # <<>> /\ air' = [air EXCEPT !["receiver"] = Tail(@)]
            /\ \/ queue' = [queue EXCEPT !["sender"] = q]
               \/ queue' = [queue EXCEPT !["sender"] = Enqueued(q, p)]
               \/ queue' = [queue EXCEPT !["sender"] = Enqueued(Enqueued(q, p), p)]
        BY DEF OnReceive, Peer
      <3>2. p \in G /\ Tail(air["receiver"]) \in Seq(G)
        BY <1>1, <3>1, QueueMoves
      <3>3. q \in Seq(G) /\ Enqueued(q, p) \in Seq(G)
        BY <1>1, <3>2, QueueMoves
      <3>4. Enqueued(Enqueued(q, p), p) \in Seq(G)
        BY <3>2, <3>3, QueueMoves
      <3> HIDE DEF q, p
      <3> QED BY <1>1, <2>1, <3>1, <3>2, <3>3, <3>4 DEF Boards, receiverVars
    <2> QED BY <1>11, <2>2, <2>3, <2>4 DEF Link, Boards
  <1>12. CASE UNCHANGED vars
    BY <1>6, <1>12 DEF vars
  <1>13. CASE SenderMain \/ Silence \/ ReceiverMain \/ Configure \/ BeginSendFails
              \/ (\E clip \in Clips : BeginSend(clip)) \/ SenderTimeout
    <2>1. UNCHANGED <<air, queue, reply>>
      BY <1>13 DEF SenderMain, StartClaim, StartEnqueue, WindowCommand, Silence,
                   SenderSilence, ReceiverSilence, ReceiverMain, MainLoopClear, MainLoopBegin,
                   Configure, BeginSendFails, BeginSend, SenderTimeout, linkVars, receiverVars
    <2> QED BY <1>1, <1>5, <2>1
  <1>14. CASE ReplyError \/ ReplyBegun \/ ReplyData \/ ReplyFinished \/ ReplyIgnored
    BY <1>8, <1>14 DEF ReplyError, ReplyBegun, ReplyData, ReplyFinished, ReplyIgnored,
                       SenderRest
  <1>15. CASE SendControl
    BY <1>2, <1>9, <1>15, ControlMade DEF SendControl
  <1>16. CASE \E elapsed, accepted \in BOOLEAN : SendData(elapsed, accepted)
    <2> PICK elapsed \in BOOLEAN, accepted \in BOOLEAN : SendData(elapsed, accepted)
      BY <1>16
    <2> DEFINE w == TickWindow(elapsed)
               p == Data(session, source, w.next, Count(w))
    <2>1. phase = "data" /\ UNCHANGED receiverVars
      BY DEF SendData
    <2>2. \/ Count(w) > 0 /\ Transmit("sender", p)
          \/ UNCHANGED linkVars
      BY DEF SendData
    <2>3. Count(w) > 0 => p \in A
      BY <1>2, <2>1, DataMade
    <2> HIDE DEF w, p
    <2> QED BY <1>6, <1>9, <2>1, <2>2, <2>3
  <1>17. CASE BeginAnswered \/ RejectAnswered
    <2>1. UNCHANGED linkVars /\ rx_session' = rx_session /\ Waiting
      BY <1>17 DEF BeginAnswered, RejectAnswered, Waiting
    <2>2. rx_session' > 0
      BY <2>1 DEF IInv, ReceiverInStep
    <2>3. reply' \subseteq G
      BY <1>1, <1>4, <1>17, <2>1, <2>2 DEF BeginAnswered, RejectAnswered
    <2> QED BY <1>5, <2>1, <2>3 DEF linkVars
  <1>18. CASE BeginNew
    BY <1>7, <1>18 DEF BeginNew
  <1>19. CASE BeginAgain \/ DataElsewhere \/ DataRejected
    <2>1. /\ rx_session' = rx_session /\ rx_offset' = rx_offset /\ Take("receiver")
          /\ rx_active \/ rx_verified
      BY <1>19 DEF BeginAgain, DataElsewhere, DataRejected, Current
    <2>2. rx_session' > 0
      BY <2>1 DEF IInv, ReceiverInStep
    <2>3. \/ reply' = reply \/ reply' = {Reply("begin_ack", rx_session', 0)}
          \/ reply' = {Reply("data_ack", rx_session', rx_offset')}
      BY <1>19, <2>1 DEF BeginAgain, DataElsewhere, DataRejected
    <2> QED BY <1>1, <1>4, <1>7, <2>1, <2>2, <2>3
  <1>20. CASE DataAppended
    <2>1. rx_session' = rx_session /\ Take("receiver") /\ (rx_active \/ rx_verified)
      BY <1>20 DEF DataAppended, Current
    <2>2. rx_session' > 0
      BY <2>1 DEF IInv, ReceiverInStep
    <2>3. \/ reply' = reply \/ reply' = {Reply("data_ack", rx_session', rx_offset')}
      BY <1>20, <2>1 DEF DataAppended
    <2> QED BY <1>1, <1>4, <1>7, <2>1, <2>2, <2>3
  <1>21. CASE FinishAgain
    <2>1. /\ rx_session' = rx_session /\ rx_size' = rx_size /\ verified' = verified
          /\ Take("receiver") /\ rx_verified /\ reply' = {Reply("finish_ack", rx_session, rx_size)}
      BY <1>21 DEF FinishAgain, historyVars
    <2>2. rx_session' > 0 /\ rx_session' \in verified'
      BY <2>1 DEF IInv, ReceiverInStep
    <2> QED BY <1>4, <1>7, <2>1, <2>2
  <1>22. CASE FinishFirst
    <2>1. Take("receiver") /\ rx_session' = rx_session /\ rx_size' = rx_size
      BY <1>22 DEF FinishFirst
    <2>2. CASE FinishMatches /\ ClipFinishes
      <3>1. rx_session' > 0 /\ rx_session' \in verified'
        BY <1>22, <2>1, <2>2, FinishedHistory
      <3>2. reply' = {Reply("finish_ack", rx_session', rx_size')}
        BY <1>22, <2>1, <2>2 DEF FinishFirst
      <3> QED BY <1>4, <1>7, <2>1, <3>1, <3>2
    <2>3. CASE ~(FinishMatches /\ ClipFinishes)
      BY <1>1, <1>7, <1>22, <2>1, <2>3 DEF FinishFirst
    <2> QED BY <2>2, <2>3
  <1>23. CASE RequestIgnored
    BY <1>1, <1>7, <1>23 DEF RequestIgnored, receiverVars
  <1>24. CASE ReceiverTimeout
    BY <1>1, <1>5, <1>24 DEF ReceiverTimeout, linkVars
  <1>25. CASE \E elapsed, accepted \in BOOLEAN : ReceiverTick(elapsed, accepted)
    <2> PICK elapsed \in BOOLEAN, accepted \in BOOLEAN : ReceiverTick(elapsed, accepted)
      BY <1>25
    <2>1. DueReply(elapsed) \subseteq G
      BY <1>2, DueReplyGiven
    <2>2. \/ /\ \E due \in DueReply(elapsed) : Transmit("receiver", due)
             /\ reply' = {}
          \/ /\ UNCHANGED linkVars
             /\ reply' = DueReply(elapsed)
      BY DEF ReceiverTick
    <2> QED BY <1>5, <1>10, <2>1, <2>2 DEF linkVars
  <1>26. CASE SenderReset
    <2>1. /\ queue' = [queue EXCEPT !["sender"] = <<>>] /\ UNCHANGED receiverVars
          /\ \/ air' = [air EXCEPT !["sender"] = air["sender"]]
             \/ air' = [air EXCEPT !["sender"] = <<>>]
      BY <1>26 DEF SenderReset
    <2>2. <<>> \in Seq(A) /\ <<>> \in Seq(G)
      BY EmptySeq
    <2> QED BY <1>1, <2>1, <2>2 DEF Boards, receiverVars
  <1>27. CASE ReceiverReset
    <2>1. /\ queue' = [queue EXCEPT !["receiver"] = <<>>] /\ reply' = {}
          /\ \/ air' = [air EXCEPT !["receiver"] = air["receiver"]]
             \/ air' = [air EXCEPT !["receiver"] = <<>>]
      BY <1>27 DEF ReceiverReset
    <2>2. <<>> \in Seq(A) /\ <<>> \in Seq(G)
      BY EmptySeq
    <2> QED BY <1>1, <2>1, <2>2 DEF Boards
  <1> HIDE DEF Kept
  <1>28. CASE SenderWorker
    BY <1>13, <1>14, <1>15, <1>16, <1>28 DEF SenderWorker
  <1>29. CASE ReceiverWorker
    BY <1>17, <1>18, <1>19, <1>20, <1>21, <1>22, <1>23, <1>24, <1>25, <1>29 DEF ReceiverWorker
  <1> QED BY <1>11, <1>12, <1>13, <1>26, <1>27, <1>28, <1>29 DEF Next, Reset

-----------------------------------------------------------------------------
(* The memory and the parser.                                               *)

LEMMA BytesJoin ==
    ASSUME NEW clip \in Clips, NEW n \in Nat, NEW m \in Nat
    PROVE  Bytes(clip, 0, n) \o Bytes(clip, n, m) = Bytes(clip, 0, n + m)
  <1> DEFINE a == Bytes(clip, 0, n)
             b == Bytes(clip, n, m)
             c == Bytes(clip, 0, n + m)
  <1>1. /\ a \in Seq(Clips \X Nat) /\ Len(a) = n
        /\ \A i \in 1..n : a[i] = <<clip, 0 + i - 1>>
    BY BytesFields
  <1>2. /\ b \in Seq(Clips \X Nat) /\ Len(b) = m
        /\ \A i \in 1..m : b[i] = <<clip, n + i - 1>>
    BY BytesFields
  <1>3. /\ c \in Seq(Clips \X Nat) /\ Len(c) = n + m
        /\ \A i \in 1..(n + m) : c[i] = <<clip, 0 + i - 1>>
    <2>1. n + m \in Nat
      OBVIOUS
    <2> QED BY <2>1, BytesFields
  <1> HIDE DEF a, b, c
  <1>4. /\ a \o b \in Seq(Clips \X Nat) /\ Len(a \o b) = n + m
        /\ \A i \in 1..(n + m) : (a \o b)[i] = IF i <= n THEN a[i] ELSE b[i - n]
    BY <1>1, <1>2, ConcatProperties, ZenonT(30)
  <1>5. ASSUME NEW i \in 1..(n + m) PROVE (a \o b)[i] = c[i]
    <2>1. CASE i <= n
      <3>1. i \in 1..n
        BY <2>1
      <3>2. (a \o b)[i] = a[i]
        BY <1>4, <2>1
      <3>3. a[i] = <<clip, 0 + i - 1>> /\ c[i] = <<clip, 0 + i - 1>>
        BY <1>1, <1>3, <3>1
      <3> QED BY <3>2, <3>3
    <2>2. CASE ~(i <= n)
      <3>1. i - n \in 1..m /\ n + (i - n) - 1 = 0 + i - 1
        BY <2>2
      <3>2. (a \o b)[i] = b[i - n]
        BY <1>4, <2>2
      <3> QED BY <1>2, <1>3, <3>1, <3>2
    <2> QED BY <2>1, <2>2
  <1>6. a \o b = c
    <2> DEFINE ab == a \o b
    <2>1. ab \in Seq(Clips \X Nat) /\ Len(ab) = Len(c) /\ \A i \in 1..Len(ab) : ab[i] = c[i]
      BY <1>3, <1>4, <1>5
    <2> HIDE DEF ab
    <2>2. ab = c
      BY <1>3, <2>1, SeqEqual
    <2> QED BY <2>2 DEF ab
  <1> QED BY <1>6 DEF a, b, c

LEMMA OneLookMeans ==
    ASSUME NEW clip \in Clips, NEW n \in 1..Size[clip]
    PROVE  OneLook[clip][n] = advance(Fresh, n, Stream[clip])
  BY DEF OneLook

LEMMA MemoryUntouched ==
    ASSUME IInv, Grown, UNCHANGED <<capacity, ram, parser, rx_session, rx_offset>>,
           rx_active' \/ rx_verified' => rx_active \/ rx_verified,
           rx_verified' => rx_verified \/ rx_offset = capacity,
           rx_pc' = "begin" => rx_pc = "begin" /\ UNCHANGED <<lifecycle_done, rx_size>>
    PROVE  MemoryInStep'
  <1> USE DEF IInv
  <1>1. /\ capacity \in Nat /\ ram \in Seq(Clips \X Nat) /\ Len(ram) <= capacity
        /\ parser \in Validator /\ parser.published <= Len(ram)
        /\ rx_pc = "begin" => rx_offset = 0
        /\ rx_pc = "begin" /\ lifecycle_done = "done" =>
              ram = <<>> /\ parser = Fresh /\ capacity = rx_size
        /\ RamHoldsOffer
        /\ rx_active \/ rx_verified => parser.accepted
    BY DEF MemoryInStep
  <1>2. ASSUME rx_active' \/ rx_verified'
        PROVE  /\ offered'[rx_session] = offered[rx_session]
               /\ rx_active \/ rx_verified
    <2>1. rx_active \/ rx_verified
      BY <1>2
    <2>2. rx_session \in 1..Len(offered)
      BY <2>1, HeldFields DEF ReceiverInStep
    <2> QED BY <2>1, <2>2 DEF Grown
  <1>3. RamHoldsOffer'
    BY <1>1, <1>2 DEF RamHoldsOffer
  <1>4. /\ (capacity \in Nat)' /\ (ram \in Seq(Clips \X Nat))' /\ (Len(ram) <= capacity)'
        /\ (parser \in Validator)' /\ (parser.published <= Len(ram))'
    BY <1>1
  <1>5. rx_pc' = "begin" =>
           /\ rx_offset' = 0
           /\ lifecycle_done' = "done" => ram' = <<>> /\ parser' = Fresh /\ capacity' = rx_size'
    BY <1>1
  <1>6. rx_active' \/ rx_verified' => parser'.accepted
    BY <1>1, <1>2
  <1> QED BY <1>3, <1>4, <1>5, <1>6 DEF MemoryInStep

\* An emptied memory, while the receiver holds no clip.
LEMMA MemoryEmptied ==
    ASSUME ram' = <<>>, parser' = Fresh, capacity' \in Nat, ~rx_active', ~rx_verified',
           rx_pc' = "begin" =>
              rx_offset' = 0 /\ (lifecycle_done' = "done" => capacity' = rx_size')
    PROVE  MemoryInStep'
  <1>1. ram' \in Seq(Clips \X Nat) /\ Len(ram') = 0
    BY EmptySeq
  <1>2. Fresh \in Validator /\ Fresh.published = 0
    BY FreshFields
  <1>3. RamHoldsOffer'
    BY DEF RamHoldsOffer
  <1> QED BY <1>1, <1>2, <1>3 DEF MemoryInStep

\* What an append leaves, accepted or not.
LEMMA AppendFields ==
    ASSUME IInv, Requests("data"), Current, WellPlaced(Request), Request.offset = rx_offset,
           Fits(Request)
    PROVE  /\ RamAfter(Request) \in Seq(Clips \X Nat) /\ Len(RamAfter(Request)) <= capacity
           /\ RamAfter(Request) = Bytes(rx_crc, 0, rx_offset + Len(Request.payload))
           /\ Len(RamAfter(Request)) = rx_offset + Len(Request.payload)
           /\ ParserAfter(Request) \in Validator
           /\ ParserAfter(Request).published <= Len(RamAfter(Request))
           /\ ParserAfter(Request).accepted =>
                ParserAfter(Request) = OneLook[rx_crc][rx_offset + Len(Request.payload)]
           /\ ~ParserAfter(Request).accepted =>
                ~OneLook[rx_crc][rx_offset + Len(Request.payload)].accepted
           /\ capacity = rx_size /\ rx_offset + Len(Request.payload) \in 1..Size[rx_crc]
  <1> DEFINE m == Len(Request.payload)
             n == rx_offset
             bytes == RamAfter(Request)
             stream == Stream[rx_crc]
  <1>1. /\ rx_session \in 1..Len(offered) /\ rx_crc \in Clips /\ rx_crc = offered[rx_session]
        /\ rx_size = Size[rx_crc] /\ m \in Nat /\ m > 0 /\ n \in Nat /\ n + m <= rx_size
        /\ Request.payload = Bytes(rx_crc, n, m)
    BY NextDataFields
  <1>2. /\ ram = Bytes(rx_crc, 0, n) /\ capacity = rx_size /\ n <= capacity
        /\ parser = (IF n = 0 THEN Fresh ELSE OneLook[rx_crc][n])
        /\ parser.accepted /\ parser \in Validator /\ parser.published <= Len(ram)
    <2>1. /\ rx_active \/ rx_verified
      BY DEF Current
    <2>2. /\ RamHoldsOffer /\ parser \in Validator /\ parser.published <= Len(ram)
          /\ rx_active \/ rx_verified => parser.accepted
      BY DEF IInv, MemoryInStep
    <2>3. /\ ram = Bytes(offered[rx_session], 0, rx_offset)
          /\ capacity = Size[offered[rx_session]] /\ rx_offset <= capacity
          /\ parser = IF rx_offset = 0 THEN Fresh
                      ELSE OneLook[offered[rx_session]][rx_offset]
      BY <2>1, <2>2 DEF RamHoldsOffer
    <2> QED BY <1>1, <2>1, <2>2, <2>3
  <1>3. bytes = Bytes(rx_crc, 0, n + m)
    <2>1. bytes = Bytes(rx_crc, 0, n) \o Bytes(rx_crc, n, m)
      BY <1>1, <1>2 DEF RamAfter
    <2> HIDE DEF n, m, bytes
    <2> QED BY <1>1, <2>1, BytesJoin
  <1>4. /\ bytes \in Seq(Clips \X Nat) /\ Len(bytes) = n + m /\ bytes[1][1] = rx_crc
        /\ n + m \in Nat /\ n + m > 0
    <2> HIDE DEF n, m, bytes
    <2>1. n + m \in Nat /\ 1 \in 1..(n + m)
      BY <1>1
    <2>2. /\ bytes \in Seq(Clips \X Nat) /\ Len(bytes) = n + m
          /\ \A i \in 1..(n + m) : bytes[i] = <<rx_crc, 0 + i - 1>>
      BY <1>1, <1>3, <2>1, BytesFields, ZenonT(30)
    <2>3. bytes[1] = <<rx_crc, 0 + 1 - 1>>
      BY <2>1, <2>2
    <2>4. bytes[1][1] = rx_crc
      BY <2>3
    <2> QED BY <2>1, <2>2, <2>4
  <1>5. ParserAfter(Request) = advance(parser, n + m, stream)
    <2>1. ParserAfter(Request) = advance(parser, Len(bytes), Stream[bytes[1][1]])
      BY DEF ParserAfter
    <2> HIDE DEF n, m, bytes
    <2> QED BY <1>4, <2>1
  <1>6. StreamType(stream) /\ stream.size = rx_size /\ n <= n + m
    <2>1. StreamType(stream) /\ stream.size = rx_size
      BY <1>1, ClipFields
    <2> QED BY <1>1, <2>1
  <1>7. /\ advance(parser, n + m, stream) \in Validator
        /\ advance(parser, n + m, stream).published <= n + m
    <2>1. Len(ram) = n
      <3>1. n \in Nat /\ 0 \in Nat
        BY <1>1
      <3>2. Len(Bytes(rx_crc, 0, n)) = n
        BY <1>1, <3>1, BytesFields
      <3> QED BY <1>2, <3>2
    <2>2. parser.published <= n + m
      <3>1. parser.published \in Nat
        BY <1>2, ValidatorFields
      <3>2. parser.published <= n
        BY <1>2, <2>1
      <3> HIDE DEF n, m
      <3> QED BY <1>1, <3>1, <3>2
    <2>3. parser \in Validator
      BY <1>2
    <2> HIDE DEF n, m, stream
    <2> QED BY <1>4, <1>6, <2>2, <2>3, AdvanceFields
  <1>8. OneLook[rx_crc][n + m] = advance(Fresh, n + m, stream) /\ n + m \in 1..Size[rx_crc]
    <2>1. n + m \in 1..Size[rx_crc]
      <3> HIDE DEF n, m
      <3> QED BY <1>1, <1>4, ClipFields
    <2> HIDE DEF n, m
    <2> QED BY <1>1, <2>1, OneLookMeans
  <1>9. /\ advance(parser, n + m, stream).accepted =>
             advance(parser, n + m, stream) = advance(Fresh, n + m, stream)
        /\ ~advance(parser, n + m, stream).accepted => ~advance(Fresh, n + m, stream).accepted
    <2>1. CASE n = 0
      BY <1>2, <2>1
    <2>2. CASE n # 0
      <3>1. n \in 1..Size[rx_crc]
        <4> HIDE DEF n, m
        <4> QED BY <1>1, <2>2, ClipFields
      <3>2. parser = advance(Fresh, n, stream) /\ advance(Fresh, n, stream).accepted
        <4>1. OneLook[rx_crc][n] = advance(Fresh, n, stream)
          BY <1>1, <3>1, OneLookMeans
        <4> QED BY <1>2, <2>2, <4>1
      <3>3. advance(advance(Fresh, n, stream), n + m, stream) = advance(Fresh, n + m, stream)
        <4>1. n \in Nat /\ n + m \in Nat /\ n <= n + m /\ n + m <= stream.size
          BY <1>1, <1>4, <1>6
        <4> HIDE DEF n, m, stream
        <4> QED BY <1>6, <3>2, <4>1, CutsAreUnseen
      <3> QED BY <3>2, <3>3
    <2> QED BY <2>1, <2>2
  <1>10. Len(bytes) <= capacity
    <2> HIDE DEF n, m, bytes
    <2> QED BY <1>1, <1>2, <1>4
  <1> HIDE DEF bytes
  <1> QED BY <1>1, <1>2, <1>3, <1>4, <1>5, <1>7, <1>8, <1>9, <1>10 DEF bytes

LEMMA MemoryInStepKept ==
    ASSUME IInv, [Next]_vars, Grown
    PROVE  MemoryInStep'
  <1> USE DEF IInv
  <1>1. /\ active \in [Boards -> BOOLEAN] /\ capacity \in Nat /\ ram \in Seq(Clips \X Nat)
        /\ Len(ram) <= capacity /\ parser \in Validator /\ parser.published <= Len(ram)
        /\ rx_offset \in Nat /\ rx_size \in Nat
    BY DEF SenderBusy, MemoryInStep, ReceiverInStep
  <1>2. CASE UNCHANGED <<receiverVars, ramVars, lifecycle_done>>
    BY <1>2, MemoryUntouched DEF receiverVars, ramVars
  <1>3. CASE Link \/ UNCHANGED vars
    BY <1>2, <1>3, LinkLeavesBoards DEF vars, lifecycleVars
  <1>4. CASE SenderSteps
    BY <1>1, <1>2, <1>4, SenderLeavesReceiver DEF lifecycleVars
  <1>5. CASE MainLoopClear \/ \E allocated \in Allocations : MainLoopBegin(allocated)
    <2>1. /\ ram' = <<>> /\ parser' = Fresh /\ UNCHANGED receiverVars
          /\ \/ player_request = "clear" /\ capacity' = 0
             \/ player_request = "begin" /\ capacity' = 0 /\ lifecycle_done' = "failed"
             \/ player_request = "begin" /\ capacity' = rx_size
      BY <1>5 DEF MainLoopClear, MainLoopBegin
    <2>2. /\ player_request = "clear" => rx_pc # "begin"
          /\ player_request # "idle" => ~rx_active /\ ~rx_verified
      BY DEF Handshake, Waiting
    <2>3. rx_pc = "begin" => rx_offset = 0
      BY DEF MemoryInStep
    <2>4. UNCHANGED <<rx_pc, rx_active, rx_verified, rx_offset, rx_size>>
      BY <2>1 DEF receiverVars
    <2>5. capacity' \in Nat /\ ~rx_active' /\ ~rx_verified'
      BY <1>1, <2>1, <2>2, <2>4
    <2>6. rx_pc' = "begin" =>
             rx_offset' = 0 /\ (lifecycle_done' = "done" => capacity' = rx_size')
      BY <2>1, <2>2, <2>3, <2>4
    <2> QED BY <2>1, <2>5, <2>6, MemoryEmptied
  <1>6. CASE BeginAnswered
    <2>1. rx_pc = "begin" /\ UNCHANGED <<rx_session, rx_size, rx_crc, rx_offset, ramVars>>
          /\ ~rx_active /\ ~rx_verified /\ rx_offset = 0
      BY <1>6 DEF BeginAnswered, Handshake, MemoryInStep
    <2>2. CASE lifecycle_done = "done"
      <3>1. rx_active' /\ ~rx_verified' /\ rx_pc' = "run" /\ UNCHANGED offered
        BY <1>6, <2>1, <2>2 DEF BeginAnswered, historyVars
      <3>2. /\ ram = <<>> /\ parser = Fresh /\ capacity = rx_size
        BY <2>1, <2>2 DEF MemoryInStep
      <3>3. rx_session > 0
        BY <2>1 DEF ReceiverInStep, Waiting
      <3>4. rx_crc \in Clips /\ rx_crc = offered[rx_session] /\ rx_size = Size[rx_crc]
        BY <3>3, HeldFields
      <3>5. Bytes(rx_crc, 0, 0) = <<>>
        <4>1. Bytes(rx_crc, 0, 0) \in Seq(Clips \X Nat) /\ Len(Bytes(rx_crc, 0, 0)) = 0
          BY <3>4, BytesFields
        <4> QED BY <4>1, EmptySeq
      <3>6. RamHoldsOffer'
        BY <1>1, <2>1, <3>1, <3>2, <3>4, <3>5 DEF RamHoldsOffer, ramVars
      <3>7. parser'.accepted
        BY <2>1, <3>2, FreshFields DEF ramVars
      <3> QED BY <1>1, <2>1, <3>1, <3>6, <3>7 DEF MemoryInStep, ramVars
    <2>3. CASE lifecycle_done # "done"
      <3>1. rx_active' = FALSE /\ rx_verified' = FALSE /\ rx_pc' = "clear"
        BY <1>6, <2>3 DEF BeginAnswered
      <3> QED BY <2>1, <3>1, MemoryUntouched DEF ramVars
    <2> QED BY <2>2, <2>3
  <1>7. CASE RejectAnswered
    BY <1>7, MemoryUntouched DEF RejectAnswered, ramVars
  <1>8. CASE BeginAgain \/ DataElsewhere \/ FinishAgain \/ RequestIgnored
    <2>1. UNCHANGED <<capacity, ram, parser, rx_session, rx_offset, rx_active, rx_verified,
                      rx_pc, rx_size, lifecycle_done>>
      BY <1>8 DEF BeginAgain, DataElsewhere, FinishAgain, RequestIgnored, ramVars,
                  receiverVars, HandshakeIdle, lifecycleVars
    <2> QED BY <2>1, MemoryUntouched
  <1>9. CASE BeginNew
    <2>1. /\ rx_pc = "run" /\ UNCHANGED <<ramVars, lifecycle_done>> /\ rx_offset' = 0
          /\ rx_active' = FALSE /\ rx_verified' = FALSE
      BY <1>9 DEF BeginNew, Requests, CallMainLoop
    <2>2. lifecycle_done' # "done"
      BY <2>1 DEF Handshake, Waiting
    <2> QED BY <1>1, <2>1, <2>2 DEF MemoryInStep, RamHoldsOffer, ramVars
  <1>10. CASE DataAppended
    <2> DEFINE n == rx_offset + Len(Request.payload)
               held == RamAfter(Request)
               next == ParserAfter(Request)
    <2>1. /\ Requests("data") /\ Current /\ WellPlaced(Request) /\ Request.offset = rx_offset
          /\ Fits(Request) /\ next.accepted
      BY <1>10 DEF DataAppended, Appendable
    <2>2. /\ rx_offset' = n /\ ram' = held /\ parser' = next
          /\ UNCHANGED <<rx_pc, rx_active, rx_verified, rx_session, capacity, offered>>
      BY <1>10 DEF DataAppended
    <2>3. /\ held \in Seq(Clips \X Nat) /\ Len(held) <= capacity /\ held = Bytes(rx_crc, 0, n)
          /\ Len(held) = n /\ next \in Validator /\ next.published <= Len(held)
          /\ next = OneLook[rx_crc][n] /\ capacity = rx_size /\ n \in 1..Size[rx_crc]
      BY <2>1, AppendFields
    <2>4. rx_crc = offered[rx_session] /\ rx_size = Size[rx_crc]
      BY <2>1, NextDataFields
    <2>5. ~rx_verified
      <3> SUFFICES ASSUME rx_verified PROVE FALSE
        OBVIOUS
      <3>1. rx_offset = Size[offered[rx_session]]
        BY DEF MemoryInStep, RamHoldsOffer
      <3>2. Request.offset < rx_size
        BY <2>1 DEF WellPlaced
      <3> QED BY <1>1, <2>1, <2>4, <3>1, <3>2
    <2>6. rx_pc = "run"
      BY <2>1 DEF Requests
    <2> HIDE DEF n, held, next
    <2>7. n # 0 /\ n <= capacity
      <3>1. n \in Nat /\ n > 0 /\ n <= Size[rx_crc]
        <4>1. rx_size \in Nat
          BY <1>1
        <4> QED BY <2>3, <2>4, <4>1
      <3> QED BY <2>3, <2>4, <3>1
    <2>8. RamHoldsOffer'
      BY <2>2, <2>3, <2>4, <2>5, <2>7 DEF RamHoldsOffer
    <2> QED BY <1>1, <2>1, <2>2, <2>3, <2>6, <2>8 DEF MemoryInStep
  <1>11. CASE DataRejected
    <2>1. rx_active' = FALSE /\ rx_verified' = FALSE /\ rx_pc' = "clear" /\ capacity' = capacity
          /\ rx_session' = rx_session /\ rx_offset' = rx_offset
      BY <1>11 DEF DataRejected, Reject, CallMainLoop
    <2>2. CASE Fits(Request)
      <3>1. ram' = RamAfter(Request) /\ parser' = ParserAfter(Request)
        BY <1>11, <2>2 DEF DataRejected
      <3>2. /\ Requests("data") /\ Current /\ WellPlaced(Request) /\ Request.offset = rx_offset
        BY <1>11 DEF DataRejected
      <3>3. /\ ram' \in Seq(Clips \X Nat) /\ Len(ram') <= capacity /\ parser' \in Validator
            /\ parser'.published <= Len(ram')
        BY <2>2, <3>1, <3>2, AppendFields
      <3> QED BY <1>1, <2>1, <3>3 DEF MemoryInStep, RamHoldsOffer
    <2>3. CASE ~Fits(Request)
      <3>1. UNCHANGED <<ram, parser>>
        BY <1>11, <2>3 DEF DataRejected
      <3> QED BY <2>1, <3>1, MemoryUntouched
    <2> QED BY <2>2, <2>3
  <1>12. CASE FinishFirst
    <2>1. UNCHANGED <<ramVars, rx_session, rx_offset>> /\ Current
      BY <1>12 DEF FinishFirst
    <2>2. CASE FinishMatches /\ ClipFinishes
      <3>1. rx_pc' = rx_pc /\ rx_pc = "run" /\ rx_offset = rx_size
        BY <1>12, <2>2 DEF FinishFirst, FinishMatches, Requests
      <3>2. rx_session > 0
        BY <2>1 DEF ReceiverInStep, Current
      <3>3. rx_crc = offered[rx_session] /\ rx_size = Size[rx_crc]
        BY <3>2, HeldFields
      <3>4. rx_offset = capacity
        BY <2>1, <3>1, <3>3 DEF MemoryInStep, RamHoldsOffer, Current
      <3> QED BY <2>1, <3>1, <3>4, MemoryUntouched DEF ramVars, Current
    <2>3. CASE ~(FinishMatches /\ ClipFinishes)
      <3>1. rx_active' = FALSE /\ rx_verified' = FALSE /\ rx_pc' = "clear"
        BY <1>12, <2>3 DEF FinishFirst, Reject, CallMainLoop
      <3> QED BY <2>1, <3>1, MemoryUntouched DEF ramVars
    <2> QED BY <2>2, <2>3
  <1>13. CASE ReceiverTimeout
    BY <1>13, MemoryUntouched DEF ReceiverTimeout, Reject, CallMainLoop, ramVars
  <1>14. CASE \E elapsed, accepted \in BOOLEAN : ReceiverTick(elapsed, accepted)
    BY <1>14, MemoryUntouched DEF ReceiverTick, ramVars
  <1>15. CASE ReceiverSilence
    BY <1>15, MemoryUntouched DEF ReceiverSilence, ramVars, HandshakeIdle, lifecycleVars
  <1>16. CASE ReceiverReset
    BY <1>16, MemoryEmptied DEF ReceiverReset
  <1> QED BY <1>3, <1>4, <1>5, <1>6, <1>7, <1>8, <1>9, <1>10, <1>11, <1>12, <1>13, <1>14,
             <1>15, <1>16, WhoSteps DEF ReceiverSteps, ReceiverMain, ReceiverWorker

-----------------------------------------------------------------------------
(* The theorems.                                                            *)

LEMMA InvariantAtStart ==
    ASSUME Init
    PROVE  IInv
  <1> USE DEF Init
  <1>1. SenderBusy
    <2>1. commands \in Seq(Commands) /\ Starts = {} /\ DefaultWindow \in Nat
      BY EmptySeq, RadioConstants DEF Starts
    <2> QED BY <2>1 DEF SenderBusy, Boards
  <1>2. Handshake
    BY DEF Handshake, Waiting, Boards
  <1>3. History
    <2>1. offered \in Seq(Clips) /\ Len(offered) = 0
      BY EmptySeq
    <2>2. MaxSessions \in Nat /\ MaxResets \in Nat
      BY RadioConstants
    <2> QED BY <2>1, <2>2 DEF History, Sessions
  <1>4. SenderInStep
    <2>1. WindowOK(window)
      BY NewWindowOK, RadioConstants
    <2>2. Len(offered) = 0
      BY EmptySeq
    <2> QED BY <2>1, <2>2 DEF SenderInStep
  <1>5. ReceiverInStep
    <2>1. Len(offered) = 0
      BY EmptySeq
    <2> QED BY <2>1 DEF ReceiverInStep, Waiting
  <1>6. PacketsInStep
    BY EmptySeq DEF PacketsInStep, Boards
  <1>7. MemoryInStep
    <2>1. ram \in Seq(Clips \X Nat) /\ Len(ram) = 0
      BY EmptySeq
    <2> QED BY <2>1, FreshFields DEF MemoryInStep, RamHoldsOffer
  <1> QED BY <1>1, <1>2, <1>3, <1>4, <1>5, <1>6, <1>7 DEF IInv

LEMMA InvariantKept ==
    ASSUME IInv, [Next]_vars
    PROVE  IInv' /\ Grown
  <1>1. Grown /\ History'
    BY HistoryKept
  <1>2. SenderBusy'
    BY SenderBusyKept, HistoryFields DEF IInv
  <1>3. Handshake'
    BY HandshakeKept DEF IInv, SenderBusy
  <1>4. SenderInStep'
    BY <1>1, SenderInStepKept
  <1>5. ReceiverInStep'
    BY <1>1, ReceiverInStepKept
  <1>6. PacketsInStep'
    BY <1>1, <1>5, PacketsInStepKept
  <1>7. MemoryInStep'
    BY <1>1, MemoryInStepKept
  <1> QED BY <1>1, <1>2, <1>3, <1>4, <1>5, <1>6, <1>7 DEF IInv

\* The invariant holds in every state of every run.
THEOREM Invariant == Spec => []IInv
  <1>1. Init => IInv
    BY InvariantAtStart
  <1>2. IInv /\ [Next]_vars => IInv'
    BY InvariantKept
  <1> QED BY <1>1, <1>2, PTL DEF Spec

\* Every variable keeps its type: the counters never pass the sessions there were, and
\* the parser never publishes beyond the memory it was given.
LEMMA InvariantTypes ==
    ASSUME IInv
    PROVE  TypeOK
  <1> USE DEF IInv
  <1>1. /\ offered \in Seq(Clips) /\ Len(offered) \in Nat /\ Len(offered) <= MaxSessions
        /\ MaxSessions \in Nat /\ stored \in [Sessions -> Nat]
        /\ \A s \in 1..Len(offered) : s \in Sessions
    BY HistoryFields
  <1>2. /\ active \in [Boards -> BOOLEAN] /\ sending \in [Boards -> BOOLEAN]
        /\ main_pc \in {"idle", "claimed"} /\ commands \in Seq(Commands)
        /\ configured_window \in Nat
        /\ phase \in {"idle", "begin", "data", "finish"} /\ tx_stale \in BOOLEAN
    BY DEF SenderBusy
  <1>3. /\ DOMAIN air = Boards /\ DOMAIN queue = Boards
        /\ air["sender"] \in Seq(Requested) /\ queue["receiver"] \in Seq(Requested)
        /\ air["receiver"] \in Seq(Answered) /\ queue["sender"] \in Seq(Answered)
        /\ reply \subseteq Answered
    <2>1. Askeds \subseteq Requested /\ Givens \subseteq Answered
      BY DEF Askeds, Givens
    <2> QED BY <2>1, SeqWidens DEF PacketsInStep
  <1>4. /\ session \in 0..MaxSessions /\ source \in Clips \cup {NoClip} /\ WindowType(window)
    <2>1. session \in 0..Len(offered)
      BY DEF SenderInStep
    <2> QED BY <1>1, <2>1 DEF SenderInStep, WindowOK
  <1>5. /\ rx_session \in 0..MaxSessions /\ rx_size \in Nat /\ rx_crc \in Clips \cup {NoClip}
        /\ rx_offset \in Nat /\ rx_last_ack \in Nat
    <2>1. rx_session \in 0..Len(offered)
      BY DEF ReceiverInStep
    <2> QED BY <1>1, <2>1 DEF ReceiverInStep
  <1>6. /\ rx_pc \in {"run", "begin", "clear", "tick_clear", "tick"}
        /\ rx_active \in BOOLEAN /\ rx_verified \in BOOLEAN /\ rx_stale \in BOOLEAN
        /\ player_request \in {"idle", "begin", "clear"}
        /\ lifecycle_done \in {"empty", "done", "failed"}
    BY DEF Handshake
  <1>7. /\ capacity \in Nat /\ ram \in Seq(Clips \X Nat)
        /\ parser \in Validator /\ parser.published <= capacity
    <2>1. /\ capacity \in Nat /\ ram \in Seq(Clips \X Nat) /\ Len(ram) <= capacity
          /\ parser \in Validator /\ parser.published <= Len(ram)
      BY DEF MemoryInStep
    <2>2. Len(ram) \in Nat /\ parser.published \in Nat
      BY <2>1, LenProperties, ValidatorFields
    <2> QED BY <2>1, <2>2
  <1>8. verified \subseteq Sessions /\ sent \subseteq Sessions /\ resets \in 0..MaxResets
    BY <1>1 DEF History
  <1> QED BY <1>1, <1>2, <1>3, <1>4, <1>5, <1>6, <1>7, <1>8 DEF TypeOK

\* Every variable of the two boards and the link keeps its type, and the worker and
\* the main loop never miss each other.
THEOREM HandshakeStaysInStep == Spec => []HandshakeInStep
  <1>1. IInv => HandshakeInStep
    BY InvariantTypes DEF IInv, Handshake, Waiting, HandshakeInStep
  <1> QED BY <1>1, Invariant, PTL

\* Radio busy is neither lost nor left behind, on either board.
THEOREM BusyStaysTruthful == Spec => []BusyIsTruthful
  <1>1. IInv => BusyIsTruthful
    BY DEF IInv, SenderBusy, Handshake, BusyIsTruthful
  <1> QED BY <1>1, Invariant, PTL

\* The window counts nothing as acknowledged that the receiver did not store.
THEOREM AcknowledgedStaysStored == Spec => []AcknowledgedWasStored
  <1>1. IInv => AcknowledgedWasStored
    BY DEF IInv, SenderInStep, AcknowledgedWasStored
  <1> QED BY <1>1, Invariant, PTL

\* The receiver's memory is always the prefix of the clip its session offers, and its
\* parser stands where one look at that prefix would put it.
THEOREM RamStaysOffer == Spec => []RamHoldsOffer
  <1>1. IInv => RamHoldsOffer
    BY DEF IInv, MemoryInStep
  <1> QED BY <1>1, Invariant, PTL

-----------------------------------------------------------------------------
(* The transfer implements its promise.                                     *)

LEMMA VerifiedIsWhole ==
    ASSUME IInv, Current, FinishMatches
    PROVE  /\ rx_session \in 1..Len(offered) /\ offered[rx_session] \in Wholes
           /\ stored[rx_session] = Size[offered[rx_session]]
  <1> USE DEF IInv
  <1>1. rx_active \/ rx_verified
    BY DEF Current
  <1>2. rx_session > 0
    BY <1>1 DEF ReceiverInStep
  <1>3. /\ rx_session \in 1..Len(offered) /\ rx_crc \in Clips /\ rx_crc = offered[rx_session]
        /\ rx_size = Size[rx_crc] /\ rx_size \in Nat /\ rx_offset <= stored[rx_session]
        /\ stored[rx_session] \in Nat /\ stored[rx_session] <= rx_size
    BY <1>2, HeldFields
  <1>4. rx_offset = Size[rx_crc] /\ Size[rx_crc] \in Nat /\ Size[rx_crc] > 0
        /\ StreamType(Stream[rx_crc]) /\ Stream[rx_crc].size = Size[rx_crc]
        /\ Size[rx_crc] >= HeaderSize
    BY <1>3, ClipFields DEF FinishMatches
  <1>5. parser.accepted /\ parser = OneLook[rx_crc][Size[rx_crc]]
    BY <1>1, <1>3, <1>4 DEF MemoryInStep, RamHoldsOffer
  <1>6. advance(Fresh, Stream[rx_crc].size, Stream[rx_crc]).accepted
    <2>1. Size[rx_crc] \in 1..Size[rx_crc]
      BY <1>4
    <2>2. OneLook[rx_crc][Size[rx_crc]] = advance(Fresh, Size[rx_crc], Stream[rx_crc])
      BY <1>3, <2>1, OneLookMeans
    <2> QED BY <1>4, <1>5, <2>2
  <1>7. WellFormed(Stream[rx_crc])
    BY <1>4, <1>6, VerdictIsRight
  <1>8. stored[rx_session] = Size[rx_crc]
    BY <1>3, <1>4
  <1> QED BY <1>3, <1>7, <1>8 DEF Wholes

LEMMA StepKeepsPromise ==
    ASSUME IInv, IInv', [Next]_vars
    PROVE  [Promise!Next]_(Promise!promiseVars)
  <1> USE DEF IInv
  <1>1. CASE UNCHANGED <<offered, stored, verified, sent>>
    BY <1>1 DEF Promise!promiseVars
  <1>2. CASE Link \/ UNCHANGED vars
    BY <1>1, <1>2, LinkLeavesBoards DEF vars, historyVars
  <1>3. CASE SenderMain \/ Silence \/ ReceiverMain \/ Reset
    BY <1>1, <1>3 DEF SenderMain, StartClaim, StartEnqueue, WindowCommand, Silence,
                      SenderSilence, ReceiverSilence, ReceiverMain, MainLoopClear,
                      MainLoopBegin, Reset, SenderReset, ReceiverReset, historyVars
  <1>4. CASE Configure \/ BeginSendFails \/ ReplyError \/ ReplyBegun \/ ReplyData \/ ReplyIgnored
             \/ SenderTimeout \/ SendControl
             \/ \E elapsed, accepted \in BOOLEAN : SendData(elapsed, accepted)
    BY <1>1, <1>4 DEF Configure, BeginSendFails, ReplyError, ReplyBegun, ReplyData,
                      ReplyIgnored, SenderTimeout, SendControl, SendData, historyVars
  <1>5. CASE BeginAnswered \/ RejectAnswered \/ BeginAgain \/ BeginNew \/ DataElsewhere
             \/ DataRejected \/ FinishAgain \/ RequestIgnored \/ ReceiverTimeout
             \/ \E elapsed, accepted \in BOOLEAN : ReceiverTick(elapsed, accepted)
    BY <1>1, <1>5 DEF BeginAnswered, RejectAnswered, BeginAgain, BeginNew, DataElsewhere,
                      DataRejected, FinishAgain, RequestIgnored, ReceiverTimeout, ReceiverTick,
                      historyVars
  <1>6. CASE \E clip \in Clips : BeginSend(clip)
    <2> PICK clip \in Clips : BeginSend(clip)
      BY <1>6
    <2>1. Promise!Offer(clip)
      BY DEF BeginSend, Promise!Offer
    <2> QED BY <2>1 DEF Promise!Next
  <1>7. CASE ReplyFinished
    <2>1. Answer.session \in verified /\ Answer.session = session /\ phase # "idle"
      BY <1>7, AnswerTaken, GivenFields DEF ReplyFinished, Answers
    <2>2. session = Len(offered)
      BY <2>1, SendingFields
    <2>3. Promise!Report
      BY <1>7, <2>1, <2>2 DEF ReplyFinished, Promise!Report
    <2> QED BY <2>3 DEF Promise!Next
  <1>8. CASE DataAppended
    <2> DEFINE n == rx_offset + Len(Request.payload)
    <2>1. /\ rx_session \in 1..Len(offered) /\ rx_session \in Sessions
          /\ n \in Nat /\ n > 0 /\ n <= Size[offered[rx_session]]
          /\ Size[offered[rx_session]] \in Nat
      <3>1. /\ rx_session \in 1..Len(offered) /\ rx_session \in Sessions
            /\ rx_crc \in Clips /\ rx_crc = offered[rx_session] /\ rx_size = Size[rx_crc]
            /\ Len(Request.payload) \in Nat /\ Len(Request.payload) > 0 /\ rx_offset \in Nat
            /\ rx_offset + Len(Request.payload) <= rx_size
        BY <1>8, NextDataFields DEF DataAppended
      <3> QED BY <3>1, ClipFields
    <2>2. /\ stored' = [stored EXCEPT ![rx_session] = Larger(@, n)]
          /\ UNCHANGED <<offered, verified, sent>>
      BY <1>8 DEF DataAppended
    <2> HIDE DEF n
    <2>3. stored \in [Sessions -> Nat] /\ stored[rx_session] \in Nat
      BY <2>1, HistoryFields
    <2>4. CASE stored[rx_session] < n
      <3>1. Larger(stored[rx_session], n) = n /\ n \in 1..Size[offered[rx_session]]
        BY <2>1, <2>3, <2>4 DEF Larger
      <3>2. Promise!Store(rx_session, n)
        BY <2>1, <2>2, <2>4, <3>1 DEF Promise!Store
      <3> QED BY <2>1, <3>1, <3>2 DEF Promise!Next
    <2>5. CASE ~(stored[rx_session] < n)
      <3>1. Larger(stored[rx_session], n) = stored[rx_session]
        BY <2>1, <2>3, <2>5 DEF Larger
      <3>2. stored' = stored
        BY <2>2, <2>3, <3>1
      <3> QED BY <1>1, <2>2, <3>2
    <2> QED BY <2>4, <2>5
  <1>9. CASE FinishFirst
    <2>1. CASE FinishMatches /\ ClipFinishes
      <3>1. /\ rx_session \in 1..Len(offered) /\ offered[rx_session] \in Wholes
            /\ stored[rx_session] = Size[offered[rx_session]]
        BY <1>9, <2>1, VerifiedIsWhole DEF FinishFirst
      <3>2. verified' = verified \cup {rx_session} /\ UNCHANGED <<offered, stored, sent>>
        BY <1>9, <2>1 DEF FinishFirst
      <3>3. Promise!Verify(rx_session)
        BY <3>1, <3>2 DEF Promise!Verify
      <3> QED BY <3>1, <3>3 DEF Promise!Next
    <2>2. CASE ~(FinishMatches /\ ClipFinishes)
      BY <1>1, <1>9, <2>2 DEF FinishFirst
    <2> QED BY <2>1, <2>2
  <1> QED BY <1>2, <1>3, <1>4, <1>5, <1>6, <1>7, <1>8, <1>9
          DEF Next, SenderWorker, ReceiverWorker

\* The transfer implements VerifiedTransfer: a clip is logged verified only when the
\* receiver holds all of it and it is well-formed, and logged sent only for the latest
\* offer and only after that.
THEOREM TransferKeepsPromise == Spec => KeepsPromise
  <1>1. Init => Promise!Init
    BY DEF Init, Promise!Init
  <1>2. IInv /\ IInv' /\ [Next]_vars => [Promise!Next]_(Promise!promiseVars)
    BY StepKeepsPromise
  <1> QED BY <1>1, <1>2, Invariant, PTL DEF Spec, KeepsPromise, Promise!Spec

-----------------------------------------------------------------------------
(* Without a fault the receiver goes on.                                    *)

Dated(q) == q \in Seq({p \in Requested : p.session \in Nat})

LEMMA OrderedSend ==
    ASSUME NEW n \in Nat, NEW q, Dated(q), NEW a, Dated(a), Ordered(n, q, a),
           NEW p, p \in Requested, p.session \in Nat, n <= p.session,
           \A i \in 1..Len(q) : q[i].session <= p.session,
           \A i \in 1..Len(a) : a[i].session <= p.session
    PROVE  Ordered(n, q, Append(a, p))
  <1> DEFINE b == Append(a, p)
  <1>1. /\ Len(a) \in Nat /\ Len(b) = Len(a) + 1 /\ b[Len(a) + 1] = p
        /\ \A i \in 1..Len(a) : b[i] = a[i] /\ a[i].session \in Nat
    <2>1. p \in {r \in Requested : r.session \in Nat}
      OBVIOUS
    <2> QED BY <2>1, AppendProperties, ElementOfSeq, LenProperties DEF Dated
  <1> HIDE DEF b
  <1>2. Sorted(b)
    <2> SUFFICES ASSUME NEW i \in 1..Len(b), NEW j \in 1..Len(b), i <= j
                 PROVE  b[i].session <= b[j].session
      BY DEF Sorted
    <2>1. CASE j = Len(a) + 1
      BY <1>1, <2>1
    <2>2. CASE j # Len(a) + 1
      <3>1. i \in 1..Len(a) /\ j \in 1..Len(a)
        BY <1>1, <2>2
      <3>2. a[i].session <= a[j].session
        BY <3>1 DEF Ordered, Sorted
      <3> QED BY <1>1, <3>1, <3>2
    <2> QED BY <2>1, <2>2
  <1>3. AtLeast(b, n)
    BY <1>1 DEF Ordered, AtLeast
  <1>4. \A i \in 1..Len(q) : AtLeast(b, q[i].session)
    BY <1>1 DEF Ordered, AtLeast
  <1>5. Ordered(n, q, b)
    BY <1>2, <1>3, <1>4 DEF Ordered
  <1> QED BY <1>5 DEF b

LEMMA TailDated ==
    ASSUME NEW q, Dated(q), q # <<>>
    PROVE  /\ Head(q) \in Requested /\ Head(q).session \in Nat /\ Head(q) = q[1]
           /\ Dated(Tail(q)) /\ Len(q) \in Nat /\ Len(q) > 0 /\ Len(Tail(q)) = Len(q) - 1
           /\ \A i \in 1..Len(Tail(q)) : Tail(q)[i] = q[i + 1] /\ i + 1 \in 1..Len(q)
  <1> DEFINE P == {p \in Requested : p.session \in Nat}
             t == Tail(q)
  <1>1. q \in Seq(P)
    BY DEF Dated
  <1>2. /\ Head(q) \in P /\ Head(q) = q[1] /\ t \in Seq(P) /\ Len(q) \in Nat /\ Len(q) > 0
        /\ Len(t) = Len(q) - 1 /\ \A i \in 1..Len(t) : t[i] = q[i + 1]
    <2> HIDE DEF P
    <2> QED BY <1>1, HeadTailProperties, EmptySeq, LenProperties
  <1> HIDE DEF t
  <1>3. \A i \in 1..Len(t) : i + 1 \in 1..Len(q)
    BY <1>2
  <1> QED BY <1>2, <1>3 DEF Dated, t

LEMMA OrderedDrop ==
    ASSUME NEW n \in Nat, NEW q, NEW a, Dated(a), a # <<>>, Ordered(n, q, a)
    PROVE  Ordered(n, q, Tail(a)) /\ AtLeast(Tail(a), Head(a).session)
  <1> DEFINE t == Tail(a)
  <1>1. /\ Head(a) = a[1] /\ Len(a) \in Nat /\ Len(a) > 0 /\ Len(t) = Len(a) - 1
        /\ \A i \in 1..Len(t) : t[i] = a[i + 1] /\ i + 1 \in 1..Len(a)
    BY TailDated
  <1> HIDE DEF t
  <1>2. Sorted(t) /\ AtLeast(t, n) /\ AtLeast(t, Head(a).session)
    <2>1. \A i, j \in 1..Len(a) : i <= j => a[i].session <= a[j].session
      BY DEF Ordered, Sorted
    <2>2. ASSUME NEW i \in 1..Len(t), NEW j \in 1..Len(t), i <= j
          PROVE  t[i].session <= t[j].session
      <3>1. i + 1 <= j + 1 /\ t[i] = a[i + 1] /\ t[j] = a[j + 1]
            /\ i + 1 \in 1..Len(a) /\ j + 1 \in 1..Len(a)
        BY <1>1, <2>2
      <3> QED BY <2>1, <3>1
    <2>3. ASSUME NEW i \in 1..Len(t) PROVE Head(a).session <= t[i].session
      <3>1. 1 <= i + 1 /\ 1 \in 1..Len(a) /\ i + 1 \in 1..Len(a) /\ t[i] = a[i + 1]
        BY <1>1, <2>3
      <3>2. a[1].session <= a[i + 1].session
        BY <2>1, <3>1
      <3> QED BY <1>1, <3>1, <3>2
    <2>4. AtLeast(t, n)
      BY <1>1 DEF Ordered, AtLeast
    <2> QED BY <2>2, <2>3, <2>4 DEF Sorted, AtLeast
  <1>3. \A i \in 1..Len(q) : AtLeast(t, q[i].session)
    BY <1>1 DEF Ordered, AtLeast
  <1>4. Ordered(n, q, t) /\ AtLeast(t, Head(a).session)
    BY <1>2, <1>3 DEF Ordered
  <1> QED BY <1>4 DEF t

LEMMA OrderedTake ==
    ASSUME NEW n \in Nat, NEW q, Dated(q), q # <<>>, NEW a, Ordered(n, q, a)
    PROVE  /\ Ordered(n, Tail(q), a) /\ Ordered(Head(q).session, Tail(q), a)
           /\ n <= Head(q).session
  <1> DEFINE t == Tail(q)
  <1>1. /\ Head(q) = q[1] /\ Len(q) \in Nat /\ Len(q) > 0 /\ Len(t) = Len(q) - 1
        /\ \A i \in 1..Len(t) : t[i] = q[i + 1] /\ i + 1 \in 1..Len(q)
    BY TailDated
  <1> HIDE DEF t
  <1>2. Sorted(t) /\ AtLeast(t, n) /\ AtLeast(t, Head(q).session)
    <2>1. \A i, j \in 1..Len(q) : i <= j => q[i].session <= q[j].session
      BY DEF Ordered, Sorted
    <2>2. ASSUME NEW i \in 1..Len(t), NEW j \in 1..Len(t), i <= j
          PROVE  t[i].session <= t[j].session
      <3>1. i + 1 <= j + 1 /\ t[i] = q[i + 1] /\ t[j] = q[j + 1]
            /\ i + 1 \in 1..Len(q) /\ j + 1 \in 1..Len(q)
        BY <1>1, <2>2
      <3> QED BY <2>1, <3>1
    <2>3. ASSUME NEW i \in 1..Len(t) PROVE Head(q).session <= t[i].session
      <3>1. 1 <= i + 1 /\ 1 \in 1..Len(q) /\ i + 1 \in 1..Len(q) /\ t[i] = q[i + 1]
        BY <1>1, <2>3
      <3>2. q[1].session <= q[i + 1].session
        BY <2>1, <3>1
      <3> QED BY <1>1, <3>1, <3>2
    <2>4. AtLeast(t, n)
      BY <1>1 DEF Ordered, AtLeast
    <2> QED BY <2>2, <2>3, <2>4 DEF Sorted, AtLeast
  <1>3. \A i \in 1..Len(t) : AtLeast(a, t[i].session)
    BY <1>1 DEF Ordered
  <1>4. AtLeast(a, Head(q).session) /\ n <= Head(q).session
    BY <1>1 DEF Ordered, AtLeast
  <1>5. Ordered(n, t, a) /\ Ordered(Head(q).session, t, a)
    BY <1>2, <1>3, <1>4 DEF Ordered
  <1> QED BY <1>4, <1>5 DEF t

LEMMA OrderedArrive ==
    ASSUME NEW n \in Nat, NEW q, Dated(q), NEW a, Ordered(n, q, a),
           NEW p, p \in Requested, p.session \in Nat, n <= p.session, AtLeast(a, p.session),
           \A i \in 1..Len(q) : q[i].session <= p.session
    PROVE  /\ Ordered(n, Enqueued(q, p), a) /\ Dated(Enqueued(q, p))
           /\ \A i \in 1..Len(Enqueued(q, p)) : Enqueued(q, p)[i].session <= p.session
  <1> DEFINE b == Append(q, p)
  <1>1. /\ Len(q) \in Nat /\ Len(b) = Len(q) + 1 /\ b[Len(q) + 1] = p /\ Dated(b)
        /\ \A i \in 1..Len(q) : b[i] = q[i] /\ q[i].session \in Nat
    <2>1. p \in {r \in Requested : r.session \in Nat}
      OBVIOUS
    <2> QED BY <2>1, AppendProperties, ElementOfSeq, LenProperties DEF Dated
  <1> HIDE DEF b
  <1>2. Sorted(b)
    <2> SUFFICES ASSUME NEW i \in 1..Len(b), NEW j \in 1..Len(b), i <= j
                 PROVE  b[i].session <= b[j].session
      BY DEF Sorted
    <2>1. CASE j = Len(q) + 1
      BY <1>1, <2>1
    <2>2. CASE j # Len(q) + 1
      <3>1. i \in 1..Len(q) /\ j \in 1..Len(q)
        BY <1>1, <2>2
      <3>2. q[i].session <= q[j].session
        BY <3>1 DEF Ordered, Sorted
      <3> QED BY <1>1, <3>1, <3>2
    <2> QED BY <2>1, <2>2
  <1>3. /\ AtLeast(b, n) /\ \A i \in 1..Len(b) : b[i].session <= p.session
    BY <1>1, SMTT(30) DEF Ordered, AtLeast
  <1>4. \A i \in 1..Len(b) : AtLeast(a, b[i].session)
    BY <1>1 DEF Ordered
  <1>5. Ordered(n, b, a)
    BY <1>2, <1>3, <1>4 DEF Ordered
  <1> QED BY <1>1, <1>3, <1>5 DEF Enqueued, b

LEMMA AskedsDated ==
    ASSUME IInv, NEW q \in Seq(Askeds)
    PROVE  Dated(q) /\ \A i \in 1..Len(q) : q[i].session \in Nat /\ q[i].session <= Len(offered)
  <1>1. \A p \in Askeds : p \in Requested /\ p.session \in Nat /\ p.session <= Len(offered)
    <2>1. \A p \in Askeds : p \in Requested
      BY DEF Askeds
    <2>2. MaxSessions \in Nat /\ Len(offered) \in Nat
      BY HistoryFields DEF IInv
    <2>3. \A p \in Askeds : p.session \in 1..Len(offered)
      BY AskedFields DEF IInv
    <2> QED BY <2>1, <2>2, <2>3
  <1>2. Askeds \subseteq {p \in Requested : p.session \in Nat}
    BY <1>1
  <1>3. \A i \in 1..Len(q) : q[i] \in Askeds
    BY ElementOfSeq
  <1> QED BY <1>1, <1>2, <1>3, SeqWidens DEF Dated

LEMMA OrderKept ==
    ASSUME IInv, InOrder, [Next]_vars, resets' = resets
    PROVE  InOrder'
  <1> USE DEF IInv
  <1> DEFINE q == queue["receiver"]
             a == air["sender"]
             n == rx_session
  <1>1. /\ DOMAIN air = Boards /\ DOMAIN queue = Boards
        /\ q \in Seq(Askeds) /\ a \in Seq(Askeds) /\ active \in [Boards -> BOOLEAN]
        /\ n \in Nat /\ Ordered(n, q, a) /\ Len(offered) \in Nat /\ n <= Len(offered)
        /\ resets \in Nat
    <2>1. rx_session \in 0..Len(offered) /\ Len(offered) \in Nat
      BY HistoryFields DEF ReceiverInStep
    <2>2. resets \in Nat
      BY DEF History
    <2> QED BY <2>1, <2>2 DEF PacketsInStep, SenderBusy, InOrder
  <1>2. /\ Dated(q) /\ \A i \in 1..Len(q) : q[i].session \in Nat /\ q[i].session <= Len(offered)
    BY <1>1, AskedsDated
  <1>3. /\ Dated(a) /\ \A i \in 1..Len(a) : a[i].session \in Nat /\ a[i].session <= Len(offered)
    BY <1>1, AskedsDated
  <1> SUFFICES Ordered(n', q', a')
    BY DEF InOrder
  <1>4. ASSUME n' = n, q' = q, a' = a PROVE Ordered(n', q', a')
    BY <1>1, <1>4
  <1> HIDE DEF n, q, a
  <1>5. ASSUME Take("sender"), UNCHANGED receiverVars PROVE Ordered(n', q', a')
    BY <1>1, <1>4, <1>5 DEF Take, receiverVars, Boards, n, q, a
  <1>6. ASSUME Take("receiver"), rx_session' = rx_session PROVE Ordered(n', q', a')
    <2>1. q # <<>> /\ q' = Tail(q) /\ a' = a /\ n' = n
      BY <1>1, <1>6 DEF Take, Boards, n, q, a
    <2> QED BY <1>1, <1>2, <2>1, OrderedTake
  <1>7. ASSUME NEW p \in Askeds, p.session = Len(offered), Transmit("sender", p),
               UNCHANGED receiverVars
        PROVE  Ordered(n', q', a')
    <2>1. a' = Append(a, p) /\ q' = q /\ n' = n
      BY <1>1, <1>7 DEF Transmit, Boards, receiverVars, n, q, a
    <2>2. p \in Requested
      BY DEF Askeds
    <2>3. Ordered(n, q, Append(a, p))
      BY <1>1, <1>2, <1>3, <1>7, <2>2, OrderedSend
    <2> QED BY <2>1, <2>3
  <1>8. CASE Link
    <2>1. UNCHANGED receiverVars
      BY <1>8, LinkLeavesBoards
    <2>2. CASE \E b \in Boards : OnSend(b)
      BY <1>4, <2>1, <2>2 DEF OnSend, linkVars, receiverVars, n, q, a
    <2>3. CASE \E copies \in Copies : OnReceive("receiver", copies)
      <3> PICK copies \in Copies : OnReceive("receiver", copies)
        BY <2>3
      <3> DEFINE p == Head(a)
                 once == Enqueued(q, p)
      <3>1. a # <<>> /\ a' = Tail(a) /\ n' = n /\ q' \in {q, once, Enqueued(once, p)}
        BY <1>1, <2>1 DEF OnReceive, Peer, Boards, receiverVars, n, q, a
      <3>2. Ordered(n, q, Tail(a)) /\ AtLeast(Tail(a), p.session)
        BY <1>1, <1>3, <3>1, OrderedDrop
      <3>3. p \in Requested /\ p.session \in Nat /\ p = a[1] /\ 1 \in 1..Len(a)
        <4>1. p \in Requested /\ p.session \in Nat /\ p = a[1] /\ Len(a) \in Nat /\ Len(a) > 0
          BY <1>3, <3>1, TailDated
        <4> HIDE DEF p
        <4> QED BY <4>1
      <3>4. n <= p.session /\ \A i \in 1..Len(q) : q[i].session <= p.session
        BY <1>1, <3>3 DEF Ordered, AtLeast
      <3> HIDE DEF p, once
      <3>5. /\ Ordered(n, once, Tail(a)) /\ Dated(once)
            /\ \A i \in 1..Len(once) : once[i].session <= p.session
        BY <1>1, <1>2, <3>2, <3>3, <3>4, OrderedArrive DEF once
      <3>6. Ordered(n, Enqueued(once, p), Tail(a))
        BY <1>1, <3>2, <3>3, <3>4, <3>5, OrderedArrive
      <3> QED BY <3>1, <3>2, <3>5, <3>6
    <2>4. CASE \E copies \in Copies : OnReceive("sender", copies)
      <3>1. n' = n /\ q' = q /\ a' = a
        BY <1>1, <2>1, <2>4 DEF OnReceive, Peer, Boards, receiverVars, n, q, a
      <3> QED BY <1>4, <3>1
    <2> QED BY <1>8, <2>2, <2>3, <2>4 DEF Link, Boards
  <1>9. CASE UNCHANGED vars
    BY <1>4, <1>9 DEF vars, linkVars, receiverVars, n, q, a
  <1>10. CASE SenderMain \/ Silence \/ ReceiverMain \/ Configure \/ BeginSendFails
              \/ (\E clip \in Clips : BeginSend(clip)) \/ SenderTimeout \/ BeginAnswered
              \/ RejectAnswered \/ ReceiverTimeout
    <2>1. UNCHANGED <<air, queue, rx_session>>
      BY <1>10 DEF SenderMain, StartClaim, StartEnqueue, WindowCommand, Silence,
                   SenderSilence, ReceiverSilence, ReceiverMain, MainLoopClear, MainLoopBegin,
                   Configure, BeginSendFails, BeginSend, SenderTimeout, linkVars, receiverVars,
                   BeginAnswered, RejectAnswered, ReceiverTimeout
    <2> QED BY <1>4, <2>1 DEF n, q, a
  <1>11. CASE ReplyError \/ ReplyBegun \/ ReplyData \/ ReplyFinished \/ ReplyIgnored
    BY <1>5, <1>11 DEF ReplyError, ReplyBegun, ReplyData, ReplyFinished, ReplyIgnored,
                       SenderRest
  <1>12. CASE SendControl
    <2> DEFINE p == Control(phase, session, source)
    <2>1. p \in Askeds /\ session = Len(offered)
      BY <1>12, ControlMade, SendingFields DEF SendControl
    <2>2. p.session = session
      BY DEF Control
    <2>3. Transmit("sender", p) /\ UNCHANGED receiverVars
      BY <1>12 DEF SendControl
    <2> HIDE DEF p
    <2> QED BY <1>7, <2>1, <2>2, <2>3
  <1>13. CASE \E elapsed, accepted \in BOOLEAN : SendData(elapsed, accepted)
    <2> PICK elapsed \in BOOLEAN, accepted \in BOOLEAN : SendData(elapsed, accepted)
      BY <1>13
    <2> DEFINE w == TickWindow(elapsed)
               p == Data(session, source, w.next, Count(w))
    <2>1. phase = "data" /\ UNCHANGED receiverVars
      BY DEF SendData
    <2>2. \/ Count(w) > 0 /\ Transmit("sender", p)
          \/ UNCHANGED linkVars
      BY DEF SendData
    <2>3. Count(w) > 0 => p \in Askeds
      BY <2>1, DataMade
    <2>4. p.session = Len(offered)
      BY <2>1, SendingFields DEF Data
    <2> HIDE DEF w, p
    <2> QED BY <1>4, <1>7, <2>1, <2>2, <2>3, <2>4 DEF linkVars, receiverVars, n, q, a
  <1>14. CASE BeginNew
    <2>1. Take("receiver") /\ rx_session' = Request.session
      BY <1>14 DEF BeginNew
    <2>2. q # <<>> /\ q' = Tail(q) /\ a' = a /\ n' = Head(q).session
      BY <1>1, <2>1 DEF Take, Boards, Request, n, q, a
    <2> QED BY <1>1, <1>2, <2>2, OrderedTake
  <1>15. CASE BeginAgain \/ DataElsewhere \/ DataAppended \/ DataRejected \/ FinishAgain
              \/ FinishFirst \/ RequestIgnored
    BY <1>6, <1>15 DEF BeginAgain, DataElsewhere, DataAppended, DataRejected, FinishAgain,
                       FinishFirst, RequestIgnored, receiverVars
  <1>16. CASE \E elapsed, accepted \in BOOLEAN : ReceiverTick(elapsed, accepted)
    <2> PICK elapsed \in BOOLEAN, accepted \in BOOLEAN : ReceiverTick(elapsed, accepted)
      BY <1>16
    <2>1. queue' = queue /\ rx_session' = rx_session /\ air'["sender"] = air["sender"]
      BY <1>1 DEF ReceiverTick, Transmit, linkVars, Boards
    <2> QED BY <1>4, <2>1 DEF n, q, a
  <1>17. CASE Reset
    BY <1>1, <1>17 DEF Reset, SenderReset, ReceiverReset
  <1>18. CASE SenderWorker
    BY <1>10, <1>11, <1>12, <1>13, <1>18 DEF SenderWorker
  <1>19. CASE ReceiverWorker
    BY <1>10, <1>14, <1>15, <1>16, <1>19 DEF ReceiverWorker
  <1> QED BY <1>8, <1>9, <1>10, <1>17, <1>18, <1>19 DEF Next

LEMMA SoundIsAccepted ==
    ASSUME NEW stream, StreamType(stream), stream.size >= HeaderSize, WellFormed(stream),
           NEW n \in Nat, n <= stream.size
    PROVE  advance(Fresh, n, stream).accepted
  <1>1. stream.size \in Nat /\ stream.size <= stream.size
    BY StreamFields
  <1>2. advance(Fresh, stream.size, stream).accepted
    BY VerdictIsRight
  <1> QED BY <1>1, <1>2, CutsAreUnseen

LEMMA AcceptedIsPublished ==
    ASSUME NEW stream, StreamType(stream), advance(Fresh, stream.size, stream).accepted
    PROVE  advance(Fresh, stream.size, stream).published = stream.size
  <1> DEFINE size == stream.size
             read == Read(Fresh, size, stream)
  <1>1. size \in Nat /\ size <= size
    BY StreamFields
  <1>2. /\ read \in Validator
        /\ advance(Fresh, size, stream) =
              (IF size = stream.size /\ ~Finished(read, stream) THEN Refused(read) ELSE read)
    <2> HIDE DEF size
    <2> QED BY <1>1, FirstAdvance DEF size
  <1>3. Finished(read, stream)
    <2> SUFFICES ASSUME ~Finished(read, stream) PROVE FALSE
      OBVIOUS
    <2> QED BY <1>2, RefusedFields
  <1> QED BY <1>2, <1>3 DEF Finished

LEMMA WholeIsAppended ==
    ASSUME IInv, Requests("data"), Current, WellPlaced(Request), Request.offset = rx_offset,
           offered[rx_session] \in Wholes
    PROVE  Appendable(Request)
  <1> DEFINE m == Len(Request.payload)
             stream == Stream[rx_crc]
  <1>1. /\ rx_crc \in Clips /\ rx_crc = offered[rx_session] /\ rx_size = Size[rx_crc]
        /\ m \in Nat /\ m > 0 /\ rx_offset \in Nat /\ rx_offset + m <= rx_size
    BY NextDataFields
  <1>2. /\ StreamType(stream) /\ stream.size >= HeaderSize /\ WellFormed(stream)
        /\ stream.size = Size[rx_crc] /\ Size[rx_crc] \in Nat
    BY <1>1, ClipFields DEF Wholes
  <1>3. ram = Bytes(rx_crc, 0, rx_offset) /\ capacity = Size[rx_crc]
    BY <1>1 DEF IInv, MemoryInStep, RamHoldsOffer, Current
  <1>4. Len(ram) = rx_offset
    <2>1. 0 \in Nat
      OBVIOUS
    <2> QED BY <1>1, <1>3, <2>1, BytesFields, ZenonT(30)
  <1>5. Fits(Request)
    <2>1. m <= Size[rx_crc] - rx_offset /\ Size[rx_crc] > 0
      <3> HIDE DEF m
      <3> QED BY <1>1, <1>2
    <2> QED BY <1>3, <1>4, <2>1 DEF Fits
  <1>6. rx_offset + m \in 1..Size[rx_crc]
        /\ (~ParserAfter(Request).accepted => ~OneLook[rx_crc][rx_offset + m].accepted)
    BY <1>5, AppendFields
  <1>7. OneLook[rx_crc][rx_offset + m].accepted
    <2> DEFINE n == rx_offset + m
    <2>1. n \in 1..Size[rx_crc]
      BY <1>6
    <2> HIDE DEF n
    <2>2. n \in Nat /\ n <= stream.size
      <3> HIDE DEF stream
      <3> QED BY <1>2, <2>1
    <2>3. OneLook[rx_crc][n] = advance(Fresh, n, stream)
      BY <1>1, <2>1, OneLookMeans
    <2>4. advance(Fresh, n, stream).accepted
      <3> HIDE DEF stream
      <3> QED BY <1>2, <2>2, SoundIsAccepted
    <2>5. OneLook[rx_crc][n].accepted
      BY <2>3, <2>4
    <2> QED BY <2>5 DEF n
  <1> QED BY <1>5, <1>6, <1>7 DEF Appendable

LEMMA FinishPasses ==
    ASSUME IInv, Requests("finish"), Current, stored[rx_session] = rx_offset
    PROVE  FinishMatches /\ ClipFinishes
  <1> USE DEF IInv
  <1>1. /\ Request.session = rx_session /\ Request.crc = offered[rx_session]
        /\ Request.offset = Size[Request.crc] /\ stored[rx_session] = Request.offset
        /\ rx_session \in 1..Len(offered)
    <2>1. /\ Request.kind = "finish" /\ queue["receiver"] # <<>>
          /\ Request.session = rx_session
      BY DEF Requests, Current
    <2>2. /\ Request.session \in 1..Len(offered)
          /\ Request.kind # "data" =>
                Request.crc = offered[Request.session] /\ Request.offset = Size[Request.crc]
          /\ Request.kind = "finish" => stored[Request.session] = Request.offset
      BY <2>1, RequestTaken, AskedFields
    <2> QED BY <2>1, <2>2
  <1>2. rx_session > 0
    BY <1>1, HistoryFields
  <1>3. rx_crc \in Clips /\ rx_crc = offered[rx_session] /\ rx_size = Size[rx_crc]
    BY <1>2, HeldFields
  <1>4. FinishMatches
    BY <1>1, <1>3 DEF FinishMatches
  <1>5. /\ Size[rx_crc] \in Nat /\ Size[rx_crc] > 0 /\ StreamType(Stream[rx_crc])
        /\ Stream[rx_crc].size = Size[rx_crc]
    BY <1>3, ClipFields
  <1>6. /\ ram = Bytes(rx_crc, 0, rx_offset) /\ capacity = Size[rx_crc] /\ rx_offset = Size[rx_crc]
        /\ parser = OneLook[rx_crc][rx_offset] /\ parser.accepted
    BY <1>1, <1>3, <1>5 DEF MemoryInStep, RamHoldsOffer, Current
  <1>7. Len(ram) = capacity
    <2>1. 0 \in Nat
      OBVIOUS
    <2>2. Len(Bytes(rx_crc, 0, Size[rx_crc])) = Size[rx_crc]
      BY <1>3, <1>5, <2>1, BytesFields
    <2> QED BY <1>6, <2>2
  <1>8. parser.published = capacity
    <2>1. Size[rx_crc] \in 1..Size[rx_crc]
      BY <1>5
    <2>2. parser = advance(Fresh, Stream[rx_crc].size, Stream[rx_crc])
      BY <1>3, <1>5, <1>6, <2>1, OneLookMeans
    <2>3. parser.published = Stream[rx_crc].size
      BY <1>5, <1>6, <2>2, AcceptedIsPublished
    <2> QED BY <1>5, <1>6, <2>3
  <1>9. ClipFinishes
    BY <1>5, <1>6, <1>7, <1>8 DEF ClipFinishes
  <1> QED BY <1>4, <1>9

LEMMA GoesOnKept ==
    ASSUME IInv, GoesOn, [Next]_vars, Grown
    PROVE  GoesOn'
  <1> USE DEF IInv
  <1> DEFINE Later == \A s \in Sessions : s > rx_session => stored[s] = 0
             Holds == /\ stored[rx_session] = rx_offset
                      /\ rx_pc = "begin" \/ rx_active \/ rx_verified
  <1> SUFFICES ASSUME NoFault'
               PROVE  /\ InOrder' /\ Later'
                      /\ rx_session' > 0 /\ offered'[rx_session'] \in Wholes => Holds'
    BY DEF GoesOn
  <1>1. resets' = resets /\ NoFault /\ ~Reset
    <2>1. resets \in Nat /\ resets' = 0 /\ ~Timeouts /\ FALSE \notin Allocations
      <3>1. resets \in Nat
        BY RadioConstants DEF History
      <3> QED BY <3>1 DEF NoFault
    <2>2. ~Reset
      <3>1. Reset => resets' = resets + 1
        BY DEF Reset, SenderReset, ReceiverReset
      <3> QED BY <2>1, <3>1
    <2>3. CASE UNCHANGED resets
      BY <2>1, <2>2, <2>3 DEF NoFault
    <2>4. resets' = resets
      <3>1. CASE Link \/ UNCHANGED vars
        BY <3>1, LinkLeavesBoards DEF vars, historyVars
      <3>2. CASE SenderMain \/ Silence \/ ReceiverMain
        BY <3>2 DEF SenderMain, StartClaim, StartEnqueue, WindowCommand, Silence,
                    SenderSilence, ReceiverSilence, ReceiverMain, MainLoopClear,
                    MainLoopBegin, historyVars
      <3>3. CASE SenderWorker
        BY <3>3 DEF SenderWorker, Configure, BeginSendFails, BeginSend, ReplyError, ReplyBegun,
                    ReplyData, ReplyFinished, ReplyIgnored, SenderTimeout, SendControl,
                    SendData, historyVars
      <3>4. CASE ReceiverWorker
        BY <3>4 DEF ReceiverWorker, BeginAnswered, RejectAnswered, BeginAgain, BeginNew,
                    DataElsewhere, DataAppended, DataRejected, FinishFirst, FinishAgain,
                    RequestIgnored, ReceiverTimeout, ReceiverTick, historyVars
      <3> QED BY <2>2, <3>1, <3>2, <3>3, <3>4 DEF Next
    <2> QED BY <2>2, <2>3, <2>4
  <1>2. InOrder /\ Later /\ (rx_session > 0 /\ offered[rx_session] \in Wholes => Holds)
    BY <1>1 DEF GoesOn
  <1>3. InOrder'
    BY <1>1, <1>2, OrderKept
  <1>4. /\ rx_session \in Nat /\ rx_session <= Len(offered) /\ Len(offered) \in Nat
        /\ active \in [Boards -> BOOLEAN] /\ stored \in [Sessions -> Nat]
        /\ MaxSessions \in Nat
    <2>1. rx_session \in 0..Len(offered)
      BY DEF ReceiverInStep
    <2> QED BY <2>1, HistoryFields DEF SenderBusy
  <1>5. ASSUME rx_session > 0 PROVE offered'[rx_session] = offered[rx_session]
    BY <1>4, <1>5 DEF Grown
  <1>6. ASSUME UNCHANGED <<rx_session, rx_offset, stored>>,
               rx_session > 0 /\ offered[rx_session] \in Wholes =>
                  ((rx_pc = "begin" \/ rx_active \/ rx_verified) =>
                     (rx_pc' = "begin" \/ rx_active' \/ rx_verified'))
        PROVE  /\ Later'
               /\ rx_session' > 0 /\ offered'[rx_session'] \in Wholes => Holds'
    BY <1>2, <1>5, <1>6
  <1> HIDE DEF Later, Holds
  <1>7. CASE Link \/ UNCHANGED vars
    <2>1. UNCHANGED <<rx_session, rx_offset, stored, rx_pc, rx_active, rx_verified>>
      BY <1>7, LinkLeavesBoards DEF vars, historyVars, receiverVars
    <2> QED BY <1>3, <1>6, <2>1
  <1>8. CASE SenderSteps
    <2>1. UNCHANGED <<rx_session, rx_offset, stored, rx_pc, rx_active, rx_verified>>
      BY <1>4, <1>8, SenderLeavesReceiver DEF receiverVars
    <2> QED BY <1>3, <1>6, <2>1
  <1>9. CASE ReceiverMain \/ RequestIgnored \/ BeginAgain \/ DataElsewhere \/ FinishAgain
             \/ ReceiverSilence
    <2>1. UNCHANGED <<rx_session, rx_offset, stored, rx_pc, rx_active, rx_verified>>
      BY <1>9 DEF ReceiverMain, MainLoopClear, MainLoopBegin, RequestIgnored, BeginAgain,
                  DataElsewhere, FinishAgain, ReceiverSilence, historyVars, receiverVars
    <2> QED BY <1>3, <1>6, <2>1
  <1>10. CASE BeginAnswered
    <2>1. lifecycle_done # "failed"
      BY <1>1 DEF Handshake, NoFault
    <2>2. UNCHANGED <<rx_session, rx_offset, stored>> /\ rx_active'
      BY <1>10, <2>1 DEF BeginAnswered, historyVars
    <2> QED BY <1>3, <1>6, <2>2
  <1>11. CASE RejectAnswered
    <2>1. UNCHANGED <<rx_session, rx_offset, stored, rx_active, rx_verified>> /\ rx_pc # "begin"
      BY <1>11 DEF RejectAnswered, historyVars
    <2> QED BY <1>3, <1>6, <2>1
  <1>12. CASE ReceiverTimeout
    BY <1>1, <1>12 DEF ReceiverTimeout, Handshake, NoFault
  <1>13. CASE \E elapsed, accepted \in BOOLEAN : ReceiverTick(elapsed, accepted)
    <2>1. UNCHANGED <<rx_session, rx_offset, stored, rx_active, rx_verified>> /\ rx_pc # "begin"
      BY <1>13 DEF ReceiverTick, historyVars
    <2> QED BY <1>3, <1>6, <2>1
  <1>14. CASE BeginNew
    <2>1. /\ rx_pc = "run" /\ Request.kind = "begin" /\ queue["receiver"] # <<>> /\ ~Current
          /\ rx_session' = Request.session /\ rx_offset' = 0 /\ rx_pc' = "begin"
          /\ UNCHANGED <<offered, stored>>
      BY <1>14 DEF BeginNew, Requests, CallMainLoop, historyVars
    <2>2. Request.session \in Sessions /\ Request.session \in Nat
      <3>1. Request.session \in Sessions
        BY <2>1, RequestTaken, AskedFields
      <3> QED BY <1>4, <3>1 DEF Sessions
    <2>3. rx_session <= Request.session
      <3>1. Dated(queue["receiver"])
        BY AskedsDated DEF PacketsInStep
      <3> QED BY <1>2, <1>4, <2>1, <3>1, OrderedTake DEF InOrder, Request
    <2>4. Later'
      BY <1>2, <1>4, <2>1, <2>2, <2>3 DEF Later, Sessions
    <2>5. ASSUME offered'[rx_session'] \in Wholes PROVE Holds'
      <3>1. Request.session # rx_session
        <4> SUFFICES ASSUME Request.session = rx_session PROVE FALSE
          OBVIOUS
        <4>1. rx_session > 0 /\ offered[rx_session] \in Wholes
          BY <1>4, <2>1, <2>2, <2>5 DEF Sessions
        <4>2. rx_active \/ rx_verified
          BY <1>2, <2>1, <4>1 DEF Holds
        <4> QED BY <2>1, <4>2 DEF Current
      <3>2. stored[Request.session] = 0
        BY <1>2, <1>4, <2>2, <2>3, <3>1 DEF Later
      <3> QED BY <2>1, <3>2 DEF Holds
    <2> QED BY <1>3, <2>4, <2>5
  <1>15. CASE DataAppended
    <2> DEFINE n == rx_offset + Len(Request.payload)
    <2>1. /\ rx_session \in 1..Len(offered) /\ rx_session \in Sessions /\ n \in Nat
          /\ rx_offset <= n
      <3>1. /\ rx_session \in 1..Len(offered) /\ rx_session \in Sessions
            /\ Len(Request.payload) \in Nat /\ rx_offset \in Nat
        BY <1>15, NextDataFields DEF DataAppended
      <3> QED BY <3>1
    <2>2. /\ rx_offset' = n /\ stored' = [stored EXCEPT ![rx_session] = Larger(@, n)]
          /\ UNCHANGED <<offered, rx_session, rx_pc, rx_active, rx_verified>>
      BY <1>15 DEF DataAppended
    <2> HIDE DEF n
    <2>3. \A s \in Sessions : s > rx_session => stored'[s] = stored[s]
      BY <1>4, <2>1, <2>2 DEF Sessions
    <2>4. Later'
      BY <1>2, <2>2, <2>3 DEF Later
    <2>5. ASSUME offered[rx_session] \in Wholes PROVE Holds'
      <3>1. stored[rx_session] = rx_offset /\ rx_session > 0 /\ rx_offset \in Nat
            /\ (rx_pc = "begin" \/ rx_active \/ rx_verified)
        BY <1>2, <1>4, <2>1, <2>5 DEF Holds, ReceiverInStep
      <3>2. stored'[rx_session] = n
        BY <1>4, <2>1, <2>2, <3>1 DEF Larger
      <3> QED BY <2>2, <3>1, <3>2 DEF Holds
    <2> QED BY <1>3, <2>2, <2>4, <2>5
  <1>16. CASE DataRejected
    <2>1. UNCHANGED <<rx_session, rx_offset, stored>>
      BY <1>16 DEF DataRejected, historyVars
    <2>2. offered[rx_session] \notin Wholes
      BY <1>16, WholeIsAppended DEF DataRejected
    <2> QED BY <1>3, <1>6, <2>1, <2>2
  <1>17. CASE FinishFirst
    <2>1. UNCHANGED <<rx_session, rx_offset, stored>>
      BY <1>17 DEF FinishFirst
    <2>2. ASSUME rx_session > 0, offered[rx_session] \in Wholes PROVE rx_verified'
      <3>1. FinishMatches /\ ClipFinishes
        BY <1>2, <1>17, <2>2, FinishPasses DEF FinishFirst, Holds
      <3> QED BY <1>17, <3>1 DEF FinishFirst
    <2> QED BY <1>3, <1>6, <2>1, <2>2
  <1> QED BY <1>1, <1>7, <1>8, <1>9, <1>10, <1>11, <1>12, <1>13, <1>14, <1>15, <1>16, <1>17,
             WhoSteps DEF SenderSteps, ReceiverSteps, ReceiverWorker, Reset

\* Unless a clip is flawed, memory is short, the air silent or a board reset, the
\* receiver never refuses a transfer: no loss, repetition, full queue, resent begin or
\* second finish makes it reject.
THEOREM RejectionsStayFaults == Spec => []OnlyFaultsReject
  <1>1. Init => GoesOn
    <2> SUFFICES ASSUME Init PROVE GoesOn
      OBVIOUS
    <2>1. Len(queue["receiver"]) = 0 /\ Len(air["sender"]) = 0
      BY EmptySeq DEF Init, Boards
    <2>2. InOrder
      BY <2>1 DEF InOrder, Ordered, Sorted, AtLeast
    <2>3. rx_session = 0 /\ \A s \in Sessions : stored[s] = 0
      BY DEF Init, Sessions
    <2>4. ~(rx_session > 0)
      BY <2>3
    <2> QED BY <2>2, <2>3, <2>4 DEF GoesOn
  <1>2. IInv /\ GoesOn /\ [Next]_vars => GoesOn'
    BY InvariantKept, GoesOnKept
  <1>3. IInv /\ GoesOn => OnlyFaultsReject
    <2> SUFFICES ASSUME IInv, GoesOn, rx_pc = "clear", offered[rx_session] \in Wholes,
                        FALSE \notin Allocations, ~Timeouts, ~(resets > 0)
                 PROVE  FALSE
      BY DEF OnlyFaultsReject
    <2>1. rx_session > 0 /\ ~rx_active /\ ~rx_verified
      BY DEF IInv, ReceiverInStep, Handshake, Waiting
    <2>2. resets = 0
      <3>1. resets \in 0..MaxResets /\ MaxResets \in Nat
        BY RadioConstants DEF IInv, History
      <3> QED BY <3>1
    <2>3. NoFault
      BY <2>2 DEF NoFault
    <2> QED BY <2>1, <2>3 DEF GoesOn
  <1> QED BY <1>1, <1>2, <1>3, Invariant, PTL DEF Spec
=============================================================================
