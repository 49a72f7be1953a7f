-------------------------- MODULE VerifiedTransfer --------------------------
(***************************************************************************)
(* What the wireless_stream transfer promises, seen from the two serial     *)
(* logs: the sender offers clips one after another; the receiver comes to   *)
(* hold more and more of a clip, logs RAM RECEIVED VERIFIED only when it    *)
(* holds all of a well-formed one, and the sender logs STREAM SENT VERIFIED *)
(* only for its latest offer and only after that.  Any offer may also fail  *)
(* silently: giving up is a stuttering step here.                           *)
(***************************************************************************)
EXTENDS Integers, Sequences

CONSTANTS
    Clips, Size,        \* what may be offered, and its byte count
    Good,               \* the well-formed ones
    MaxSessions

VARIABLES offered, stored, verified, sent

promiseVars == <<offered, stored, verified, sent>>

Init ==
    /\ offered = <<>>
    /\ stored = [s \in 1..MaxSessions |-> 0]
    /\ verified = {} /\ sent = {}

Offer(clip) ==
    /\ offered' = Append(offered, clip)
    /\ UNCHANGED <<stored, verified, sent>>

Store(s, bytes) ==
    /\ stored[s] < bytes /\ bytes <= Size[offered[s]]
    /\ stored' = [stored EXCEPT ![s] = bytes]
    /\ UNCHANGED <<offered, verified, sent>>

Verify(s) ==
    /\ stored[s] = Size[offered[s]] /\ offered[s] \in Good
    /\ verified' = verified \cup {s}
    /\ UNCHANGED <<offered, stored, sent>>

Report ==
    /\ Len(offered) \in verified
    /\ sent' = sent \cup {Len(offered)}
    /\ UNCHANGED <<offered, stored, verified>>

Next ==
    \/ \E clip \in Clips : Offer(clip)
    \/ \E s \in 1..Len(offered) :
          Verify(s) \/ \E bytes \in 1..Size[offered[s]] : Store(s, bytes)
    \/ Report

Spec == Init /\ [][Next]_promiseVars
=============================================================================
