---------------------------- MODULE AuthExchange ----------------------------
(***************************************************************************)
(* What the PS4 authentication promises the host: a complete challenge is   *)
(* answered by exactly Chunks replies, in order, all of them cut from the   *)
(* signature of that challenge, unless signing fails, after which nothing   *)
(* more is answered.  No thread, buffer or atomic word appears here.        *)
(***************************************************************************)
EXTENDS Naturals, Sequences

CONSTANTS Challenges, NoChallenge, Chunks

VARIABLES
    phase,      \* "receiving", "pending", "sending" or "failed"
    challenge,  \* the challenge being answered
    answer      \* the replies composed for it so far

avars == <<phase, challenge, answer>>

AInit == phase = "receiving" /\ challenge = NoChallenge /\ answer = << >>

\* The host's last packet makes c the challenge.
Complete(c) ==
    /\ phase = "receiving"
    /\ phase' = "pending"
    /\ challenge' = c
    /\ UNCHANGED answer

\* The signature is ready.
Answer ==
    /\ phase = "pending"
    /\ phase' = "sending"
    /\ answer' = << >>
    /\ UNCHANGED challenge

\* The signature could not be computed.
Abandon ==
    /\ phase = "pending"
    /\ phase' = "failed"
    /\ UNCHANGED <<challenge, answer>>

\* The host reads the next reply; the last one ends the exchange.
Read ==
    /\ phase = "sending"
    /\ answer' = Append(answer, [part |-> Len(answer), of |-> challenge])
    /\ IF Len(answer) + 1 = Chunks
       THEN phase' = "receiving" /\ challenge' = NoChallenge
       ELSE UNCHANGED <<phase, challenge>>

ANext == (\E c \in Challenges : Complete(c)) \/ Answer \/ Abandon \/ Read

ASpec == AInit /\ [][ANext]_avars

\* Every challenge is answered or abandoned.
AFairSpec == ASpec /\ WF_avars(Answer \/ Abandon)
=============================================================================
