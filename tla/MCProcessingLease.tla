-------------------------- MODULE MCProcessingLease --------------------------
(* Small instances of ProcessingLease.                                     *)
EXTENDS ProcessingLease, Sequences, TLC

CONSTANTS d1, d2, op1, op2

MCDevices == {d1, d2}
OneDevice == {d1}
MCUsers == {op1, op2}

(* One operator, two devices: only the token tells their claims apart.      *)
SameUser == [d \in Devices |-> op1]
OwnUser == (d1 :> op1) @@ (d2 :> op2)

AllSteps == [d \in Devices |-> Steps]
OneLimited == (d1 :> Steps) @@ (d2 :> {"transcription"})

(* Nothing known yet; a foreign transcript; and what one of three contents  *)
(* may be: nothing left to do.                                             *)
TwoContents == <<{"transcription"}, {"translation", "moderation"}>>
OneContent == <<{"transcription"}>>
ThreeContents == TwoContents \o <<{}>>
=============================================================================
