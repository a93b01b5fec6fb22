----------------------------- MODULE MCCapture -----------------------------
(* Instances of Capture for TLC: the command lines each run considers.     *)
EXTENDS Capture

Arguments(enc, nosnd, hard) ==
    [encOnTheFly |-> enc, nosound |-> nosnd, hardPause |-> hard]

OnTheFly      == {Arguments(TRUE, FALSE, FALSE), Arguments(TRUE, TRUE, FALSE)}
CacheNoSound  == {Arguments(FALSE, TRUE, FALSE)}
Sound         == {Arguments(TRUE, FALSE, TRUE), Arguments(FALSE, FALSE, FALSE)}

(* Pauses, but only when no sound is recorded.                             *)
OnTheFlyNext ==
    \/ Grab \/ Img \/ Snd \/ Aud \/ Main
    \/ (args.nosound /\ rmdSetPaused)
    \/ \E s \in EndSignals : rmdSetRunning(s)
    \/ \E t \in Thread, c \in Cond : SpuriousWakeup(t, c)
OnTheFlySpec ==
    /\ Init /\ [][OnTheFlyNext]_vars
    /\ WF_vars(Grab) /\ WF_vars(Img) /\ WF_vars(Snd) /\ WF_vars(Aud) /\ WF_vars(Main)
=============================================================================
