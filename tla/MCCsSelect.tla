----------------------------- MODULE MCCsSelect -----------------------------
(* Two file descriptors and the read and write interest bits.              *)
EXTENDS CsSelect

CONSTANTS f1, f2, R, W

MCFds == {f1, f2}

MCKinds == {R, W}

=============================================================================
