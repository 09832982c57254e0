------------------------------ MODULE MCIoPath ------------------------------
(* Values for the model checker. *)
EXTENDS IoPath

\* -EAGAIN, and -EFBIG as a code whose low byte is far from zero.
MCCoreErrors == {-11, -27}
=============================================================================
