------------------------------- MODULE MCLog --------------------------------
(* A finite instance of Log for TLC.                                       *)
EXTENDS Log

CONSTANTS t1, t2

\* Formatted lines of three lengths, so that a shorter one follows a longer one.
MCCalls == {[how |-> "format", level |-> "err", text |-> <<97, 98, 99>>],
            [how |-> "format", level |-> "warning", text |-> <<120>>],
            [how |-> "string", level |-> "err", text |-> <<115, 116>>],
            [how |-> "null", level |-> "err", text |-> <<>>],
            [how |-> "line", level |-> "debug", text |-> <<108, 109>>],
            [how |-> "part", level |-> "debug", text |-> <<112>>]}
=============================================================================
