--------------------------- MODULE MCProcessRunner ---------------------------
(* Small instances of ProcessRunner for TLC.                                *)
EXTENDS ProcessRunner

\* Programs that run to their end, whatever they close; programs that may hang
\* but on POSIX keep their outputs open.
EndingOrTimed ==
  {[platform |-> "posix", deadline |-> FALSE, traits |-> {"fork", "close", "fail"}],
   [platform |-> "posix", deadline |-> TRUE, traits |-> {"fork", "hang", "fail"}],
   [platform |-> "windows", deadline |-> FALSE, traits |-> {"fork"}],
   [platform |-> "windows", deadline |-> TRUE, traits |-> {"close", "hang", "busy", "fail"}]}
=============================================================================
