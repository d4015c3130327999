--------------------------- MODULE MCMailboxPoll ---------------------------
(***************************************************************************)
(* MailboxPoll for TLC, which takes its constants from the configuration.  *)
(* No symmetry: the run checks a liveness property.                        *)
(***************************************************************************)
EXTENDS MailboxPoll
=============================================================================
