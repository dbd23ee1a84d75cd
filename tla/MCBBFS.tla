------------------------------- MODULE MCBBFS -------------------------------
(* TLC instances of BBFSCache: one file, one text to write.                *)
EXTENDS BBFSCache
CONSTANTS f1, a
OneText == {<<a, a>>}
=============================================================================
