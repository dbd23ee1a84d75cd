--------------------------- MODULE MCBBFSHistory ---------------------------
(* TLC instance of BBFSHistory: three files that may trade places, and two *)
(* texts, one of them with a zero byte.                                    *)
EXTENDS BBFSHistory
CONSTANTS f1, f2, f3, a, b
TwoTexts == {<<a, a>>, <<NUL, b>>}
\* What later steps depend on: op and cachePolicy only report the last request.
Lasting == <<disk, conf, list, bufferCount, open, latest, lost, trace>>
Swaps == Permutations({f1, f2, f3})
=============================================================================
