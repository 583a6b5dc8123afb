------------------------------- MODULE Traced -------------------------------
(* What the record writers share: the requests, each of which leaves one usage *)
(* record and one access-log entry, and the contents of a channel or batch.    *)
EXTENDS Naturals, Sequences

CONSTANTS Entries

\* Rows are counted up to two.
OneMore(n) == IF n < 2 THEN n + 1 ELSE 2

Elements(s) == {s[i] : i \in DOMAIN s}
=============================================================================
