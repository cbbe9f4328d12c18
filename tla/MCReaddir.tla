----------------------------- MODULE MCReaddir ------------------------------
(* Three or four names, whose lengths decide how many fit in a batch.      *)
EXTENDS Readdir

\* Names of 1, 100 and 220 bytes come six or so, two and one to a batch of
\* 268 bytes, and those of 220 and 1 together; 244 is the longest that fits.
SomeLengths == [Names -> {1, 100, 220, 244, 245}]
LongLengths == [Names -> {1, 244, 245}]
=============================================================================
