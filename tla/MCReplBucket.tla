---------------------------- MODULE MCReplBucket ----------------------------
(* Instances of ReplBucket for TLC. *)
EXTENDS ReplBucket, TLC

CONSTANTS u1, u2

\* A document of one record, one of two, and a record replayed alone between
\* records of the first.
Mixed == <<u1, u2, u2, Serial, u1>>
=============================================================================
