--------------------------- MODULE MCBucketRegistry ---------------------------
(***************************************************************************)
(* An instance of BucketRegistry: a name and options that are one          *)
(* character long, and others that have one character more, so that a cut  *)
(* in the last field leaves nothing or another name or other options.      *)
(***************************************************************************)
EXTENDS BucketRegistry

CONSTANTS a, ab, one, twelve

MCNames == {a, ab}

\* The last number of the options, that of the dimensions, is 1 or 12.
MCOptions == {one, twelve}

MCShortened ==
  [x \in MCNames \cup MCOptions |-> CASE x = ab -> a [] x = twelve -> one [] OTHER -> NoText]

AllFreqs == {"EACH", "MNGFREQ", "NONE"}
=============================================================================
