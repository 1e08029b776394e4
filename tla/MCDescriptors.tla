---------------------------- MODULE MCDescriptors ----------------------------
(* Model-checking instance of Descriptors: three descriptors, one of them    *)
(* the console's, and two pipes, so that the second pipe meets a full table, *)
(* one with a single descriptor left, or the table of the next process.      *)
EXTENDS Descriptors
=============================================================================
