---------------------------- MODULE MCIoProcessor ----------------------------
(* Constants for model checking IoProcessor. *)

EXTENDS IoProcessor

CONSTANTS j1, j2, j3, j4

\* j1 is empty, j2 is a byte, and j3 alone fills a batch.
MCJobs == {j1, j2, j3, j4}
MCLenOf == [j \in MCJobs |->
  CASE j = j1 -> 0 [] j = j2 -> 1 [] j = j3 -> 1500 [] OTHER -> 700]
MCCovers == [j \in MCJobs |-> CASE j = j1 -> 0 [] j = j3 -> 3 [] OTHER -> 1]
=============================================================================
