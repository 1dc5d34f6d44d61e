---------------------------- MODULE MCThreadPool ----------------------------
(* ThreadPool on up to two worker threads and two callers.  Counts of 1 to 5 *)
(* are below, at and above one chunk per thread.                             *)
EXTENDS ThreadPool
MCCounts == {1, 3, 5}
=============================================================================
