-------------------------- MODULE MCWorkerProcess --------------------------
(* WorkerProcess on machines of up to seven hardware threads, with up to six *)
(* configured threads on either side: up to four simulators run.             *)
EXTENDS WorkerProcess
=============================================================================
