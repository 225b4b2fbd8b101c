---------------------------- MODULE MCPortScanner ----------------------------
(* PortScanner on four ports and two semaphore slots; every third result    *)
(* reports, so closed ports take both ways through the worker.              *)
EXTENDS PortScanner
==============================================================================
