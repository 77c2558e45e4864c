-------------------------- MODULE MCToDeviceCopier --------------------------
(***************************************************************************)
(* ToDeviceCopier instantiated for TLC: two copier tasks sharing the pool, *)
(* pinned buffers of two bytes, and destinations of five bytes, the        *)
(* smallest that reach every branch of the copy loop (a partial fill, a    *)
(* full buffer issued while the other is empty, a full buffer waiting for  *)
(* the other, and the final flush).                                        *)
(***************************************************************************)
EXTENDS ToDeviceCopier

CONSTANTS t1, t2, h1, h2, h3, h4

MCTasks == {t1, t2}
MCHandles == {h1, h2, h3, h4}

(* One task, for the runs that follow a single caller's calls.           *)
MCOneTask == {t1}
=============================================================================
