---------------------------- MODULE MCToolExecutor ----------------------------
(***************************************************************************)
(* Small instances of ToolExecutor: two batches; c1, c2 and c3 belong to   *)
(* the first, c4 to the second.                                            *)
(***************************************************************************)
EXTENDS ToolExecutor

CONSTANTS b1, b2, c1, c2, c3, c4, local, thread, web

MCBatchOf == [c \in Calls |-> IF c = c4 THEN b2 ELSE b1]

(* One tool of each kind.                                                  *)
MCKind == [t \in Tools |-> CASE t = local -> "async" [] t = thread -> "sync" [] t = web -> "http"]

(* The two batches share an HTTP tool with one slot in a window.           *)
SharedTool == [c \in Calls |-> CASE c = c2 -> thread [] c = c3 -> local [] OTHER -> web]

SomeRpm == [t \in Tools |-> IF t = web THEN 1 ELSE NoLimit]

=============================================================================
