---------------------------- MODULE AtomicStore ----------------------------
(***************************************************************************)
(* What the logging layer promises its callers: a block store on which     *)
(* every file-system operation takes effect entirely or not at all, and on *)
(* which a read always returns the latest update.  The content of a block  *)
(* is the set of the operations whose updates it carries.                  *)
(*                                                                         *)
(* The promise is the comment at the head of log.c: a transaction holds    *)
(* the updates of several operations and commits only when none is active. *)
(***************************************************************************)
CONSTANTS Ops,       \* file-system operations (begin_op ... end_op)
          Blocks     \* home blocks of the file system

VARIABLES store,     \* what a machine that lost power now would come back with
          view,      \* what a read of a block returns now
          running    \* the operations that have begun and not ended

vars == <<store, view, running>>

Content == SUBSET Ops

Init ==
  /\ store = [b \in Blocks |-> {}]
  /\ view = store
  /\ running = {}

Begin(o) ==
  /\ running' = running \cup {o}
  /\ UNCHANGED <<store, view>>

Update(o, b) ==
  /\ o \in running
  /\ view' = [view EXCEPT ![b] = @ \cup {o}]
  /\ UNCHANGED <<store, running>>

End(o) ==
  /\ running' = running \ {o}
  /\ UNCHANGED <<store, view>>

\* The only step that changes what survives a crash, and it waits for every
\* operation to end.
Commit ==
  /\ running = {}
  /\ store' = view
  /\ UNCHANGED <<view, running>>

Crash ==
  /\ view' = store
  /\ running' = {}
  /\ UNCHANGED store

Next ==
  \/ \E o \in Ops : Begin(o) \/ End(o)
  \/ \E o \in Ops, b \in Blocks : Update(o, b)
  \/ Commit
  \/ Crash

Spec == Init /\ [][Next]_vars
=============================================================================
