------------------------------ MODULE RWMutex ------------------------------
(***************************************************************************)
(* Go's sync.RWMutex as Registry uses it: a writer first announces itself, *)
(* which holds back every later reader, then waits for the readers that    *)
(* were in; its Unlock lets in all the readers it held back before another *)
(* writer can announce itself.                                             *)
(***************************************************************************)
CONSTANTS Callers, NoCaller

ASSUME NoCallerAssumption == NoCaller \notin Callers

VARIABLES
    readers,    \* the callers that hold the read lock
    blocked,    \* the callers whose RLock waits for the writer
    writer      \* the caller that has announced itself or holds the lock

muVars == <<readers, blocked, writer>>

MuInit == readers = {} /\ blocked = {} /\ writer = NoCaller

\* The lock's variables stay in the sets of their values.
MuTypeOK ==
    /\ readers \subseteq Callers
    /\ blocked \subseteq Callers
    /\ writer \in Callers \cup {NoCaller}

\* A mutant: readers overtake a writer that waits for readers.
RLockBarging(c) ==
    /\ IF writer = NoCaller \/ readers # {}
          THEN readers' = readers \cup {c} /\ UNCHANGED blocked
          ELSE blocked' = blocked \cup {c} /\ UNCHANGED readers
    /\ UNCHANGED writer

\* RLock by c, which goes on once c \in readers.
RLock(c) ==
    /\ IF writer = NoCaller
          THEN readers' = readers \cup {c} /\ UNCHANGED blocked
          ELSE blocked' = blocked \cup {c} /\ UNCHANGED readers
    /\ UNCHANGED writer

RUnlock(c) ==
    /\ readers' = readers \ {c}
    /\ UNCHANGED <<blocked, writer>>

\* The two halves of Lock.
Announce(c) ==
    /\ writer = NoCaller
    /\ writer' = c
    /\ UNCHANGED <<readers, blocked>>

Drained(c) == writer = c /\ readers = {}

Unlock(c) ==
    /\ readers' = blocked
    /\ blocked' = {}
    /\ writer' = NoCaller
=============================================================================
