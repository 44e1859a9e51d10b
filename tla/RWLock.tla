------------------------------- MODULE RWLock -------------------------------
(***************************************************************************)
(* What a reader/writer lock promises its callers, whatever its counters: *)
(* any number of goroutines hold it for reading, or one holds it for      *)
(* writing, and never both.  A goroutine acquires it and later releases   *)
(* it; the lock lives as long as the process, so a process exit drops    *)
(* every hold at once.  S3Server's model of sync.RWMutex is shown to      *)
(* implement this module by a refinement mapping.                         *)
(***************************************************************************)
CONSTANT Procs     \* goroutines

VARIABLES
    rholders,   \* goroutines holding the lock for reading
    wholders    \* goroutines holding it for writing: none or one

lockState == <<rholders, wholders>>

Init ==
    /\ rholders = {}
    /\ wholders = {}

\* s.mu.RLock() returns.
AcquireRead(p) ==
    /\ wholders = {}
    /\ p \notin rholders
    /\ rholders' = rholders \cup {p}
    /\ UNCHANGED wholders

\* s.mu.Lock() returns.
AcquireWrite(p) ==
    /\ wholders = {}
    /\ rholders = {}
    /\ wholders' = {p}
    /\ UNCHANGED rholders

\* s.mu.RUnlock()
ReleaseRead(p) ==
    /\ p \in rholders
    /\ rholders' = rholders \ {p}
    /\ UNCHANGED wholders

\* s.mu.Unlock()
ReleaseWrite(p) ==
    /\ wholders = {p}
    /\ wholders' = {}
    /\ UNCHANGED rholders

\* The process exits; the lock is gone with it.
Reset ==
    /\ rholders' = {}
    /\ wholders' = {}

Next ==
    \/ \E p \in Procs : AcquireRead(p) \/ AcquireWrite(p)
                        \/ ReleaseRead(p) \/ ReleaseWrite(p)
    \/ Reset

Spec == Init /\ [][Next]_lockState

=============================================================================
