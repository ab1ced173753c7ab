------------------------- MODULE PublishedRegister -------------------------
(***************************************************************************)
(* What MeasurementSlot promises: a register of several values that one    *)
(* writer publishes whole.  A reader gets a whole publication, never one   *)
(* older than it has seen or than it knows to exist.                       *)
(***************************************************************************)
EXTENDS Naturals

CONSTANTS Readers, Cells

VARIABLES
    published,  \* publications made
    seen,       \* the latest each reader knows of
    result      \* what each reader's last read returned: whose value, by cell

RegisterInit ==
    /\ published = 0
    /\ seen = [r \in Readers |-> 0] /\ result = [r \in Readers |-> [c \in Cells |-> 0]]

Publish == published' = published + 1 /\ UNCHANGED <<seen, result>>

Learn(r) == \E k \in seen[r] .. published : seen' = [seen EXCEPT ![r] = k] /\ UNCHANGED <<published, result>>

Read(r) ==
    \E k \in seen[r] .. published :
        /\ seen' = [seen EXCEPT ![r] = k]
        /\ result' = [result EXCEPT ![r] = [c \in Cells |-> k]]
        /\ UNCHANGED published

RegisterNext == Publish \/ \E r \in Readers : Learn(r) \/ Read(r)

RegisterSpec == RegisterInit /\ [][RegisterNext]_<<published, seen, result>>
=============================================================================
