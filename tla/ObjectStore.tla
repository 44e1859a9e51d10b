---------------------------- MODULE ObjectStore ----------------------------
(***************************************************************************)
(* What the storage backend of src/s3.go promises about the objects it    *)
(* holds, whatever its locks and filesystem calls: an object is a path    *)
(* with a value.  A PutObject replaces one object's value with the body   *)
(* it was given; PutObject is not atomic, so one that fails, or whose     *)
(* process exits, mid-copy leaves a prefix of that body; DeleteObject     *)
(* removes one object.  Every change is to one object, in one step.       *)
(* Buckets and the directories nested keys need are not objects.          *)
(* S3Server is shown to implement this module by a refinement mapping.    *)
(***************************************************************************)
EXTENDS Integers, Sequences, TLC

CONSTANTS
    Paths,      \* the paths an object can have
    Values      \* the bodies PUT requests carry

VARIABLE objects     \* object path -> bytes

\* The bytes an interrupted copy of some body can leave behind.
Torn == UNION { { SubSeq(v, 1, n) : n \in 0 .. Len(v) - 1 } : v \in Values }

Init == objects = <<>>

\* PutObject returns nil: the object holds the whole body.
Put(f, v) ==
    /\ v \in Values
    /\ objects' = (f :> v) @@ objects

\* PutObject's copy stops early: the object holds a prefix of the body.
Tear(f, v) ==
    /\ v \in Torn
    /\ objects' = (f :> v) @@ objects

\* DeleteObject removes an existing object.
Remove(f) ==
    /\ f \in DOMAIN objects
    /\ objects' = [g \in DOMAIN objects \ {f} |-> objects[g]]

Next ==
    \E f \in Paths :
        \/ \E v \in Values : Put(f, v)
        \/ \E v \in Torn : Tear(f, v)
        \/ Remove(f)

Spec == Init /\ [][Next]_objects

=============================================================================
