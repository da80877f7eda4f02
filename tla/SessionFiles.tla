---------------------------- MODULE SessionFiles ----------------------------
(***************************************************************************)
(* The session snapshots on disk: src/tellyq/session_store.py, with the    *)
(* atomic file replacement of src/tellyq/state.py.                         *)
(*                                                                         *)
(* A save replaces two files, one after the other: the snapshot of the     *)
(* attempt and the pointer to the active attempt.  Every caller holds the  *)
(* command lock, so that the revision check of save() always passes here   *)
(* and revisions are left out; file contents are well formed.              *)
(***************************************************************************)
EXTENDS Naturals

CONSTANTS
    MaxAttempts,      \* bound on the attempts
    Sessions,         \* receiver sessions this owner may start
    None              \* Python's None

Attempts == 1..MaxAttempts

\* SnapshotRecord; a record never holds evidence.
Record == [session : Sessions, stop : BOOLEAN]

ASSUME FilesAssumption ==
    MaxAttempts \in Nat /\ None \notin Sessions \cup Nat \cup Record

VARIABLES
    files,            \* files[a]: the record of attempt a
    active            \* active.json

FilesInit ==
    /\ files = [a \in Attempts |-> None]
    /\ active = None

\* encode_snapshot()
Encoded(t) == [session |-> t.session, stop |-> t.stop]

\* decode_snapshot(): what a later process knows of an attempt; neither the moment of a
\* stop request nor an end that was seen survives.
Decoded(a) ==
    [attempt |-> a, session |-> files[a].session, stop |-> files[a].stop, boundary |-> FALSE,
     ended |-> FALSE, lost |-> FALSE, state |-> "unknown"]

\* current() raises when the attempt it points to has no snapshot.
CurrentRaises == active # None /\ files[active] = None

Current == IF active = None THEN None ELSE Decoded(active)

\* The two replacements of a save.
WriteRecord(t) ==
    /\ files' = [files EXCEPT ![t.attempt] = Encoded(t)]
    /\ UNCHANGED active

WritePointer(t) ==
    /\ active' = t.attempt
    /\ UNCHANGED files

\* Mutant of SaveStep: the pointer is replaced first.
PointerFirst(n, t) == IF n = 1 THEN WritePointer(t) ELSE WriteRecord(t)

\* The n-th replacement of save().
SaveStep(n, t) == IF n = 1 THEN WriteRecord(t) ELSE WritePointer(t)
=============================================================================
