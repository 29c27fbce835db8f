-------------------------- MODULE AnalysisHistory --------------------------
(***************************************************************************)
(* What the catalog promises about audio analysis, whoever writes it:      *)
(* one run is active at a time, attempts are only appended and only to the *)
(* active run, a successful attempt becomes the current one of its track   *)
(* in the very step that records it, a failed attempt changes no           *)
(* projection, and a run that was settled stays settled.                   *)
(***************************************************************************)
EXTENDS Naturals, Sequences

CONSTANTS
    Tracks,     \* the tracks of the catalog
    Identities, \* analysis identities
    Versions    \* file versions: the facts recorded, the content read

VARIABLES
    attempts,   \* the history
    current,    \* track -> id of its current attempt, 0 if none
    status      \* status of each run, indexed by its id

history == <<attempts, current, status>>

Attempt == [track: Tracks, run: 1..Len(status), identity: Identities,
            facts: Versions, content: Versions, ok: BOOLEAN]

Active(r) == r \in 1..Len(status) /\ status[r] = "running"

Init ==
    /\ attempts = << >>
    /\ current = [t \in Tracks |-> 0]
    /\ status = << >>

Begin ==
    /\ \A r \in 1..Len(status) : ~Active(r)
    /\ status' = Append(status, "running")
    /\ UNCHANGED <<attempts, current>>

Record ==
    /\ \E attempt \in Attempt :
         /\ Active(attempt.run)
         /\ attempts' = Append(attempts, attempt)
         /\ current' = IF attempt.ok
                       THEN [current EXCEPT ![attempt.track] = Len(attempts) + 1]
                       ELSE current
    /\ UNCHANGED status

Settle ==
    /\ \E r \in 1..Len(status), outcome \in {"succeeded", "partial", "failed"} :
         /\ Active(r)
         /\ status' = [status EXCEPT ![r] = outcome]
    /\ UNCHANGED <<attempts, current>>

Next == Begin \/ Record \/ Settle

Spec == Init /\ [][Next]_history
=============================================================================
