------------------------------ MODULE AudioDucker ------------------------------
(***************************************************************************)
(* system/windows.py, WindowsBackgroundAudioDucker: the volumes of the     *)
(* other applications' audio sessions, lowered while the assistant is      *)
(* addressed and put back afterwards.                                      *)
(*                                                                         *)
(* duck() runs under the ducker's lock and is one step: only the writes of *)
(* a restore(), each on one session, can fall within it, and they leave    *)
(* every session as they would before or after its turn.  restore() takes  *)
(* the snapshots under the lock and writes the volumes after it, one step  *)
(* per session.  Only the main thread restores.                            *)
(***************************************************************************)
EXTENDS Integers, Functions

CONSTANTS Sessions,     \* the audio sessions of other applications
          Target,       \* target_percent, on the scale of UserVolumes
          UserVolumes,  \* the volumes the user may have set
          MaxComFaults  \* bound: how often a session's volume call raises

ASSUME DuckerAssumption ==
    /\ Target \in Nat /\ UserVolumes \subseteq Nat
    /\ MaxComFaults \in Nat

VARIABLES user,       \* the volume the user has set for each session
          volume,     \* the volume of each session
          snapshots,  \* _snapshots: original volumes, by session
          restoring,  \* the snapshots restore() has taken and not yet written
          comFaults,  \* faults so far
          spoiled     \* history: a duck overlapped a restore, or was cut short

duckerVars == <<user, volume, snapshots, restoring, comFaults, spoiled>>

Volumes == UserVolumes \cup {Target}

\* No session known: the empty function.
Nothing == [s \in {} |-> 0]

DuckerTypeOK ==
    /\ user \in [Sessions -> UserVolumes]
    /\ volume \in [Sessions -> Volumes]
    /\ snapshots \in UNION {[S -> Volumes] : S \in SUBSET Sessions}
    /\ restoring \in UNION {[S -> Volumes] : S \in SUBSET Sessions}
    /\ comFaults \in 0..MaxComFaults
    /\ spoiled \in BOOLEAN

DuckerInit ==
    /\ user \in [Sessions -> UserVolumes]
    /\ volume = user
    /\ snapshots = Nothing /\ restoring = Nothing
    /\ comFaults = 0 /\ spoiled = FALSE

----------------------------------------------------------------------------
\* Mutant of AlreadyDucked: duck() has no such check.
NeverDucked == FALSE

\* if self._snapshots: the second duck of a turn changes nothing.
AlreadyDucked == snapshots # Nothing

Ducked(s) == IF volume[s] < Target THEN volume[s] ELSE Target

\* duck(): every session's volume is read, lowered and remembered.
DuckAll ==
    /\ ~AlreadyDucked
    /\ volume' = [s \in Sessions |-> Ducked(s)]
    /\ snapshots' = volume
    /\ spoiled' = (spoiled \/ restoring # Nothing)
    /\ UNCHANGED <<user, restoring, comFaults>>

\* A session raises: the ones before it stay lowered, none is remembered.
DuckFails ==
    /\ ~AlreadyDucked
    /\ comFaults < MaxComFaults
    /\ \E reached \in SUBSET Sessions :
          /\ reached # Sessions
          /\ volume' = [s \in Sessions |-> IF s \in reached THEN Ducked(s)
                                                            ELSE volume[s]]
    /\ comFaults' = comFaults + 1
    /\ spoiled' = TRUE
    /\ UNCHANGED <<user, snapshots, restoring>>

Duck == \/ AlreadyDucked /\ UNCHANGED duckerVars
        \/ DuckAll
        \/ DuckFails

\* restore(), under the lock.
TakeSnapshots ==
    /\ restoring' = snapshots
    /\ snapshots' = Nothing
    /\ UNCHANGED <<user, volume, comFaults, spoiled>>

\* restore(), after it: one session is set to its original volume.
RestoreOne ==
    \E s \in DOMAIN restoring :
        /\ volume' = [volume EXCEPT ![s] = restoring[s]]
        /\ restoring' = Restrict(restoring, DOMAIN restoring \ {s})
        /\ UNCHANGED <<user, snapshots, comFaults, spoiled>>

\* The call on one session raises: it keeps its volume.
RestoreFails ==
    \E s \in DOMAIN restoring :
        /\ comFaults < MaxComFaults
        /\ comFaults' = comFaults + 1
        /\ restoring' = Restrict(restoring, DOMAIN restoring \ {s})
        /\ spoiled' = TRUE
        /\ UNCHANGED <<user, volume, snapshots>>

----------------------------------------------------------------------------
(* Properties.                                                             *)

\* Whatever the user had set can still be put back: a session has the user's
\* volume, or a snapshot or a running restore() holds it.  Overlapping duck
\* and restore, and a failing volume call, are the only ways to lose it.
ExactUnlessSpoiled ==
    ~spoiled => \A s \in Sessions :
        \/ volume[s] = user[s] /\ (s \in DOMAIN snapshots => snapshots[s] = user[s])
        \/ s \in DOMAIN snapshots /\ snapshots[s] = user[s]
        \/ s \in DOMAIN restoring /\ restoring[s] = user[s]
=============================================================================
