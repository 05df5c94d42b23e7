---------------------------- MODULE SharedArtifacts ----------------------------
(***************************************************************************)
(* The node-local artifact cache the cells of one training campaign share  *)
(* (fleet/shared_artifacts.py and its callers in gpu_train_entry.sh).      *)
(* Directories are staged beside their place, moved into it, then marked;  *)
(* blobs are staged in their own directory and renamed; the OpenPI         *)
(* environment is extracted in place.  A process can be killed between any *)
(* two steps, and processes of two cells can work on one artifact.         *)
(***************************************************************************)
EXTENDS Integers, FiniteSets

CONSTANTS
    Cells,          \* a cell's process group goes by the cell's name
    Artifacts,
    KindOf          \* "tree", "blob" or "env"

ASSUME ArtifactsAssumption == KindOf \in [Artifacts -> {"tree", "blob", "env"}]

VARIABLES
    body,           \* what is at an artifact's place
    mark,           \* the artifacts with a marker file
    temps,          \* <<cell, artifact>>: what is staged but not installed
    prep            \* per cell and artifact: how far its preparation is

cacheVars == <<body, mark, temps, prep>>

\* A preparation that ends without success has undone its work ("failed"), has
\* left some of it ("spoiled"), was turned away ("blocked"), or was killed.
Active == {"looking", "staging", "installing", "marking"}
Phases == {"idle", "ready", "failed", "spoiled", "blocked", "killed"} \union Active

CacheInit ==
    /\ body = [a \in Artifacts |-> "absent"]
    /\ mark = {} /\ temps = {}
    /\ prep = [c \in Cells |-> [a \in Artifacts |-> "idle"]]

CacheTypeOK ==
    /\ body \in [Artifacts -> {"absent", "partial", "full"}]
    /\ mark \subseteq Artifacts /\ temps \subseteq Cells \X Artifacts
    /\ prep \in [Cells -> [Artifacts -> Phases]]

At(c, a, phase) == prep[c][a] = phase
Moves(c, a, phase) == prep' = [prep EXCEPT ![c][a] = phase]

----------------------------------------------------------------------------
\* Whether the artifact is there to be used, and whether its place is free.  The
\* environment is trusted by its marker alone, a blob has none.
Usable(a) ==
    /\ KindOf[a] # "env" => body[a] = "full"
    /\ KindOf[a] # "blob" => a \in mark

Free(a) ==
    /\ body[a] = "absent" /\ a \notin mark
    /\ KindOf[a] = "blob" => ~\E c \in Cells : <<c, a>> \in temps

\* (mutant) Whatever is at the place is taken for the artifact.
ReuseIfPresent(c, a) ==
    /\ At(c, a, "looking") /\ body[a] # "absent"
    /\ Moves(c, a, "ready")
    /\ UNCHANGED <<body, mark, temps>>

\* Reuse re-reads every byte.
Reuse(c, a) ==
    /\ At(c, a, "looking") /\ Usable(a)
    /\ Moves(c, a, IF body[a] = "full" THEN "ready" ELSE "failed")
    /\ UNCHANGED <<body, mark, temps>>

\* "requires manual diagnosis"
FindPartial(c, a) ==
    /\ At(c, a, "looking") /\ ~Usable(a) /\ ~Free(a)
    /\ Moves(c, a, "blocked")
    /\ UNCHANGED <<body, mark, temps>>

Begin(c, a) ==
    /\ At(c, a, "looking") /\ Free(a)
    /\ Moves(c, a, "staging")
    /\ body' = IF KindOf[a] = "env" THEN [body EXCEPT ![a] = "partial"] ELSE body
    /\ temps' = IF KindOf[a] = "env" THEN temps ELSE temps \union {<<c, a>>}
    /\ UNCHANGED mark

\* The place an evicted process was working in is gone.
Evicted(c, a) ==
    IF KindOf[a] = "env" THEN body[a] = "absent" ELSE <<c, a>> \notin temps

Staged(c, a) ==
    /\ At(c, a, "staging") /\ ~Evicted(c, a)
    /\ IF KindOf[a] = "env"
       THEN Moves(c, a, "marking") /\ body' = [body EXCEPT ![a] = "full"]
       ELSE Moves(c, a, "installing") /\ UNCHANGED body
    /\ UNCHANGED <<mark, temps>>

\* (mutant) A failed download leaves its temporary file.
StagingFailsUntidy(c, a) ==
    /\ At(c, a, "staging")
    /\ Moves(c, a, "failed")
    /\ UNCHANGED <<body, mark, temps>>

\* The transfer fails: blobs and directories clean up, but a blob that cannot be
\* hashed stays, and so does the environment.
StagingFails(c, a) ==
    /\ At(c, a, "staging")
    /\ \/ /\ KindOf[a] # "env"
          /\ Moves(c, a, "failed") /\ temps' = temps \ {<<c, a>>}
       \/ /\ KindOf[a] # "tree"
          /\ Moves(c, a, "spoiled") /\ UNCHANGED temps
    /\ UNCHANGED <<body, mark>>

\* A directory that finds its place taken, or cannot be moved there, is cleaned up;
\* a blob that cannot be renamed stays, one in place may still miss its mode.
Install(c, a) ==
    /\ At(c, a, "installing")
    /\ \/ /\ ~Evicted(c, a) /\ (KindOf[a] # "blob" => body[a] = "absent" /\ a \notin mark)
          /\ body' = [body EXCEPT ![a] = "full"] /\ temps' = temps \ {<<c, a>>}
          /\ \E phase \in IF KindOf[a] = "blob" THEN {"ready", "failed"} ELSE {"marking"} :
                Moves(c, a, phase)
       \/ /\ KindOf[a] # "blob" \/ Evicted(c, a)
          /\ Moves(c, a, "failed") /\ temps' = temps \ {<<c, a>>} /\ UNCHANGED body
       \/ /\ KindOf[a] = "blob"
          /\ Moves(c, a, "spoiled") /\ UNCHANGED <<body, temps>>
    /\ UNCHANGED mark

\* The marker is written and the bytes are verified against it.  Either can fail,
\* and nothing is undone: the place without its marker, or the marker, stays.
Mark(c, a) ==
    /\ At(c, a, "marking")
    /\ \/ body[a] = "full" /\ Moves(c, a, "ready") /\ mark' = mark \union {a}
       \/ Moves(c, a, "spoiled") /\ mark' \in {mark, mark \union {a}}
    /\ UNCHANGED <<body, temps>>

Prepare(c, a) ==
    \/ Reuse(c, a)
    \/ FindPartial(c, a)
    \/ Begin(c, a)
    \/ Staged(c, a)
    \/ StagingFails(c, a)
    \/ Install(c, a)
    \/ Mark(c, a)

\* A preparing process is killed; what it has on disk stays.
Kill(c, a) ==
    /\ prep[c][a] \in Active
    /\ Moves(c, a, "killed")
    /\ UNCHANGED <<body, mark, temps>>

\* Clearing the cache removes every artifact, marker and staged file.
EvictArtifacts ==
    /\ body' = [a \in Artifacts |-> "absent"]
    /\ mark' = {} /\ temps' = {}
================================================================================
