------------------------------ MODULE ConfigFile ------------------------------
(***************************************************************************)
(* config.toml and the processes that write it: ConfigFile, which loads a  *)
(* revision and saves only over that revision, the copy of a file of an    *)
(* older schema, and the generations kept by the first save of a process.  *)
(* A process may die at any step, a write may fail, and an editor writes   *)
(* the file as it likes.  write_atomic is one step.  A file's content is   *)
(* its schema and the edits it holds; TOML, comments and formatting are    *)
(* left out, and so are files that do not parse.                           *)
(***************************************************************************)
EXTENDS Naturals

CONSTANTS Processes, Edits, Absent,
          Generations,   \* CONFIG_BACKUP_GENERATIONS
          MaxCrashes     \* bound: processes that die

ASSUME GenerationsArePositive == Generations \in Nat \ {0} /\ MaxCrashes \in Nat
ASSUME AbsentIsNothing ==
    Absent \notin Processes /\ Absent \notin [old : BOOLEAN, edits : SUBSET Edits]

VARIABLES
    file,       \* config.toml, or Absent
    copy,       \* config.toml.v<N>.bak
    backups,    \* config.toml.backup.<generation>
    source,     \* ConfigFile::source, by process
    config,     \* the edits a process holds in memory
    owed,       \* ConfigFile::migrated_from
    backedUp,   \* processes with the file in BACKED_UP_CONFIGS
    saving,     \* where a process is: "dead", "idle", or in save
    generation, \* the generation it moves next
    replaced,   \* ghost: the file of an older schema that a save replaced
    overtaken,  \* ghost: edits that landed while another process was saving
    crashes
fileVars == <<file, copy, backups, source, config, owed, backedUp, saving,
              generation, replaced, overtaken, crashes>>

Contents == [old : BOOLEAN, edits : SUBSET Edits]
Maybe == Contents \cup {Absent}
EditsOf(content) == IF content = Absent THEN {} ELSE content.edits
IsOld(content) == content # Absent /\ content.old
Unused == Edits \ (EditsOf(file) \cup overtaken
                     \cup UNION {config[p] : p \in Processes})

FileTypes ==
    /\ file \in Maybe /\ copy \in Maybe /\ replaced \in Maybe
    /\ backups \in [1..Generations -> Maybe]
    /\ source \in [Processes -> Maybe] /\ owed \in [Processes -> Maybe]
    /\ config \in [Processes -> SUBSET Edits]
    /\ backedUp \subseteq Processes
    /\ saving \in [Processes -> {"dead", "idle", "compared", "copied", "rotating", "writing"}]
    /\ generation \in [Processes -> 0..Generations]
    /\ overtaken \subseteq Edits /\ crashes \in 0..MaxCrashes

FileInit ==
    /\ file \in {Absent} \cup [old : BOOLEAN, edits : {{}}]
    /\ copy = Absent /\ backups = [g \in 1..Generations |-> Absent]
    /\ source = [p \in Processes |-> Absent] /\ owed = source
    /\ config = [p \in Processes |-> {}] /\ backedUp = {}
    /\ saving = [p \in Processes |-> "dead"]
    /\ generation = [p \in Processes |-> 0]
    /\ replaced = Absent /\ overtaken = {} /\ crashes = 0
-----------------------------------------------------------------------------
\* Between its comparison and its write a save is committed to replacing the
\* file, whatever lands there meanwhile.
Committed(p) == saving[p] \notin {"dead", "idle"}

Lands(p, before, after) ==
    overtaken' = IF \E q \in Processes \ {p} : Committed(q)
               THEN overtaken \cup (EditsOf(after) \ EditsOf(before)) ELSE overtaken

GiveUp(p) == saving' = [saving EXCEPT ![p] = "idle"]

\* load_from_path: a missing file is the default configuration.
LoadFile(p) ==
    /\ saving[p] = "dead"
    /\ GiveUp(p)
    /\ source' = [source EXCEPT ![p] = file]
    /\ config' = [config EXCEPT ![p] = EditsOf(file)]
    /\ owed' = [owed EXCEPT ![p] = IF IsOld(file) THEN file ELSE Absent]
    /\ backedUp' = backedUp \ {p}
    /\ UNCHANGED <<file, copy, backups, generation, replaced, overtaken, crashes>>

EditInMemory(p, e) ==
    /\ saving[p] = "idle" /\ e \in Unused
    /\ config' = [config EXCEPT ![p] = @ \cup {e}]
    /\ UNCHANGED <<file, copy, backups, source, owed, backedUp, saving,
                   generation, replaced, overtaken, crashes>>

EditByHand(e) ==
    /\ e \in Unused /\ file # Absent
    /\ file' = [file EXCEPT !.edits = @ \cup {e}]
    /\ Lands(Absent, file, file')
    /\ UNCHANGED <<copy, backups, source, config, owed, backedUp, saving,
                   generation, replaced, crashes>>

\* Mutant: a save does not look at what is on disk.
CompareNothing(p) ==
    /\ saving[p] = "idle" /\ config[p] # EditsOf(source[p])
    /\ saving' = [saving EXCEPT ![p] = "compared"]
    /\ UNCHANGED <<file, copy, backups, source, config, owed, backedUp,
                   generation, replaced, overtaken, crashes>>

\* save, up to the comparison; a conflict ends it.
Compare(p) ==
    /\ saving[p] = "idle" /\ config[p] # EditsOf(source[p]) /\ file = source[p]
    /\ saving' = [saving EXCEPT ![p] = "compared"]
    /\ UNCHANGED <<file, copy, backups, source, config, owed, backedUp,
                   generation, replaced, overtaken, crashes>>

\* The copy of the file as loaded; it is owed until the write has landed.
CopyOriginal(p) ==
    /\ saving[p] = "compared"
    /\ \/ /\ copy' = IF owed[p] = Absent THEN copy ELSE owed[p]
          /\ saving' = [saving EXCEPT ![p] = "copied"]
       \/ owed[p] # Absent /\ GiveUp(p) /\ UNCHANGED copy
    /\ UNCHANGED <<file, backups, source, config, owed, backedUp, generation,
                   replaced, overtaken, crashes>>

\* backup_config_once: nothing to do twice, or for a file that is not there.
StartBackup(p) ==
    /\ saving[p] = "copied"
    /\ IF p \in backedUp \/ file = Absent
       THEN /\ saving' = [saving EXCEPT ![p] = "writing"]
            /\ backedUp' = backedUp \cup {p} /\ UNCHANGED generation
       ELSE /\ saving' = [saving EXCEPT ![p] = "rotating"]
            /\ generation' = [generation EXCEPT ![p] = Generations - 1]
            /\ UNCHANGED backedUp
    /\ UNCHANGED <<file, copy, backups, source, config, owed, replaced,
                   overtaken, crashes>>

\* backup_existing_config: the oldest generation goes first.
Rotate(p) ==
    LET g == generation[p]
    IN  /\ saving[p] = "rotating"
        /\ \/ /\ g > 0
              /\ backups' = IF backups[g] = Absent THEN backups
                            ELSE [backups EXCEPT ![g + 1] = backups[g]]
              /\ generation' = [generation EXCEPT ![p] = g - 1]
              /\ UNCHANGED <<saving, backedUp>>
           \/ /\ g = 0
              /\ backups' = [backups EXCEPT ![1] = file]
              /\ backedUp' = backedUp \cup {p}
              /\ saving' = [saving EXCEPT ![p] = "writing"] /\ UNCHANGED generation
           \/ GiveUp(p) /\ UNCHANGED <<backups, backedUp, generation>>
        /\ UNCHANGED <<file, copy, source, config, owed, replaced, overtaken, crashes>>

\* The write, and the debt settled by it.
WriteFile(p) ==
    /\ saving[p] = "writing" /\ GiveUp(p)
    /\ \/ /\ file' = [old |-> FALSE, edits |-> config[p]]
          /\ source' = [source EXCEPT ![p] = file']
          /\ owed' = [owed EXCEPT ![p] = Absent]
          /\ replaced' = IF IsOld(file) THEN file ELSE replaced
          /\ Lands(p, file, file')
       \/ UNCHANGED <<file, source, owed, replaced, overtaken>>
    /\ UNCHANGED <<copy, backups, config, backedUp, generation, crashes>>

Die(p) ==
    /\ saving[p] # "dead" /\ crashes < MaxCrashes /\ crashes' = crashes + 1
    /\ saving' = [saving EXCEPT ![p] = "dead"]
    /\ config' = [config EXCEPT ![p] = {}]
    /\ UNCHANGED <<file, copy, backups, source, owed, backedUp, generation,
                   replaced, overtaken>>

FileNext ==
    \/ \E p \in Processes : \/ LoadFile(p) \/ Compare(p) \/ CopyOriginal(p)
                            \/ StartBackup(p) \/ Rotate(p) \/ WriteFile(p) \/ Die(p)
                            \/ \E e \in Edits : EditInMemory(p, e)
    \/ \E e \in Edits : EditByHand(e)

FileSpec == FileInit /\ [][FileNext]_fileVars
-----------------------------------------------------------------------------
\* What a save read is what it replaces: no process writes an older snapshot
\* over an edit made since by an editor or by another process (ConfigFile),
\* except over one that lands between its own comparison and its write.
EditsSurvive ==
    \A p \in Processes :
        Committed(p) => EditsOf(file) \subseteq config[p] \cup overtaken

\* Once a save has replaced a file of an older schema, a copy of that file
\* lies beside it, whichever writes failed and whichever processes died on
\* the way (ConfigFile::save, migrated_from).
OriginalIsKept ==
    replaced # Absent =>
        IsOld(copy) /\ replaced.edits \subseteq copy.edits \cup overtaken

\* Nothing a save replaces is lost.
NothingIsLost == EditsSurvive /\ OriginalIsKept
-----------------------------------------------------------------------------
(***************************************************************************)
(* The inductive invariant.                                                *)
(***************************************************************************)
\* A process holds what it loaded, and owes a copy of it when it is old.
SourceInv ==
    \A p \in Processes : saving[p] # "dead" =>
        /\ EditsOf(source[p]) \subseteq config[p]
        /\ owed[p] = IF IsOld(source[p]) THEN source[p] ELSE Absent

\* A file of an older schema is replaced once; none is written again.
ReplacedOnce == replaced # Absent => ~IsOld(file)

\* A committed save owes a copy of the old file it will replace, and of the
\* one that another save replaced before it.
DebtInv ==
    \A p \in Processes : Committed(p) =>
        /\ IsOld(file) =>
              owed[p] # Absent /\ EditsOf(file) \subseteq EditsOf(owed[p]) \cup overtaken
        /\ replaced # Absent /\ owed[p] # Absent =>
              EditsOf(replaced) \subseteq EditsOf(owed[p]) \cup overtaken

\* After its copy, the copy holds the old file, also if another save has
\* copied over it.
CopyInv ==
    \A p \in Processes : saving[p] \in {"copied", "rotating", "writing"} /\ IsOld(file) =>
        IsOld(copy) /\ EditsOf(file) \subseteq EditsOf(copy) \cup overtaken

FileInv ==
    /\ FileTypes /\ SourceInv /\ ReplacedOnce /\ DebtInv /\ CopyInv
    /\ EditsSurvive /\ OriginalIsKept
=============================================================================
