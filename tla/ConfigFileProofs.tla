--------------------------- MODULE ConfigFileProofs ---------------------------
(***************************************************************************)
(* Proofs about the configuration: for any processes, edits and number of  *)
(* generations no save loses an edit or the original of an older file      *)
(* (ConfigFile), and for any devices, cables and slots settings stay with  *)
(* their devices (DeviceSettings).                                         *)
(***************************************************************************)
EXTENDS ConfigFile, DeviceSettings, WellFoundedInduction, TLAPS

\* Contents seen through EditsOf and IsOld.
LEMMA ContentFacts ==
    /\ \A c \in Contents : /\ c # Absent /\ EditsOf(c) = c.edits /\ EditsOf(c) \subseteq Edits
                           /\ IsOld(c) <=> c.old
    /\ EditsOf(Absent) = {} /\ ~IsOld(Absent)
    /\ \A e \in SUBSET Edits : /\ [old |-> FALSE, edits |-> e] \in Contents
                               /\ EditsOf([old |-> FALSE, edits |-> e]) = e
                               /\ ~IsOld([old |-> FALSE, edits |-> e])
    /\ \A c \in Maybe : EditsOf(c) \subseteq Edits
<1>1. ASSUME NEW c \in Contents
      PROVE  /\ c # Absent /\ EditsOf(c) = c.edits /\ EditsOf(c) \subseteq Edits
             /\ IsOld(c) <=> c.old
    <2>1. c # Absent /\ c.edits \subseteq Edits
        BY AbsentIsNothing DEF Contents
    <2> QED
        BY <2>1 DEF EditsOf, IsOld
<1>2. EditsOf(Absent) = {} /\ ~IsOld(Absent)
    BY DEF EditsOf, IsOld
<1>3. ASSUME NEW e \in SUBSET Edits
      PROVE  /\ [old |-> FALSE, edits |-> e] \in Contents
             /\ EditsOf([old |-> FALSE, edits |-> e]) = e
             /\ ~IsOld([old |-> FALSE, edits |-> e])
    <2>1. [old |-> FALSE, edits |-> e] \in Contents
        BY DEF Contents
    <2> QED
        BY <1>1, <2>1
<1>4. \A c \in Maybe : EditsOf(c) \subseteq Edits
    BY <1>1, <1>2 DEF Maybe
<1> QED
    BY <1>1, <1>2, <1>3, <1>4

\* The inductive invariant holds initially.
LEMMA InitFileInv == FileInit => FileInv
<1> SUFFICES ASSUME FileInit PROVE FileInv
    OBVIOUS
<1>1. FileTypes
    <2>1. file \in Maybe /\ copy \in Maybe /\ replaced \in Maybe
        BY DEF FileInit, Maybe, Contents
    <2>2. /\ backups \in [1..Generations -> Maybe]
          /\ source \in [Processes -> Maybe] /\ owed \in [Processes -> Maybe]
        BY DEF FileInit, Maybe
    <2>3. /\ config \in [Processes -> SUBSET Edits] /\ backedUp \subseteq Processes
          /\ saving \in [Processes -> {"dead", "idle", "compared", "copied", "rotating",
                                       "writing"}]
          /\ overtaken \subseteq Edits
        BY DEF FileInit
    <2>4. generation \in [Processes -> 0..Generations] /\ crashes \in 0..MaxCrashes
        BY GenerationsArePositive DEF FileInit
    <2> QED
        BY <2>1, <2>2, <2>3, <2>4 DEF FileTypes
<1>2. \A p \in Processes : saving[p] = "dead"
    BY DEF FileInit
<1>3. replaced = Absent
    BY DEF FileInit
<1> QED
    BY <1>1, <1>2, <1>3 DEF FileInv, SourceInv, ReplacedOnce, DebtInv, CopyInv,
       EditsSurvive, OriginalIsKept, Committed
-----------------------------------------------------------------------------
\* Types.
LEMMA TypesStep == FileTypes /\ [FileNext]_fileVars => FileTypes'
<1> SUFFICES ASSUME FileTypes, [FileNext]_fileVars PROVE FileTypes'
    OBVIOUS
<1> USE DEF FileTypes
<1>1. ASSUME NEW p \in Processes, LoadFile(p) PROVE FileTypes'
    <2>1. EditsOf(file) \in SUBSET Edits /\ Absent \in Maybe
        BY ContentFacts DEF Maybe
    <2> QED
        BY <1>1, <2>1 DEF LoadFile, GiveUp
<1>2. ASSUME NEW p \in Processes, NEW e \in Edits, EditInMemory(p, e) PROVE FileTypes'
    BY <1>2 DEF EditInMemory
<1>3. ASSUME NEW e \in Edits, EditByHand(e) PROVE FileTypes'
    <2>1. file \in Contents
        BY <1>3 DEF EditByHand, Maybe
    <2>2. file' \in Contents
        BY <1>3, <2>1 DEF EditByHand, Contents
    <2>3. EditsOf(file') \subseteq Edits
        BY <2>2, ContentFacts
    <2>4. overtaken' \subseteq Edits
        BY <1>3, <2>3 DEF EditByHand, Lands
    <2> QED
        BY <1>3, <2>2, <2>4 DEF EditByHand, Maybe
<1>4. ASSUME NEW p \in Processes, Compare(p) PROVE FileTypes'
    BY <1>4 DEF Compare
<1>5. ASSUME NEW p \in Processes, CopyOriginal(p) PROVE FileTypes'
    BY <1>5 DEF CopyOriginal, GiveUp
<1>6. ASSUME NEW p \in Processes, StartBackup(p) PROVE FileTypes'
    <2>1. Generations - 1 \in 0..Generations
        BY GenerationsArePositive
    <2>2. generation' \in [Processes -> 0..Generations]
        BY <1>6, <2>1 DEF StartBackup
    <2>3. /\ saving' \in [Processes -> {"dead", "idle", "compared", "copied", "rotating",
                                        "writing"}]
          /\ backedUp' \subseteq Processes
        BY <1>6 DEF StartBackup
    <2> QED
        BY <1>6, <2>2, <2>3 DEF StartBackup
<1>7. ASSUME NEW p \in Processes, Rotate(p) PROVE FileTypes'
    <2>1. generation[p] \in 0..Generations /\ Generations \in Nat \ {0}
        BY GenerationsArePositive
    <2>2. generation' \in [Processes -> 0..Generations]
        BY <1>7, <2>1 DEF Rotate
    <2>3. backups' \in [1..Generations -> Maybe]
        <3>1. CASE generation[p] > 0 /\ backups[generation[p]] # Absent
            BY <1>7, <2>1, <3>1 DEF Rotate
        <3> QED
            BY <1>7, <2>1, <3>1 DEF Rotate
    <2>4. /\ saving' \in [Processes -> {"dead", "idle", "compared", "copied", "rotating",
                                        "writing"}]
          /\ backedUp' \subseteq Processes
        BY <1>7 DEF Rotate, GiveUp
    <2> QED
        BY <1>7, <2>2, <2>3, <2>4 DEF Rotate
<1>8. ASSUME NEW p \in Processes, WriteFile(p) PROVE FileTypes'
    <2>1. /\ file' \in Maybe /\ source' \in [Processes -> Maybe]
          /\ owed' \in [Processes -> Maybe] /\ replaced' \in Maybe
        <3>1. CASE UNCHANGED <<file, source, owed, replaced, overtaken>>
            BY <3>1
        <3>2. CASE file' = [old |-> FALSE, edits |-> config[p]]
            <4>1. file' \in Maybe /\ Absent \in Maybe
                BY <3>2, ContentFacts DEF Maybe
            <4>2. /\ source' = source \/ source' = [source EXCEPT ![p] = file']
                  /\ owed' = owed \/ owed' = [owed EXCEPT ![p] = Absent]
                  /\ replaced' \in {file, replaced}
                BY <1>8 DEF WriteFile
            <4> QED
                BY <4>1, <4>2
        <3> QED
            BY <1>8, <3>1, <3>2 DEF WriteFile
    <2>2. overtaken' \subseteq Edits
        <3>1. EditsOf(file') \subseteq Edits
            BY <2>1, ContentFacts
        <3> QED
            BY <1>8, <3>1 DEF WriteFile, Lands
    <2> QED
        BY <1>8, <2>1, <2>2 DEF WriteFile, GiveUp
<1>9. ASSUME NEW p \in Processes, Die(p) PROVE FileTypes'
    <2>1. crashes' \in 0..MaxCrashes
        BY <1>9, GenerationsArePositive DEF Die
    <2> QED
        BY <1>9, <2>1 DEF Die
<1>10. CASE UNCHANGED fileVars
    BY <1>10 DEF fileVars
<1> QED
    BY <1>1, <1>2, <1>3, <1>4, <1>5, <1>6, <1>7, <1>8, <1>9, <1>10 DEF FileNext
-----------------------------------------------------------------------------
\* The parts of the invariant that are about one process.
ProcessInv(p) ==
    /\ saving[p] # "dead" =>
           /\ EditsOf(source[p]) \subseteq config[p]
           /\ owed[p] = IF IsOld(source[p]) THEN source[p] ELSE Absent
    /\ Committed(p) =>
           /\ EditsOf(file) \subseteq config[p] \cup overtaken
           /\ IsOld(file) => owed[p] # Absent
                             /\ EditsOf(file) \subseteq EditsOf(owed[p]) \cup overtaken
           /\ replaced # Absent /\ owed[p] # Absent =>
                  EditsOf(replaced) \subseteq EditsOf(owed[p]) \cup overtaken
    /\ saving[p] \in {"copied", "rotating", "writing"} /\ IsOld(file) =>
           IsOld(copy) /\ EditsOf(file) \subseteq EditsOf(copy) \cup overtaken

\* The parts that are about the file and its copy.
CopyIsKept ==
    replaced # Absent =>
        /\ ~IsOld(file) /\ IsOld(copy)
        /\ EditsOf(replaced) \subseteq EditsOf(copy) \cup overtaken

LEMMA FileInvParts ==
    ASSUME FileTypes
    PROVE  FileInv <=> CopyIsKept /\ \A p \in Processes : ProcessInv(p)
<1>1. CopyIsKept <=> ReplacedOnce /\ OriginalIsKept
    <2>1. IsOld(copy) => EditsOf(copy) = copy.edits
        BY DEF IsOld, EditsOf
    <2>2. replaced # Absent => EditsOf(replaced) = replaced.edits
        BY DEF EditsOf
    <2> QED
        BY <2>1, <2>2 DEF CopyIsKept, ReplacedOnce, OriginalIsKept
<1>2. SourceInv /\ DebtInv /\ CopyInv /\ EditsSurvive
          <=> \A p \in Processes : ProcessInv(p)
    BY DEF SourceInv, DebtInv, CopyInv, EditsSurvive, ProcessInv
<1> QED
    BY <1>1, <1>2 DEF FileInv

\* Loading, editing in memory, the backups and a death touch neither the file
\* nor its copy.
LEMMA AsideKeeps ==
    ASSUME FileInv, NEW p \in Processes, NEW q \in Processes,
           \/ LoadFile(p) \/ StartBackup(p) \/ Rotate(p) \/ Die(p)
           \/ \E e \in Edits : EditInMemory(p, e)
    PROVE  CopyIsKept' /\ ProcessInv(q)'
<1>1. FileTypes /\ CopyIsKept /\ ProcessInv(q)
    BY FileInvParts DEF FileInv
<1>2. UNCHANGED <<file, copy, replaced, overtaken>>
    BY DEF LoadFile, StartBackup, Rotate, Die, EditInMemory
<1>3. CopyIsKept'
    BY <1>1, <1>2 DEF CopyIsKept
<1>4. CASE LoadFile(p) /\ q = p
    <2>1. /\ saving'[q] = "idle" /\ source'[q] = file /\ config'[q] = EditsOf(file)
          /\ owed'[q] = IF IsOld(file) THEN file ELSE Absent
        BY <1>1, <1>4 DEF LoadFile, GiveUp, FileTypes
    <2> QED
        BY <1>3, <2>1 DEF ProcessInv, Committed
<1>5. CASE StartBackup(p) /\ q = p
    <2>1. /\ saving[q] = "copied" /\ saving'[q] \in {"rotating", "writing"}
          /\ UNCHANGED <<source, owed, config>>
        BY <1>1, <1>5 DEF StartBackup, FileTypes
    <2> QED
        BY <1>1, <1>2, <1>3, <2>1 DEF ProcessInv, Committed
<1>6. CASE Rotate(p) /\ q = p
    <2>1. /\ saving[q] = "rotating" /\ saving'[q] \in {"rotating", "writing", "idle"}
          /\ UNCHANGED <<source, owed, config>>
        BY <1>1, <1>6 DEF Rotate, GiveUp, FileTypes
    <2> QED
        BY <1>1, <1>2, <1>3, <2>1 DEF ProcessInv, Committed
<1>7. CASE Die(p) /\ q = p
    <2>1. saving'[q] = "dead"
        BY <1>1, <1>7 DEF Die, FileTypes
    <2> QED
        BY <1>3, <2>1 DEF ProcessInv, Committed
<1>8. CASE q # p \/ \E e \in Edits : EditInMemory(p, e)
    <2>1. /\ saving'[q] = saving[q] /\ source'[q] = source[q] /\ owed'[q] = owed[q]
          /\ config[q] \subseteq config'[q]
        BY <1>1, <1>8
           DEF LoadFile, StartBackup, Rotate, Die, EditInMemory, GiveUp, FileTypes
    <2> QED
        BY <1>1, <1>2, <1>3, <2>1 DEF ProcessInv, Committed
<1> QED
    BY <1>4, <1>5, <1>6, <1>7, <1>8

\* A save that finds the file as it was loaded commits to replacing it.
LEMMA CompareKeeps ==
    ASSUME FileInv, NEW p \in Processes, NEW q \in Processes, Compare(p)
    PROVE  CopyIsKept' /\ ProcessInv(q)'
<1>1. FileTypes /\ CopyIsKept /\ ProcessInv(q)
    BY FileInvParts DEF FileInv
<1>2. UNCHANGED <<file, copy, replaced, overtaken, source, owed, config>>
    BY DEF Compare
<1>3. CopyIsKept'
    BY <1>1, <1>2 DEF CopyIsKept
<1>4. CASE q = p
    <2>1. saving[q] = "idle" /\ saving'[q] = "compared" /\ file = source[q]
        BY <1>1, <1>4 DEF Compare, FileTypes
    <2>2. IsOld(file) => file # Absent /\ replaced = Absent
        BY <1>1 DEF CopyIsKept, IsOld
    <2> QED
        BY <1>1, <1>2, <1>3, <2>1, <2>2 DEF ProcessInv, Committed
<1>5. CASE q # p
    <2>1. saving'[q] = saving[q]
        BY <1>1, <1>5 DEF Compare, FileTypes
    <2> QED
        BY <1>1, <1>2, <1>3, <2>1 DEF ProcessInv, Committed
<1> QED
    BY <1>4, <1>5

\* The copy that a save owes serves every committed save.
LEMMA CopyKeeps ==
    ASSUME FileInv, NEW p \in Processes, NEW q \in Processes, CopyOriginal(p)
    PROVE  CopyIsKept' /\ ProcessInv(q)'
<1>1. FileTypes /\ CopyIsKept /\ ProcessInv(q) /\ ProcessInv(p)
    BY FileInvParts DEF FileInv
<1>2. UNCHANGED <<file, replaced, overtaken, source, owed, config>> /\ saving[p] = "compared"
    BY DEF CopyOriginal
<1>3. \A r \in Processes \ {p} : saving'[r] = saving[r]
    BY <1>1 DEF CopyOriginal, GiveUp, FileTypes
<1>4. owed[p] # Absent => IsOld(owed[p])
    BY <1>1, <1>2 DEF ProcessInv
<1>5. CASE copy' = copy /\ saving'[p] = "idle"
    <2>1. CopyIsKept'
        BY <1>1, <1>2, <1>5 DEF CopyIsKept
    <2> QED
        BY <1>1, <1>2, <1>3, <1>5, <2>1 DEF ProcessInv, Committed
<1>6. CASE copy' = copy /\ owed[p] = Absent /\ saving'[p] = "copied"
    <2>1. CopyIsKept'
        BY <1>1, <1>2, <1>6 DEF CopyIsKept
    <2>2. ~IsOld(file)
        BY <1>1, <1>2, <1>6 DEF ProcessInv, Committed
    <2> QED
        BY <1>1, <1>2, <1>3, <1>6, <2>1, <2>2 DEF ProcessInv, Committed
<1>7. CASE copy' = owed[p] /\ owed[p] # Absent /\ saving'[p] = "copied"
    <2>1. IsOld(copy')
        BY <1>4, <1>7
    <2>2. CopyIsKept'
        BY <1>1, <1>2, <1>7, <2>1 DEF CopyIsKept, ProcessInv, Committed
    <2>3. IsOld(file) => EditsOf(file) \subseteq EditsOf(copy') \cup overtaken
        BY <1>1, <1>2, <1>7 DEF ProcessInv, Committed
    <2> QED
        BY <1>1, <1>2, <1>3, <1>7, <2>1, <2>2, <2>3 DEF ProcessInv, Committed
<1> QED
    <2>1. saving'[p] = "copied" \/ saving'[p] = "idle"
        BY <1>1 DEF CopyOriginal, GiveUp, FileTypes
    <2> QED
        BY <1>1, <1>5, <1>6, <1>7, <2>1 DEF CopyOriginal, GiveUp, FileTypes

\* An edit that lands while a save is committed is overtaken, and no other.
LEMMA LandingIsNoted ==
    ASSUME FileInv, NEW p, NEW after, Lands(p, file, after)
    PROVE  /\ overtaken \subseteq overtaken'
           /\ \A q \in Processes \ {p} :
                 Committed(q) => EditsOf(after) \subseteq EditsOf(file) \cup overtaken'
BY DEF Lands

\* An editor's edit leaves the file as old as it was.
LEMMA HandKeeps ==
    ASSUME FileInv, NEW e \in Edits, EditByHand(e)
    PROVE  CopyIsKept' /\ \A q \in Processes : ProcessInv(q)'
<1>1. FileTypes /\ CopyIsKept /\ \A q \in Processes : ProcessInv(q)
    BY FileInvParts DEF FileInv
<1>2. UNCHANGED <<copy, replaced, source, owed, config, saving>> /\ Lands(Absent, file, file')
    BY DEF EditByHand
<1>3. IsOld(file') <=> IsOld(file)
    <2>1. file \in Contents /\ file' = [file EXCEPT !.edits = @ \cup {e}]
        BY <1>1 DEF EditByHand, FileTypes, Maybe
    <2>2. file' \in Contents /\ file'.old = file.old
        BY <2>1 DEF Contents
    <2> QED
        BY <2>1, <2>2, ContentFacts
<1>4. /\ overtaken \subseteq overtaken'
      /\ \A q \in Processes :
            Committed(q) => EditsOf(file') \subseteq EditsOf(file) \cup overtaken'
    BY <1>2, LandingIsNoted, AbsentIsNothing
<1>5. CopyIsKept'
    BY <1>1, <1>2, <1>3, <1>4 DEF CopyIsKept
<1> QED
    BY <1>1, <1>2, <1>3, <1>4, <1>5 DEF ProcessInv, Committed

\* The write of a save, which has its copy, or which has none to make.
LEMMA WriteKeeps ==
    ASSUME FileInv, NEW p \in Processes, NEW q \in Processes, WriteFile(p)
    PROVE  CopyIsKept' /\ ProcessInv(q)'
<1>1. FileTypes /\ CopyIsKept /\ ProcessInv(q) /\ ProcessInv(p)
    BY FileInvParts DEF FileInv
<1>2. /\ copy' = copy /\ config' = config /\ saving[p] = "writing" /\ saving'[p] = "idle"
      /\ \A r \in Processes \ {p} : saving'[r] = saving[r]
    BY <1>1 DEF WriteFile, GiveUp, FileTypes
<1>3. CASE UNCHANGED <<file, source, owed, replaced, overtaken>>
    <2>1. CopyIsKept'
        BY <1>1, <1>2, <1>3 DEF CopyIsKept
    <2> QED
        BY <1>1, <1>2, <1>3, <2>1 DEF ProcessInv, Committed
<1>4. CASE /\ file' = [old |-> FALSE, edits |-> config[p]]
           /\ source' = [source EXCEPT ![p] = file'] /\ owed' = [owed EXCEPT ![p] = Absent]
           /\ replaced' = IF IsOld(file) THEN file ELSE replaced
           /\ Lands(p, file, file')
    <2>1. EditsOf(file') = config[p] /\ ~IsOld(file')
        BY <1>1, <1>4, ContentFacts DEF FileTypes
    <2>2. /\ overtaken \subseteq overtaken'
          /\ q # p /\ Committed(q) => EditsOf(file') \subseteq EditsOf(file) \cup overtaken'
        BY <1>4, LandingIsNoted
    <2>3. CopyIsKept'
        BY <1>1, <1>2, <1>4, <2>1, <2>2 DEF CopyIsKept, ProcessInv
    <2>4. CASE q = p
        <3>1. source'[q] = file' /\ owed'[q] = Absent
            BY <1>1, <1>4, <2>4 DEF FileTypes
        <3> QED
            BY <1>2, <2>1, <2>3, <2>4, <3>1 DEF ProcessInv, Committed
    <2>5. CASE q # p
        <3>1. source'[q] = source[q] /\ owed'[q] = owed[q]
            BY <1>1, <1>4, <2>5 DEF FileTypes
        <3>2. Committed(q) /\ replaced' # Absent /\ owed[q] # Absent =>
                  EditsOf(replaced') \subseteq EditsOf(owed[q]) \cup overtaken'
            BY <1>1, <1>4, <2>2, <2>5 DEF ProcessInv
        <3> QED
            BY <1>1, <1>2, <2>1, <2>2, <2>3, <2>5, <3>1, <3>2 DEF ProcessInv, Committed
    <2> QED
        BY <2>4, <2>5
<1> QED
    BY <1>3, <1>4 DEF WriteFile

\* Every step keeps the inductive invariant.
LEMMA NextFileInv == FileInv /\ [FileNext]_fileVars => FileInv'
<1> SUFFICES ASSUME FileInv, [FileNext]_fileVars PROVE FileInv'
    OBVIOUS
<1>1. FileTypes'
    BY TypesStep DEF FileInv
<1>2. CopyIsKept' /\ \A q \in Processes : ProcessInv(q)'
    <2>1. CASE UNCHANGED fileVars
        <3>1. CopyIsKept /\ \A q \in Processes : ProcessInv(q)
            BY FileInvParts DEF FileInv
        <3> QED
            BY <2>1, <3>1 DEF fileVars, CopyIsKept, ProcessInv, Committed
    <2>2. ASSUME NEW p \in Processes,
                 \/ LoadFile(p) \/ Compare(p) \/ CopyOriginal(p) \/ StartBackup(p)
                 \/ Rotate(p) \/ WriteFile(p) \/ Die(p)
                 \/ \E e \in Edits : EditInMemory(p, e)
          PROVE  CopyIsKept' /\ \A q \in Processes : ProcessInv(q)'
        BY <2>2, AsideKeeps, CompareKeeps, CopyKeeps, WriteKeeps
    <2>3. ASSUME NEW e \in Edits, EditByHand(e)
          PROVE  CopyIsKept' /\ \A q \in Processes : ProcessInv(q)'
        BY <2>3, HandKeeps
    <2> QED
        BY <2>1, <2>2, <2>3 DEF FileNext
<1>3. ReplacedOnce' /\ OriginalIsKept'
    BY <1>2 DEF CopyIsKept, ReplacedOnce, OriginalIsKept, IsOld, EditsOf
<1>4. SourceInv' /\ DebtInv' /\ CopyInv' /\ EditsSurvive'
    BY <1>2 DEF SourceInv, DebtInv, CopyInv, EditsSurvive, ProcessInv
<1> QED
    BY <1>1, <1>3, <1>4 DEF FileInv
-----------------------------------------------------------------------------
\* The inductive invariant holds in every reachable state.
THEOREM ConfigInvariant == FileSpec => []FileInv
BY InitFileInv, NextFileInv, PTL DEF FileSpec

\* Whatever processes save at the same time, fail or die, no save loses an
\* edit made before it compared, and the original of a file of an older
\* schema lies beside the file that replaced it.
THEOREM NothingSavedIsLost == FileSpec => []NothingIsLost
<1>1. FileInv => NothingIsLost
    BY DEF FileInv, NothingIsLost
<1> QED
    BY <1>1, ConfigInvariant, PTL
-----------------------------------------------------------------------------
(***************************************************************************)
(* Whose settings are whose (DeviceSettings).  The keys of a file are      *)
(* renamed cable by cable, which is shown by the least cable where it      *)
(* would fail; the repair of the routes, and then every adoption, leave a  *)
(* route in the links of one entry.                                        *)
(***************************************************************************)
AllEntries == [EntryKeys -> Entries \cup {Unset}]

\* What an entry is not, and what is in one.
LEMMA EntryFacts ==
    /\ \A e \in Entries : /\ e # Unset /\ e.dpi \in {0} \cup Values /\ e.invert \in BOOLEAN
                          /\ e.alias \in {0} \cup Values /\ e.target \in EntryKeys \cup {Unset}
                          /\ e.links \in [Routes -> Links \cup {Unset}]
    /\ \A x \in Links : /\ x # Unset /\ x.dpi \in {0} \cup Values
                        /\ x.invert \in {FALSE, TRUE, Unset} /\ x.caps \in 0..1
    /\ NoLink \in Links /\ NoLinks \in [Routes -> Links \cup {Unset}] /\ NoEntry \in Entries
    /\ NoEntry.links = NoLinks /\ NoEntry.dpi = 0 /\ NoEntry.target = Unset
    /\ ~NoEntry.invert
<1>1. NoLink \in Links
  BY DEF NoLink, Links
<1>2. NoLinks \in [Routes -> Links \cup {Unset}]
  BY DEF NoLinks
<1>3. NoEntry \in Entries
  BY <1>2 DEF NoEntry, Entries, Values
<1>4. \A e \in Entries : e # Unset
  BY UnsetIsNothing
<1>5. \A x \in Links : x # Unset
  BY UnsetIsNothing
<1>6. \A e \in Entries : /\ e.dpi \in {0} \cup Values /\ e.invert \in BOOLEAN
                         /\ e.alias \in {0} \cup Values /\ e.target \in EntryKeys \cup {Unset}
                         /\ e.links \in [Routes -> Links \cup {Unset}]
  BY DEF Entries
<1>7. \A x \in Links : /\ x.dpi \in {0} \cup Values /\ x.invert \in {FALSE, TRUE, Unset}
                       /\ x.caps \in 0..1
  BY DEF Links
<1> QED
  BY <1>1, <1>2, <1>3, <1>4, <1>5, <1>6, <1>7 DEF NoEntry

\* The link of an entry, which may be a new one.
LEMMA LinkFacts ==
    ASSUME NEW e \in Entries, NEW r \in Routes
    PROVE  /\ LinkOf(e, r) \in Links
           /\ e.links[r] # Unset => LinkOf(e, r) = e.links[r]
           /\ e.links[r] = Unset => LinkOf(e, r) = NoLink
BY EntryFacts DEF LinkOf

\* A fold is an entry; a value of the device stays, and one that differs is
\* kept in the route's link.
LEMMA FoldFacts ==
    ASSUME NEW e \in Entries, NEW l \in Entries, NEW r \in Routes
    PROVE  /\ Fold(e, l, r) \in Entries
           /\ Fold(e, l, r).dpi = IF e.dpi = 0 THEN l.dpi ELSE e.dpi
           /\ Fold(e, l, r).invert = e.invert
           /\ Fold(e, l, r).target = IF e.target = Unset THEN l.target ELSE e.target
           /\ \A q \in Routes : q # r => Fold(e, l, r).links[q] =
                  IF e.links[q] # Unset THEN e.links[q] ELSE l.links[q]
           /\ Fold(e, l, r).links[r] \in Links
           /\ e.links[r] # Unset => Fold(e, l, r).links[r].dpi =
                  IF e.dpi # 0 /\ l.dpi \notin {0, e.dpi} THEN l.dpi ELSE e.links[r].dpi
<1> DEFINE joined == [q \in Routes |-> IF e.links[q] # Unset THEN e.links[q] ELSE l.links[q]]
           link == LinkOf([e EXCEPT !.links = joined], r)
           differs == e.dpi # 0 /\ l.dpi \notin {0, e.dpi}
           made == [link EXCEPT !.dpi = IF differs THEN l.dpi ELSE @,
                                !.invert = IF l.invert /\ ~e.invert THEN TRUE ELSE @]
           f == Fold(e, l, r)
<1>1. joined \in [Routes -> Links \cup {Unset}]
  BY EntryFacts
<1>2. [e EXCEPT !.links = joined] \in Entries /\ [e EXCEPT !.links = joined].links = joined
  BY <1>1 DEF Entries
<1>3. link \in Links /\ (e.links[r] # Unset => link = e.links[r])
  BY <1>2, LinkFacts
<1>4. f = [dpi |-> IF e.dpi = 0 THEN l.dpi ELSE e.dpi,
           invert |-> e.invert,
           alias |-> IF e.alias = 0 THEN l.alias ELSE e.alias,
           target |-> IF e.target = Unset THEN l.target ELSE e.target,
           links |-> [joined EXCEPT ![r] = made]]
  BY DEF Fold
<1> HIDE DEF joined, link, f
<1>5. made \in Links /\ made.dpi = IF differs THEN l.dpi ELSE link.dpi
  <2> DEFINE dpi == IF differs THEN l.dpi ELSE link.dpi
             invert == IF l.invert /\ ~e.invert THEN TRUE ELSE link.invert
  <2>1. dpi \in {0} \cup Values /\ invert \in {FALSE, TRUE, Unset}
    BY <1>3, EntryFacts
  <2>2. made = [link EXCEPT !.dpi = dpi, !.invert = invert]
    OBVIOUS
  <2> HIDE DEF dpi, invert, made
  <2>3. made \in Links /\ made.dpi = dpi
    BY <1>3, <2>1, <2>2 DEF Links
  <2> QED
    BY <2>3 DEF dpi
<1> HIDE DEF made
<1>6. [joined EXCEPT ![r] = made] \in [Routes -> Links \cup {Unset}]
  BY <1>1, <1>5
<1>7. f \in Entries
  BY <1>4, <1>6, EntryFacts DEF Entries
<1>8. f.links[r] = made /\ \A q \in Routes : q # r => f.links[q] = joined[q]
  BY <1>1, <1>4
<1>9. /\ f.dpi = IF e.dpi = 0 THEN l.dpi ELSE e.dpi
      /\ f.invert = e.invert
      /\ f.target = IF e.target = Unset THEN l.target ELSE e.target
  BY <1>4
<1>10. \A q \in Routes : joined[q] = IF e.links[q] # Unset THEN e.links[q] ELSE l.links[q]
  BY DEF joined
<1> QED
  BY <1>3, <1>5, <1>7, <1>8, <1>9, <1>10 DEF f

\* A wheel that only the legacy entry reverses is reversed on the route.
LEMMA FoldReverses ==
    ASSUME NEW e \in Entries, NEW l \in Entries, NEW r \in Routes, e.links[r] # Unset
    PROVE  /\ l.invert = FALSE \/ e.invert = TRUE =>
                  Fold(e, l, r).links[r].invert = e.links[r].invert
           /\ l.invert = TRUE /\ e.invert = FALSE => Fold(e, l, r).links[r].invert = TRUE
<1> DEFINE joined == [q \in Routes |-> IF e.links[q] # Unset THEN e.links[q] ELSE l.links[q]]
           link == LinkOf([e EXCEPT !.links = joined], r)
           made == [link EXCEPT !.dpi = IF e.dpi # 0 /\ l.dpi \notin {0, e.dpi} THEN l.dpi ELSE @,
                                !.invert = IF l.invert /\ ~e.invert THEN TRUE ELSE @]
<1>1. joined \in [Routes -> Links \cup {Unset}] /\ joined[r] = e.links[r]
  BY EntryFacts
<1>2. [e EXCEPT !.links = joined].links = joined
  BY <1>1 DEF Entries
<1>3. link = e.links[r] /\ link \in Links
  BY <1>1, <1>2 DEF LinkOf
<1>4. Fold(e, l, r).links = [joined EXCEPT ![r] = made]
  BY DEF Fold
<1> HIDE DEF joined, link
<1>5. Fold(e, l, r).links[r] = made
  <2> HIDE DEF made
  <2> QED
    BY <1>1, <1>4
<1>6. made.invert = IF l.invert /\ ~e.invert THEN TRUE ELSE link.invert
  BY <1>3 DEF Links
<1> HIDE DEF made
<1>7. e.invert \in BOOLEAN /\ l.invert \in BOOLEAN
  BY EntryFacts
<1> QED
  BY <1>3, <1>5, <1>6, <1>7

\* One cable's entries, renamed.
LEMMA RenamedFacts ==
    ASSUME NEW ents \in AllEntries, NEW c \in CableSet
    PROVE  LET new == RenamedFrom(ents, c)
           IN  /\ new \in AllEntries
               /\ \A k \in Slots : new[k] = ents[k]
               /\ \A b \in CableSet, d \in Owners :
                      new[<<b, d>>] = IF b = c THEN Unset ELSE ents[<<b, d>>]
               /\ \A d \in Owners :
                      /\ Has(ents, d) => /\ Has(new, d)
                                         /\ ents[d].target # Unset =>
                                                new[d].target = ents[d].target
                      /\ Has(ents, <<c, d>>) => Has(new, d)
<1> DEFINE new == RenamedFrom(ents, c)
<1>1. ASSUME NEW d \in Owners
      PROVE  /\ Renamed(ents, c, d)[d] \in Entries \cup {Unset}
             /\ Has(ents, d) => /\ Renamed(ents, c, d)[d] # Unset
                                /\ ents[d].target # Unset =>
                                       Renamed(ents, c, d)[d].target = ents[d].target
             /\ Has(ents, <<c, d>>) => Renamed(ents, c, d)[d] # Unset
  <2>0. <<c, d>> \in Scoped /\ d \in EntryKeys /\ <<c, d>> \in EntryKeys /\ <<c, d>> # d
        /\ c \in Routes
    BY KeysAreApart DEF Scoped, EntryKeys, Routes
  <2>1. CASE ~Has(ents, <<c, d>>)
    BY <2>0, <2>1, EntryFacts DEF Renamed, AllEntries, Has
  <2>2. CASE Has(ents, <<c, d>>)
    <3> DEFINE old == ents[<<c, d>>]
               moved == [old EXCEPT !.links[c] = LinkOf(old, c)]
               made == IF ents[d] = Unset THEN moved ELSE Fold(ents[d], moved, c)
    <3>1. old \in Entries
      BY <2>0, <2>2 DEF AllEntries, Has
    <3>2. moved \in Entries
      <4>1. LinkOf(old, c) \in Links
        BY <2>0, <3>1, LinkFacts
      <4>2. [old.links EXCEPT ![c] = LinkOf(old, c)] \in [Routes -> Links \cup {Unset}]
        BY <2>0, <3>1, <4>1, EntryFacts
      <4>3. moved = [old EXCEPT !.links = [old.links EXCEPT ![c] = LinkOf(old, c)]]
        OBVIOUS
      <4> HIDE DEF moved, old
      <4> QED
        BY <3>1, <4>2, <4>3 DEF Entries
    <3>3. Renamed(ents, c, d) = [ents EXCEPT ![<<c, d>>] = Unset,
                                             ![d] = IF @ = Unset THEN moved ELSE Fold(@, moved, c)]
      BY <2>2 DEF Renamed
    <3> HIDE DEF moved, old
    <3>4. Renamed(ents, c, d)[d] = made
      BY <2>0, <3>3 DEF AllEntries
    <3>5. ents[d] # Unset => ents[d] \in Entries
      BY <2>0 DEF AllEntries
    <3>6. ents[d] # Unset => /\ made \in Entries
                             /\ ents[d].target # Unset => made.target = ents[d].target
      <4>1. ASSUME ents[d] \in Entries
            PROVE  /\ Fold(ents[d], moved, c) \in Entries
                   /\ ents[d].target # Unset => Fold(ents[d], moved, c).target = ents[d].target
        BY <2>0, <3>2, <4>1, FoldFacts
      <4> QED
        BY <3>5, <4>1
    <3>7. made \in Entries
      BY <3>2, <3>6
    <3> HIDE DEF made
    <3> QED
      BY <2>2, <3>4, <3>6, <3>7, EntryFacts DEF Has
  <2> QED
    BY <2>1, <2>2
<1>2. \A k \in EntryKeys : new[k] = IF k \in Owners THEN Renamed(ents, c, k)[k]
                                    ELSE IF k \in {c} \X Owners THEN Unset ELSE ents[k]
  BY DEF RenamedFrom
<1>3. new \in AllEntries
  <2>1. \A k \in EntryKeys : (IF k \in Owners THEN Renamed(ents, c, k)[k]
                              ELSE IF k \in {c} \X Owners THEN Unset ELSE ents[k])
                                \in Entries \cup {Unset}
    BY <1>1 DEF AllEntries
  <2> QED
    BY <2>1 DEF RenamedFrom, AllEntries
<1> HIDE DEF new
<1>4. ASSUME NEW k \in Slots PROVE new[k] = ents[k]
  <2>1. k \notin Owners /\ k \notin {c} \X Owners /\ k \in EntryKeys
    BY KeysAreApart DEF Scoped, EntryKeys
  <2> QED
    BY <1>2, <2>1
<1>5. ASSUME NEW b \in CableSet, NEW d \in Owners
      PROVE  new[<<b, d>>] = IF b = c THEN Unset ELSE ents[<<b, d>>]
  <2>1. <<b, d>> \notin Owners /\ <<b, d>> \in EntryKeys /\ (<<b, d>> \in {c} \X Owners <=> b = c)
    BY KeysAreApart DEF Scoped, EntryKeys
  <2> QED
    BY <1>2, <2>1
<1>6. \A d \in Owners : new[d] = Renamed(ents, c, d)[d]
  BY <1>2 DEF EntryKeys
<1> QED
  BY <1>1, <1>3, <1>4, <1>5, <1>6 DEF new, Has

\* The first of a set of places.
LEMMA LeastPlace == ASSUME NEW T \in SUBSET Nat, T # {} PROVE \E m \in T : \A y \in T : m <= y
<1> DEFINE R == {ss \in Nat \X Nat : ss[1] < ss[2]}
<1>1. R = OpToRel(<, Nat)
  BY DEF OpToRel
<1>2. IsWellFoundedOn(R, Nat)
  BY <1>1, NatLessThanWellFounded
<1> HIDE DEF R
<1>3. PICK m \in T : \A y \in T : ~(<<y, m>> \in R)
  BY <1>2, WFMin
<1>4. \A y \in T : y \in Nat /\ m \in Nat /\ (<<y, m>> \in R <=> y < m)
  BY DEF R
<1>5. ASSUME NEW y \in T PROVE m <= y
  <2>1. ~(<<y, m>> \in R)
    BY <1>3
  <2>2. y \in Nat /\ m \in Nat /\ ~(y < m)
    BY <1>4, <2>1
  <2> QED
    BY <2>2
<1> QED
  BY <1>5

\* How far the renaming of a file has come: the first n cables are done.
Step(g, ents, n) ==
    g = [i \in 0..n |-> IF i = 0 THEN ents ELSE RenamedFrom(g[i - 1], Cables[i])]
DoneUpto(new, ents, n) ==
    /\ new \in AllEntries
    /\ \A k \in Slots : new[k] = ents[k]
    /\ \A j \in 1..Len(Cables), d \in Owners :
           new[<<Cables[j], d>>] = IF j <= n THEN Unset ELSE ents[<<Cables[j], d>>]
    /\ \A d \in Owners :
           /\ Has(ents, d) => /\ Has(new, d)
                              /\ ents[d].target # Unset => new[d].target = ents[d].target
           /\ \A j \in 1..Len(Cables) : j <= n /\ Has(ents, <<Cables[j], d>>) => Has(new, d)

\* What the recursion defines is there.
LEMMA RenamingIsDefined ==
    ASSUME NEW ents PROVE \A n \in 0..Len(Cables) : \E g : Step(g, ents, n)
<1>1. Len(Cables) \in Nat
  BY CablesAreDistinct
<1> DEFINE Bad == {n \in 0..Len(Cables) : ~\E g : Step(g, ents, n)}
<1> SUFFICES ASSUME Bad # {} PROVE FALSE
  OBVIOUS
<1>2. PICK m \in Bad : \A y \in Bad : m <= y
  <2>1. Bad \in SUBSET Nat
    BY <1>1
  <2> HIDE DEF Bad
  <2> QED
    BY <2>1, LeastPlace
<1>3. m \in 0..Len(Cables) /\ ~\E g : Step(g, ents, m)
  OBVIOUS
<1>4. m # 0
  <2> DEFINE g == [i \in 0..0 |-> ents]
  <2>1. Step(g, ents, 0)
    BY DEF Step
  <2> HIDE DEF g
  <2> QED
    BY <1>3, <2>1
<1>5. m - 1 \in 0..Len(Cables) /\ m - 1 \notin Bad
  <2>1. m - 1 \in 0..Len(Cables) /\ ~(m <= m - 1)
    BY <1>1, <1>3, <1>4
  <2> HIDE DEF Bad
  <2> QED
    BY <1>2, <2>1
<1>6. PICK h : Step(h, ents, m - 1)
  BY <1>5
<1> HIDE DEF Bad
<1> DEFINE g == [i \in 0..m |-> IF i = m THEN RenamedFrom(h[m - 1], Cables[m]) ELSE h[i]]
<1>7. \A i \in 0..m : g[i] = IF i = 0 THEN ents ELSE RenamedFrom(g[i - 1], Cables[i])
  <2>1. \A i \in 0..(m - 1) : h[i] = IF i = 0 THEN ents ELSE RenamedFrom(h[i - 1], Cables[i])
    BY <1>6 DEF Step
  <2>2. ASSUME NEW i \in 0..m PROVE g[i] = IF i = 0 THEN ents ELSE RenamedFrom(g[i - 1], Cables[i])
    <3>1. CASE i = m
      <4>1. m - 1 \in 0..m /\ m - 1 # m /\ m \in 0..m
        BY <1>1, <1>3, <1>4
      <4>2. g[m] = RenamedFrom(h[m - 1], Cables[m]) /\ g[m - 1] = h[m - 1]
        BY <4>1
      <4> QED
        BY <1>4, <3>1, <4>2
    <3>2. CASE i # m /\ i # 0
      <4>1. i \in 0..(m - 1) /\ i - 1 \in 0..m /\ i - 1 # m
        BY <1>1, <1>3, <3>2
      <4>2. g[i] = h[i] /\ g[i - 1] = h[i - 1]
        BY <3>2, <4>1
      <4> QED
        BY <2>1, <3>2, <4>1, <4>2
    <3>3. CASE i = 0
      <4>1. 0 \in 0..(m - 1) /\ 0 \in 0..m
        BY <1>1, <1>3, <1>4
      <4>2. g[0] = h[0]
        BY <1>4, <4>1
      <4> QED
        BY <2>1, <3>3, <4>1, <4>2
    <3> QED
      BY <3>1, <3>2, <3>3
  <2> QED
    BY <2>2
<1>8. Step(g, ents, m)
  <2>1. g = [i \in 0..m |-> g[i]]
    OBVIOUS
  <2> HIDE DEF g
  <2> QED
    BY <1>7, <2>1 DEF Step
<1> HIDE DEF g
<1> QED
  BY <1>3, <1>8

\* Every cable is done in its turn.
LEMMA RenamingGoesOn ==
    ASSUME NEW ents \in AllEntries, NEW g, Step(g, ents, Len(Cables))
    PROVE  DoneUpto(g[Len(Cables)], ents, Len(Cables))
<1>1. /\ Len(Cables) \in Nat /\ \A i \in 1..Len(Cables) : Cables[i] \in CableSet
      /\ \A i, j \in 1..Len(Cables) : Cables[i] = Cables[j] => i = j
  BY CablesAreDistinct
<1>2. \A i \in 0..Len(Cables) : g[i] = IF i = 0 THEN ents ELSE RenamedFrom(g[i - 1], Cables[i])
  BY DEF Step
<1> DEFINE Bad == {n \in 0..Len(Cables) : ~DoneUpto(g[n], ents, n)}
<1> SUFFICES ASSUME Bad # {} PROVE FALSE
  BY <1>1
<1>3. PICK m \in Bad : \A y \in Bad : m <= y
  <2>1. Bad \in SUBSET Nat
    BY <1>1
  <2> HIDE DEF Bad
  <2> QED
    BY <2>1, LeastPlace
<1>4. m \in 0..Len(Cables) /\ ~DoneUpto(g[m], ents, m)
  OBVIOUS
<1>5. CASE m = 0
  <2>1. g[0] = ents
    BY <1>1, <1>2
  <2>2. DoneUpto(ents, ents, 0)
    BY <1>1 DEF DoneUpto
  <2> QED
    BY <1>4, <1>5, <2>1, <2>2
<1>6. CASE m # 0
  <2>1. m - 1 \in 0..Len(Cables) /\ m \in 1..Len(Cables)
    BY <1>1, <1>4, <1>6
  <2>2. m - 1 \notin Bad
    <3>1. ~(m <= m - 1)
      BY <1>1, <1>4
    <3> HIDE DEF Bad
    <3> QED
      BY <1>3, <3>1
  <2>3. DoneUpto(g[m - 1], ents, m - 1)
    BY <2>1, <2>2
  <2> HIDE DEF Bad
  <2> DEFINE old == g[m - 1]
             new == RenamedFrom(old, Cables[m])
  <2>4. g[m] = new
    BY <1>2, <1>4, <1>6
  <2>5. old \in AllEntries /\ Cables[m] \in CableSet
    BY <1>1, <2>1, <2>3 DEF DoneUpto
  <2>6. DoneUpto(old, ents, m - 1)
    BY <2>3
  <2> HIDE DEF old
  <2>7. /\ new \in AllEntries
        /\ \A k \in Slots : new[k] = old[k]
        /\ \A b \in CableSet, d \in Owners :
               new[<<b, d>>] = IF b = Cables[m] THEN Unset ELSE old[<<b, d>>]
        /\ \A d \in Owners :
               /\ Has(old, d) => /\ Has(new, d)
                                 /\ old[d].target # Unset => new[d].target = old[d].target
               /\ Has(old, <<Cables[m], d>>) => Has(new, d)
    BY <2>5, RenamedFacts
  <2> HIDE DEF new
  <2>8. ASSUME NEW j \in 1..Len(Cables), NEW d \in Owners
        PROVE  /\ new[<<Cables[j], d>>] = IF j <= m THEN Unset ELSE ents[<<Cables[j], d>>]
               /\ j <= m /\ Has(ents, <<Cables[j], d>>) => Has(new, d)
    <3>1. /\ j \in Nat /\ m \in Nat /\ Cables[j] \in CableSet
          /\ Cables[j] = Cables[m] <=> j = m
          /\ j <= m - 1 <=> j <= m /\ j # m
      BY <1>1, <2>1
    <3>2. CASE j = m
      <4>1. ~(j <= m - 1) /\ j <= m
        BY <3>1, <3>2
      <4>2. old[<<Cables[m], d>>] = ents[<<Cables[m], d>>]
        BY <2>1, <2>6, <3>2, <4>1 DEF DoneUpto
      <4> QED
        BY <2>7, <3>1, <3>2, <4>1, <4>2 DEF Has
    <3>3. CASE j # m
      <4>1. new[<<Cables[j], d>>] = old[<<Cables[j], d>>]
        BY <2>7, <3>1, <3>3
      <4>2. old[<<Cables[j], d>>] = IF j <= m - 1 THEN Unset ELSE ents[<<Cables[j], d>>]
        BY <2>6 DEF DoneUpto
      <4>3. j <= m /\ Has(ents, <<Cables[j], d>>) => Has(old, d)
        BY <2>6, <3>1, <3>3 DEF DoneUpto
      <4> QED
        BY <2>7, <3>1, <3>3, <4>1, <4>2, <4>3
    <3> QED
      BY <3>2, <3>3
  <2>9. \A d \in Owners :
            Has(ents, d) => /\ Has(new, d)
                            /\ ents[d].target # Unset => new[d].target = ents[d].target
    BY <2>6, <2>7 DEF DoneUpto
  <2>10. \A k \in Slots : new[k] = ents[k]
    BY <2>6, <2>7 DEF DoneUpto
  <2>11. DoneUpto(new, ents, m)
    BY <2>7, <2>8, <2>9, <2>10 DEF DoneUpto
  <2> QED
    BY <1>4, <2>4, <2>11
<1> QED
  BY <1>5, <1>6

\* All cables' entries are renamed, and nothing is lost of what is named.
LEMMA AllAreRenamed ==
    ASSUME NEW ents \in AllEntries PROVE DoneUpto(RenamedAll(ents), ents, Len(Cables))
<1> DEFINE u == CHOOSE g : g = [i \in 0..Len(Cables) |->
                                   IF i = 0 THEN ents ELSE RenamedFrom(g[i - 1], Cables[i])]
<1>1. Len(Cables) \in 0..Len(Cables)
  BY CablesAreDistinct
<1>2. \E g : Step(g, ents, Len(Cables))
  BY <1>1, RenamingIsDefined
<1>3. u = [i \in 0..Len(Cables) |-> IF i = 0 THEN ents ELSE RenamedFrom(u[i - 1], Cables[i])]
  BY <1>2, Zenon DEF Step
<1>4. RenamedAll(ents) = u[Len(Cables)]
  BY Zenon DEF RenamedAll
<1> HIDE DEF u
<1>5. Step(u, ents, Len(Cables))
  BY <1>3 DEF Step
<1> QED
  BY <1>4, <1>5, RenamingGoesOn

\* The owner of a route is an entry that has a link for it, if one does.
LEMMA FirstOwnerFacts ==
    ASSUME NEW ents, NEW r
    PROVE  /\ FirstOwner(ents, r) # Unset =>
                  FirstOwner(ents, r) \in EntryKeys /\ Indexes(ents, FirstOwner(ents, r), r)
           /\ \A k \in EntryKeys : Indexes(ents, k, r) => FirstOwner(ents, r) # Unset
<1> DEFINE claims == {i \in DOMAIN KeyOrder : Indexes(ents, KeyOrder[i], r)}
           first == CHOOSE i \in claims : \A j \in claims : i <= j
<1>1. FirstOwner(ents, r) = IF claims = {} THEN Unset ELSE KeyOrder[first]
  BY DEF FirstOwner
<1>2. \A i \in claims : i \in Nat /\ KeyOrder[i] \in EntryKeys /\ Indexes(ents, KeyOrder[i], r)
  BY OrderIsWhole
<1>3. \A k \in EntryKeys : Indexes(ents, k, r) => claims # {}
  BY OrderIsWhole
<1> HIDE DEF claims
<1>4. claims # {} => first \in claims
  <2> SUFFICES ASSUME claims # {} PROVE first \in claims
    OBVIOUS
  <2>1. claims \in SUBSET Nat
    BY <1>2
  <2>2. \E m \in claims : \A y \in claims : m <= y
    BY <2>1, LeastPlace
  <2> QED
    BY <2>2
<1> HIDE DEF first
<1> QED
  BY <1>1, <1>2, <1>3, <1>4, UnsetIsNothing

\* What the repair makes of each entry.
LEMMA RepairedFacts ==
    ASSUME NEW ents \in AllEntries
    PROVE  LET new == Repaired(ents)
           IN  /\ new \in AllEntries
               /\ \A k \in EntryKeys :
                      /\ Has(new, k) <=> Has(ents, k)
                      /\ Has(ents, k) =>
                             /\ new[k].target = Unscoped(ents[k].target)
                             /\ \A r \in Routes : new[k].links[r] =
                                    IF FirstOwner(ents, r) = k THEN ents[k].links[r] ELSE Unset
<1> DEFINE links(k) == [r \in Routes |-> IF FirstOwner(ents, r) = k THEN ents[k].links[r]
                                         ELSE Unset]
           repaired(k) == [ents[k] EXCEPT !.target = Unscoped(ents[k].target), !.links = links(k)]
           new == Repaired(ents)
<1>1. ASSUME NEW k \in EntryKeys, Has(ents, k)
      PROVE  /\ repaired(k) \in Entries
             /\ repaired(k).target = Unscoped(ents[k].target) /\ repaired(k).links = links(k)
  <2>1. ents[k] \in Entries
    BY <1>1 DEF AllEntries, Has
  <2>2. Unscoped(ents[k].target) \in EntryKeys \cup {Unset}
    <3>1. ents[k].target \in EntryKeys \cup {Unset}
      BY <2>1, EntryFacts
    <3> QED
      BY <3>1 DEF Unscoped, Scoped, EntryKeys
  <2>3. links(k) \in [Routes -> Links \cup {Unset}]
    BY <2>1, EntryFacts
  <2> HIDE DEF links
  <2> QED
    BY <2>1, <2>2, <2>3 DEF Entries
<1>2. \A k \in EntryKeys : new[k] = IF ~Has(ents, k) THEN Unset ELSE repaired(k)
  BY DEF Repaired
<1>3. new = [k \in EntryKeys |-> new[k]]
  BY DEF Repaired
<1>4. \A k \in EntryKeys, r \in Routes :
          links(k)[r] = IF FirstOwner(ents, r) = k THEN ents[k].links[r] ELSE Unset
  OBVIOUS
<1> HIDE DEF links, repaired, new
<1>5. new \in AllEntries
  BY <1>1, <1>2, <1>3 DEF AllEntries
<1>6. \A k \in EntryKeys : Has(new, k) <=> Has(ents, k)
  BY <1>1, <1>2, EntryFacts DEF Has
<1> QED
  BY <1>1, <1>2, <1>4, <1>5, <1>6 DEF new

\* A key is of one kind, and no key is nothing.
LEMMA KeyFacts ==
    /\ Owners \subseteq EntryKeys /\ Slots \subseteq EntryKeys /\ Scoped \subseteq EntryKeys
    /\ \A d \in Owners : d \notin Slots /\ d \notin Scoped /\ d # Unset
    /\ \A s \in Slots : s \notin Scoped /\ s \notin CableSet
    /\ \A k \in EntryKeys : /\ k # Unset
                            /\ k \in Owners \/ k \in Slots \/ k \in Scoped
                            /\ k \notin Scoped => Unscoped(k) = k
    /\ \A b \in CableSet, d \in Owners : <<b, d>> \in Scoped /\ Unscoped(<<b, d>>) = d
    /\ \A k \in Scoped : \E j \in 1..Len(Cables), d \in Owners : k = <<Cables[j], d>>
<1>1. \A b \in CableSet, d \in Owners : <<b, d>> \in Scoped /\ Unscoped(<<b, d>>) = d
  BY DEF Scoped, Unscoped
<1>2. \A k \in Scoped : \E j \in 1..Len(Cables), d \in Owners : k = <<Cables[j], d>>
  <2>1. DOMAIN Cables = 1..Len(Cables)
    BY CablesAreDistinct
  <2> QED
    BY <2>1 DEF Scoped, CableSet
<1>3. \A k \in EntryKeys : k \notin Scoped => Unscoped(k) = k
  BY DEF Unscoped
<1>4. \A k \in EntryKeys : k # Unset
  BY UnsetIsNothing
<1> QED
  BY <1>1, <1>2, <1>3, <1>4, KeysAreApart DEF EntryKeys

\* What the loaded file is to the file: no cable's key, and every name
\* that named an entry still names one.
LEMMA LoadFacts ==
    ASSUME SettingsInv, Load
    PROVE  /\ entries' \in AllEntries
           /\ \A k \in Scoped : ~Has(entries', k)
           /\ \A k \in Slots : Has(entries', k) => entries'[k].links = NoLinks
           /\ \A r \in Routes, k, l \in EntryKeys :
                  Indexes(entries', k, r) /\ Indexes(entries', l, r) => k = l
           /\ \A k \in EntryKeys : Has(entries, k) => Has(entries', Unscoped(k))
           /\ \A k \in EntryKeys : Has(entries, k) /\ Has(entries', k) /\ entries[k].target # Unset
                                       => entries'[k].target = Unscoped(entries[k].target)
<1> DEFINE new == RenamedAll(entries)
<1>1. entries \in AllEntries
  BY DEF SettingsInv, ConfigTypes, AllEntries
<1>2. DoneUpto(new, entries, Len(Cables))
  BY <1>1, AllAreRenamed
<1>3. entries' = Repaired(new)
  BY DEF Load
<1> HIDE DEF new
<1>4. new \in AllEntries /\ \A k \in Slots : new[k] = entries[k]
  BY <1>2 DEF DoneUpto
<1>5. /\ entries' \in AllEntries
      /\ \A k \in EntryKeys :
             /\ Has(entries', k) <=> Has(new, k)
             /\ Has(new, k) =>
                    /\ entries'[k].target = Unscoped(new[k].target)
                    /\ \A r \in Routes : entries'[k].links[r] =
                           IF FirstOwner(new, r) = k THEN new[k].links[r] ELSE Unset
  BY <1>3, <1>4, RepairedFacts
<1>6. ASSUME NEW k \in Scoped PROVE ~Has(entries', k)
  <2>1. PICK j \in 1..Len(Cables), d \in Owners : k = <<Cables[j], d>>
    BY KeyFacts
  <2>2. new[k] = Unset
    BY <1>2, <2>1, CablesAreDistinct DEF DoneUpto
  <2> QED
    BY <1>5, <2>2, KeyFacts DEF Has
<1>7. ASSUME NEW k \in Slots, Has(entries', k) PROVE entries'[k].links = NoLinks
  <2>1. Has(new, k) /\ Has(entries, k) /\ new[k] = entries[k] /\ k \in EntryKeys
    BY <1>4, <1>5, <1>7, KeyFacts DEF Has
  <2>2. new[k].links = NoLinks
    BY <2>1 DEF SettingsInv
  <2>3. \A r \in Routes : entries'[k].links[r] = Unset
    BY <1>5, <2>1, <2>2 DEF NoLinks
  <2>4. entries'[k].links \in [Routes -> Links \cup {Unset}]
    BY <1>5, <1>7, <2>1, EntryFacts DEF AllEntries, Has
  <2> QED
    BY <2>3, <2>4 DEF NoLinks
<1>8. \A r \in Routes, k \in EntryKeys : Indexes(entries', k, r) => FirstOwner(new, r) = k
  BY <1>5 DEF Indexes
<1>9. ASSUME NEW k \in EntryKeys, Has(entries, k) PROVE Has(new, Unscoped(k))
  <2>1. CASE k \in Owners
    <3>1. Has(new, k)
      BY <1>2, <1>9, <2>1 DEF DoneUpto
    <3> QED
      BY <2>1, <3>1, KeyFacts
  <2>2. CASE k \in Slots
    <3>1. Has(new, k)
      BY <1>4, <1>9, <2>2 DEF Has
    <3> QED
      BY <2>2, <3>1, KeyFacts
  <2>3. CASE k \in Scoped
    <3>1. PICK j \in 1..Len(Cables), d \in Owners : k = <<Cables[j], d>>
      BY <2>3, KeyFacts
    <3>2. j <= Len(Cables) /\ Cables[j] \in CableSet
      BY CablesAreDistinct
    <3>3. Has(new, d)
      BY <1>2, <1>9, <3>1, <3>2 DEF DoneUpto
    <3> QED
      BY <3>1, <3>2, <3>3, KeyFacts
  <2> QED
    BY <2>1, <2>2, <2>3, KeyFacts
<1>10. ASSUME NEW k \in EntryKeys, Has(entries, k) PROVE Has(entries', Unscoped(k))
  <2>1. Unscoped(k) \in EntryKeys
    BY KeyFacts DEF Unscoped, Scoped
  <2> QED
    BY <1>5, <1>9, <1>10, <2>1
<1>11. ASSUME NEW k \in EntryKeys, Has(entries, k), Has(entries', k), entries[k].target # Unset
       PROVE  entries'[k].target = Unscoped(entries[k].target)
  <2>1. k \in Owners \/ k \in Slots
    BY <1>6, <1>11, KeyFacts
  <2>2. new[k].target = entries[k].target
    BY <1>2, <1>4, <1>11, <2>1 DEF DoneUpto
  <2> QED
    BY <1>5, <1>11, <2>2
<1> QED
  BY <1>5, <1>6, <1>7, <1>8, <1>10, <1>11

\* The other entries give up a route.
LEMMA UnclaimedFacts ==
    ASSUME NEW ents \in AllEntries, NEW d \in EntryKeys, NEW r \in Routes
    PROVE  LET freed == Unclaimed(ents, d, r)
           IN  /\ freed \in AllEntries /\ freed[d] = ents[d]
               /\ \A k \in EntryKeys : k # d =>
                      /\ Has(freed, k) <=> Has(ents, k)
                      /\ Has(ents, k) =>
                             /\ freed[k].dpi = ents[k].dpi /\ freed[k].invert = ents[k].invert
                             /\ freed[k].target = ents[k].target
                             /\ freed[k].links = [ents[k].links EXCEPT ![r] = Unset]
<1> DEFINE without(k) == [ents[k] EXCEPT !.links = [ents[k].links EXCEPT ![r] = Unset]]
           freed == Unclaimed(ents, d, r)
<1>1. ASSUME NEW k \in EntryKeys, Has(ents, k)
      PROVE  /\ without(k) \in Entries
             /\ without(k).dpi = ents[k].dpi /\ without(k).invert = ents[k].invert
             /\ without(k).target = ents[k].target
             /\ without(k).links = [ents[k].links EXCEPT ![r] = Unset]
  <2>1. ents[k] \in Entries
    BY <1>1 DEF AllEntries, Has
  <2>2. [ents[k].links EXCEPT ![r] = Unset] \in [Routes -> Links \cup {Unset}]
    BY <2>1, EntryFacts
  <2> QED
    BY <2>1, <2>2 DEF Entries
<1>2. freed = [k \in EntryKeys |-> IF Has(ents, k) /\ k # d THEN without(k) ELSE ents[k]]
  BY DEF Unclaimed
<1> HIDE DEF without, freed
<1>3. \A k \in EntryKeys : freed[k] = IF Has(ents, k) /\ k # d THEN without(k) ELSE ents[k]
  BY <1>2
<1>4. freed \in AllEntries
  BY <1>1, <1>2 DEF AllEntries
<1>5. \A k \in EntryKeys : Has(freed, k) <=> Has(ents, k)
  <2>1. ASSUME NEW k \in EntryKeys, Has(ents, k) PROVE Has(freed, k)
    <3>1. without(k) # Unset
      BY <1>1, <2>1, EntryFacts
    <3> QED
      BY <1>3, <2>1, <3>1 DEF Has
  <2>2. ASSUME NEW k \in EntryKeys, ~Has(ents, k) PROVE ~Has(freed, k)
    BY <1>3, <2>2 DEF Has
  <2> QED
    BY <2>1, <2>2
<1> QED
  BY <1>1, <1>3, <1>4, <1>5 DEF freed

\* What named one entry names another.
LEMMA RepointedFacts ==
    ASSUME NEW ents \in AllEntries, NEW old \in EntryKeys, NEW new \in EntryKeys
    PROVE  LET after == Repointed(ents, old, new)
           IN  /\ after \in AllEntries
               /\ \A k \in EntryKeys :
                      /\ Has(after, k) <=> Has(ents, k)
                      /\ Has(ents, k) =>
                             /\ after[k].dpi = ents[k].dpi /\ after[k].invert = ents[k].invert
                             /\ after[k].links = ents[k].links
                             /\ after[k].target = Follow(ents[k].target, old, new)
<1> DEFINE renamed(k) == [ents[k] EXCEPT !.target = Follow(ents[k].target, old, new)]
           after == Repointed(ents, old, new)
<1>1. ASSUME NEW k \in EntryKeys, Has(ents, k)
      PROVE  /\ renamed(k) \in Entries
             /\ renamed(k).dpi = ents[k].dpi /\ renamed(k).invert = ents[k].invert
             /\ renamed(k).links = ents[k].links
             /\ renamed(k).target = Follow(ents[k].target, old, new)
  <2>1. ents[k] \in Entries
    BY <1>1 DEF AllEntries, Has
  <2>2. Follow(ents[k].target, old, new) \in EntryKeys \cup {Unset}
    BY <2>1, EntryFacts DEF Follow
  <2> QED
    BY <2>1, <2>2 DEF Entries
<1>2. after = [k \in EntryKeys |-> IF Has(ents, k) THEN renamed(k) ELSE Unset]
  BY DEF Repointed
<1> HIDE DEF renamed, after
<1>3. \A k \in EntryKeys : after[k] = IF Has(ents, k) THEN renamed(k) ELSE Unset
  BY <1>2
<1>4. after \in AllEntries
  BY <1>1, <1>2 DEF AllEntries
<1>5. \A k \in EntryKeys : Has(after, k) <=> Has(ents, k)
  BY <1>1, <1>3, EntryFacts DEF Has
<1> QED
  BY <1>1, <1>3, <1>4, <1>5 DEF after

\* What an adoption does, entry by entry: a slot's entry is consumed, every
\* other entry gives up the route, and the device keeps what it has.
Consumed(r) == r \in Slots /\ Has(entries, r)
Own(d) == IF Has(entries, d) THEN entries[d] ELSE NoEntry
OthersGiveUp(r, d) ==
    \A k \in EntryKeys : k # d =>
        /\ Has(entries', k) <=> Has(entries, k) /\ ~(Consumed(r) /\ k = r)
        /\ Has(entries', k) =>
               /\ entries'[k].dpi = entries[k].dpi
               /\ entries'[k].links = [entries[k].links EXCEPT ![r] = Unset]
               /\ entries'[k].target = IF Consumed(r) THEN Follow(entries[k].target, r, d)
                                       ELSE entries[k].target
LEMMA AdoptionFacts ==
    ASSUME SettingsInv, loaded, NEW r \in Routes, NEW d \in Owners, NEW caps \in 0..1,
           AdoptRoute(d, r, caps)
    PROVE  /\ entries' \in AllEntries /\ reported' \in BOOLEAN
           /\ selected' = IF Consumed(r) THEN Follow(selected, r, d) ELSE selected
           /\ OthersGiveUp(r, d)
           /\ Has(entries', d) /\ entries'[d].links[r] \in Links
           /\ entries'[d].dpi = IF Consumed(r) /\ Own(d).dpi = 0 THEN entries[r].dpi ELSE Own(d).dpi
           /\ entries'[d].invert = Own(d).invert
           /\ entries'[d].target = IF Consumed(r)
                  THEN Follow(IF Own(d).target = Unset THEN entries[r].target ELSE Own(d).target, r, d)
                  ELSE Own(d).target
           /\ entries'[d].links[r].dpi =
                  IF Consumed(r) /\ Own(d).dpi # 0 /\ entries[r].dpi \notin {0, Own(d).dpi}
                  THEN entries[r].dpi ELSE LinkOf(Own(d), r).dpi
           /\ Consumed(r) /\ entries[r].invert = TRUE /\ Own(d).invert = FALSE =>
                  entries'[d].links[r].invert = TRUE
           /\ ~Consumed(r) \/ entries[r].invert = FALSE \/ Own(d).invert = TRUE =>
                  entries'[d].links[r].invert = LinkOf(Own(d), r).invert
           /\ \A q \in Routes : q # r => entries'[d].links[q] = Own(d).links[q]
           /\ ~reported' => entries' = entries
<1> DEFINE freed == Unclaimed(entries, d, r)
           legacy == IF r \in Slots THEN freed[r] ELSE Unset
           entry == IF Has(freed, d) THEN freed[d] ELSE NoEntry
           link == LinkOf(entry, r)
           measured == [link EXCEPT !.caps = IF caps # 0 THEN caps ELSE @]
           indexed == [entry EXCEPT !.links[r] = measured]
<1>1. entries \in AllEntries /\ d \in EntryKeys /\ (r \in Slots => r \in EntryKeys /\ d # r)
  BY KeyFacts DEF SettingsInv, ConfigTypes, AllEntries
<1>2. /\ freed \in AllEntries /\ freed[d] = entries[d]
      /\ \A k \in EntryKeys : k # d =>
             /\ Has(freed, k) <=> Has(entries, k)
             /\ Has(entries, k) =>
                    /\ freed[k].dpi = entries[k].dpi /\ freed[k].invert = entries[k].invert
                    /\ freed[k].target = entries[k].target
                    /\ freed[k].links = [entries[k].links EXCEPT ![r] = Unset]
  BY <1>1, UnclaimedFacts
<1>3. entry = Own(d) /\ entry \in Entries
  <2>1. entry = Own(d)
    BY <1>2 DEF Has, Own
  <2> HIDE DEF entry
  <2> QED
    BY <1>1, <2>1, EntryFacts DEF Own, Has, AllEntries
<1>4. link \in Links /\ link = LinkOf(Own(d), r)
  <2> HIDE DEF entry
  <2> QED
    BY <1>3, LinkFacts
<1>5. measured \in Links /\ measured.dpi = link.dpi /\ measured.invert = link.invert
  <2> HIDE DEF link
  <2> QED
    BY <1>4 DEF Links
<1>6. /\ indexed \in Entries /\ indexed.links = [entry.links EXCEPT ![r] = measured]
      /\ indexed.dpi = entry.dpi /\ indexed.invert = entry.invert
      /\ indexed.target = entry.target
  <2> HIDE DEF entry, measured
  <2>1. [entry.links EXCEPT ![r] = measured] \in [Routes -> Links \cup {Unset}]
    BY <1>3, <1>5, EntryFacts
  <2>2. indexed = [entry EXCEPT !.links = [entry.links EXCEPT ![r] = measured]]
    OBVIOUS
  <2> HIDE DEF indexed
  <2> QED
    BY <1>3, <2>1, <2>2 DEF Entries
<1>7. /\ legacy # Unset <=> Consumed(r)
      /\ Consumed(r) => /\ legacy = freed[r] /\ r \in EntryKeys /\ r # d /\ r \in Slots
                        /\ legacy \in Entries /\ legacy.links = NoLinks
                        /\ legacy.dpi = entries[r].dpi /\ legacy.invert = entries[r].invert
                        /\ legacy.target = entries[r].target
  <2> HIDE DEF freed
  <2>1. legacy # Unset <=> Consumed(r)
    BY <1>1, <1>2 DEF Has, Consumed
  <2>2. ASSUME Consumed(r)
        PROVE  /\ legacy = freed[r] /\ r \in EntryKeys /\ r # d /\ r \in Slots
               /\ legacy \in Entries /\ legacy.links = NoLinks
               /\ legacy.dpi = entries[r].dpi /\ legacy.invert = entries[r].invert
               /\ legacy.target = entries[r].target
    <3>1. legacy = freed[r] /\ r \in EntryKeys /\ r # d /\ r \in Slots /\ Has(entries, r)
      BY <1>1, <2>2 DEF Consumed
    <3>2. entries[r].links = NoLinks
      BY <3>1 DEF SettingsInv
    <3>3. [NoLinks EXCEPT ![r] = Unset] = NoLinks
      BY DEF NoLinks
    <3> QED
      BY <1>2, <2>1, <2>2, <3>1, <3>2, <3>3 DEF AllEntries
  <2> QED
    BY <2>1, <2>2
<1>8. /\ reported' = (legacy # Unset \/ freed # entries \/ entry.links[r] = Unset \/ measured # link)
      /\ legacy = Unset => entries' = [freed EXCEPT ![d] = indexed] /\ selected' = selected
      /\ legacy # Unset =>
             /\ entries' = Repointed([freed EXCEPT ![r] = Unset, ![d] = Fold(indexed, legacy, r)],
                                     r, d)
             /\ selected' = Follow(selected, r, d)
  BY DEF AdoptRoute
<1>9. \A q \in Routes : q # r => indexed.links[q] = Own(d).links[q]
  <2> HIDE DEF indexed, entry, measured
  <2> QED
    BY <1>3, <1>6, EntryFacts
<1>10. indexed.links[r] = measured
  <2> HIDE DEF indexed, entry, measured
  <2> QED
    BY <1>3, <1>6, EntryFacts
<1>11. ASSUME ~reported' PROVE entries' = entries
  <2> HIDE DEF freed, legacy, entry, link, measured, indexed
  <2>1. legacy = Unset /\ freed = entries /\ entry.links[r] # Unset /\ measured = link
    BY <1>8, <1>11
  <2>2. link = entry.links[r]
    BY <1>3, <2>1, LinkFacts DEF link
  <2>3. indexed = entry
    <3>1. [entry.links EXCEPT ![r] = measured] = entry.links
      BY <1>3, <2>1, <2>2, EntryFacts
    <3>2. indexed = [entry EXCEPT !.links = [entry.links EXCEPT ![r] = measured]]
      BY DEF indexed
    <3> QED
      BY <1>3, <3>1, <3>2 DEF Entries
  <2>4. entry = entries[d]
    <3>1. entry # NoEntry
      BY <2>1, EntryFacts DEF NoLinks
    <3> QED
      BY <1>3, <3>1 DEF Own
  <2> QED
    BY <1>1, <1>8, <2>1, <2>3, <2>4 DEF AllEntries
<1> HIDE DEF freed, legacy, entry, link, measured, indexed
<1>12. CASE ~Consumed(r)
  <2>1. entries' = [freed EXCEPT ![d] = indexed] /\ selected' = selected
    BY <1>7, <1>8, <1>12
  <2>2. entries' \in AllEntries /\ entries'[d] = indexed
    BY <1>1, <1>2, <1>6, <2>1 DEF AllEntries
  <2>3. \A k \in EntryKeys : k # d => entries'[k] = freed[k]
    BY <1>2, <2>1 DEF AllEntries
  <2>4. Has(entries', d)
    BY <1>6, <2>2, EntryFacts DEF Has
  <2>5. \A k \in EntryKeys : k # d => (Has(entries', k) <=> Has(freed, k))
    BY <2>3 DEF Has
  <2>6. reported' \in BOOLEAN
    BY <1>8
  <2>7. OthersGiveUp(r, d)
    BY <1>2, <1>12, <2>3, <2>5 DEF OthersGiveUp
  <2> QED
    BY <1>3, <1>4, <1>5, <1>6, <1>9, <1>10, <1>11, <1>12, <2>1, <2>2, <2>4, <2>6, <2>7
<1>13. CASE Consumed(r)
  <2> DEFINE fold == Fold(indexed, legacy, r)
             mid == [freed EXCEPT ![r] = Unset, ![d] = fold]
  <2>1. entries' = Repointed(mid, r, d) /\ selected' = Follow(selected, r, d)
    BY <1>7, <1>8, <1>13
  <2>2. /\ fold \in Entries
        /\ fold.dpi = IF indexed.dpi = 0 THEN legacy.dpi ELSE indexed.dpi
        /\ fold.invert = indexed.invert
        /\ fold.target = IF indexed.target = Unset THEN legacy.target ELSE indexed.target
        /\ \A q \in Routes : q # r =>
               fold.links[q] = IF indexed.links[q] # Unset THEN indexed.links[q] ELSE legacy.links[q]
        /\ fold.links[r] \in Links
        /\ indexed.links[r] # Unset => fold.links[r].dpi =
               IF indexed.dpi # 0 /\ legacy.dpi \notin {0, indexed.dpi} THEN legacy.dpi
               ELSE indexed.links[r].dpi
    <3>1. indexed \in Entries /\ legacy \in Entries
      BY <1>6, <1>7, <1>13
    <3>3. /\ fold \in Entries /\ fold.links[r] \in Links
          /\ fold.dpi = IF indexed.dpi = 0 THEN legacy.dpi ELSE indexed.dpi
          /\ fold.invert = indexed.invert
          /\ fold.target = IF indexed.target = Unset THEN legacy.target ELSE indexed.target
      BY <3>1, FoldFacts DEF fold
    <3>4. \A q \in Routes : q # r => fold.links[q] =
              IF indexed.links[q] # Unset THEN indexed.links[q] ELSE legacy.links[q]
      BY <3>1, FoldFacts DEF fold
    <3>5. indexed.links[r] # Unset => fold.links[r].dpi =
              IF indexed.dpi # 0 /\ legacy.dpi \notin {0, indexed.dpi} THEN legacy.dpi
              ELSE indexed.links[r].dpi
      BY <3>1, FoldFacts DEF fold
    <3> QED
      BY <3>3, <3>4, <3>5
  <2> HIDE DEF fold
  <2>3. mid \in AllEntries /\ mid[d] = fold /\ mid[r] = Unset
        /\ \A k \in EntryKeys : k # d /\ k # r => mid[k] = freed[k]
    BY <1>1, <1>2, <1>7, <1>13, <2>2 DEF AllEntries
  <2> HIDE DEF mid
  <2>4. /\ entries' \in AllEntries
        /\ \A k \in EntryKeys :
               /\ Has(entries', k) <=> Has(mid, k)
               /\ Has(mid, k) => /\ entries'[k].dpi = mid[k].dpi
                                 /\ entries'[k].invert = mid[k].invert
                                 /\ entries'[k].links = mid[k].links
                                 /\ entries'[k].target = Follow(mid[k].target, r, d)
    <3>1. mid \in AllEntries /\ r \in EntryKeys /\ d \in EntryKeys
      BY <1>1, <1>7, <1>13, <2>3
    <3>2. entries' = Repointed(mid, r, d)
      BY <2>1
    <3>3. /\ entries' \in AllEntries
          /\ \A k \in EntryKeys : Has(entries', k) <=> Has(mid, k)
      BY <3>1, <3>2, RepointedFacts
    <3>4. ASSUME NEW k \in EntryKeys, Has(mid, k)
          PROVE  /\ entries'[k].dpi = mid[k].dpi /\ entries'[k].invert = mid[k].invert
                 /\ entries'[k].links = mid[k].links
                 /\ entries'[k].target = Follow(mid[k].target, r, d)
      <4>1. entries'[k].dpi = mid[k].dpi /\ entries'[k].invert = mid[k].invert
        BY ZenonT(60), <3>1, <3>2, <3>4, RepointedFacts
      <4>2. entries'[k].links = mid[k].links
        BY ZenonT(60), <3>1, <3>2, <3>4, RepointedFacts
      <4>3. entries'[k].target = Follow(mid[k].target, r, d)
        BY <3>1, <3>2, <3>4, RepointedFacts
      <4> QED
        BY <4>1, <4>2, <4>3
    <3> QED
      BY <3>3, <3>4
  <2>5. Has(mid, d) /\ ~Has(mid, r)
    BY <2>2, <2>3, EntryFacts DEF Has
  <2>6. ASSUME NEW k \in EntryKeys, k # d
        PROVE  /\ Has(entries', k) <=> Has(entries, k) /\ ~(Consumed(r) /\ k = r)
               /\ Has(entries', k) =>
                      /\ entries'[k].dpi = entries[k].dpi
                      /\ entries'[k].links = [entries[k].links EXCEPT ![r] = Unset]
                      /\ entries'[k].target = IF Consumed(r) THEN Follow(entries[k].target, r, d)
                                              ELSE entries[k].target
    <3>1. CASE k = r
      BY <1>13, <2>4, <2>5, <3>1
    <3>2. CASE k # r
      <4>1. mid[k] = freed[k] /\ (Has(mid, k) <=> Has(freed, k))
        BY <2>3, <2>6, <3>2 DEF Has
      <4> QED
        BY <1>2, <1>13, <2>4, <2>6, <3>2, <4>1
    <3> QED
      BY <3>1, <3>2
  <2>7. indexed.links[r] # Unset /\ indexed.links[r].dpi = LinkOf(Own(d), r).dpi
        /\ indexed.links[r].invert = LinkOf(Own(d), r).invert
    BY <1>4, <1>5, <1>10, EntryFacts
  <2>8. \A q \in Routes : q # r => fold.links[q] = Own(d).links[q]
    <3>1. \A q \in Routes : legacy.links[q] = Unset
      BY <1>7, <1>13 DEF NoLinks
    <3> QED
      BY <1>9, <2>2, <3>1
  <2>9. /\ Has(entries', d) /\ entries'[d].links[r] = fold.links[r]
        /\ entries'[d].dpi = fold.dpi /\ entries'[d].invert = fold.invert
        /\ entries'[d].links = fold.links /\ entries'[d].target = Follow(fold.target, r, d)
    BY <1>1, <2>3, <2>4, <2>5
  <2>13. indexed.links[r] # Unset =>
             /\ legacy.invert = FALSE \/ indexed.invert = TRUE =>
                    fold.links[r].invert = indexed.links[r].invert
             /\ legacy.invert = TRUE /\ indexed.invert = FALSE => fold.links[r].invert = TRUE
    <3>1. indexed \in Entries /\ legacy \in Entries
      BY <1>6, <1>7, <1>13
    <3> QED
      BY <3>1, FoldReverses DEF fold
  <2>10. reported' \in BOOLEAN
    BY <1>8
  <2>11. indexed.dpi = Own(d).dpi /\ indexed.invert = Own(d).invert /\ indexed.target = Own(d).target
    BY <1>3, <1>6
  <2>12. legacy.dpi = entries[r].dpi /\ legacy.invert = entries[r].invert
         /\ legacy.target = entries[r].target
    BY <1>7, <1>13
  <2>14. OthersGiveUp(r, d)
    BY <2>6 DEF OthersGiveUp
  <2> QED
    BY <1>11, <1>13, <2>1, <2>2, <2>4, <2>7, <2>8, <2>9, <2>10, <2>11, <2>12, <2>13, <2>14
<1> QED
  BY <1>12, <1>13

\* An entry a device is given is an entry, and is one of its own unless
\* it is new.
LEMMA OwnFacts ==
    ASSUME SettingsInv, NEW d \in Owners
    PROVE  /\ Own(d) \in Entries
           /\ Has(entries, d) => Own(d) = entries[d]
           /\ ~Has(entries, d) => Own(d) = NoEntry /\ \A q \in Routes : Own(d).links[q] = Unset
           /\ Own(d).dpi # 0 => Has(entries, d)
BY EntryFacts, KeyFacts DEF Own, Has, NoLinks, SettingsInv, ConfigTypes

\* Who indexes a route after a sighting: the device on the adopted one, and
\* on the others who did before.
LEMMA SightIndexes ==
    ASSUME SettingsInv, loaded, NEW r \in Routes, NEW d \in Owners, NEW caps \in 0..1,
           AdoptRoute(d, r, caps)
    PROVE  /\ \A k \in EntryKeys : Indexes(entries', k, r) <=> k = d
           /\ \A k \in EntryKeys, q \in Routes : q # r =>
                  /\ Indexes(entries', k, q) => Indexes(entries, k, q)
                  /\ Indexes(entries, k, q) /\ k \in Owners => Indexes(entries', k, q)
<1>1. d \in EntryKeys /\ ~(d \in Slots)
  BY KeyFacts
<1>2. Indexes(entries', d, r)
  BY AdoptionFacts, EntryFacts DEF Indexes
<1>3. ASSUME NEW k \in EntryKeys, k # d
      PROVE  /\ Has(entries', k) <=> Has(entries, k) /\ ~(Consumed(r) /\ k = r)
             /\ Has(entries', k) => entries'[k].links = [entries[k].links EXCEPT ![r] = Unset]
  <2>1. OthersGiveUp(r, d)
    BY AdoptionFacts
  <2> QED
    BY <1>3, <2>1 DEF OthersGiveUp
<1>4. ASSUME NEW k \in EntryKeys, Has(entries, k)
      PROVE  entries[k].links \in [Routes -> Links \cup {Unset}]
  BY <1>4, EntryFacts DEF SettingsInv, ConfigTypes, Has
<1>5. ASSUME NEW k \in EntryKeys, k # d PROVE ~Indexes(entries', k, r)
  BY <1>3, <1>4, <1>5 DEF Indexes
<1>6. ASSUME NEW k \in EntryKeys, NEW q \in Routes, q # r
      PROVE  /\ Indexes(entries', k, q) => Indexes(entries, k, q)
             /\ Indexes(entries, k, q) /\ k \in Owners => Indexes(entries', k, q)
  <2>1. CASE k = d
    <3>1. Has(entries', d) /\ entries'[d].links[q] = Own(d).links[q]
      BY <1>6, AdoptionFacts
    <3> QED
      BY <2>1, <3>1, OwnFacts DEF Indexes
  <2>2. CASE k # d
    <3>1. k \in Owners => ~(Consumed(r) /\ k = r)
      BY KeyFacts DEF Consumed
    <3>2. Has(entries', k) => entries'[k].links[q] = entries[k].links[q]
      BY <1>3, <1>4, <1>6, <2>2
    <3> QED
      BY <1>3, <2>2, <3>1, <3>2 DEF Indexes
  <2> QED
    BY <2>1, <2>2
<1> QED
  BY <1>2, <1>5, <1>6

\* Where a setting of a loaded file is written, and what it leaves alone.
LEMMA SetFacts ==
    ASSUME SettingsInv, NEW r \in Routes, NEW awake \in BOOLEAN, NEW v \in Values,
           SetDpi(r, awake, v)
    PROVE  /\ entries' \in AllEntries
           /\ \A k \in EntryKeys : /\ Has(entries, k) => Has(entries', k)
                                   /\ Has(entries', k) /\ k \in Scoped => Has(entries, k)
                                   /\ Has(entries, k) => /\ entries'[k].links = entries[k].links
                                                         /\ entries'[k].target = entries[k].target
                                   /\ Has(entries', k) /\ ~Has(entries, k) =>
                                          entries'[k].links = NoLinks
<1> DEFINE k == IF awake THEN ResolveAwake(entries, r, on[r]) ELSE ResolveAsleep(entries, r)
           old == IF entries[k] = Unset THEN NoEntry ELSE entries[k]
           new == [old EXCEPT !.dpi = v]
<1>1. /\ loaded /\ on[r] \in Owners /\ k # Unset
      /\ entries' = [entries EXCEPT ![k] = new]
      /\ entries \in AllEntries
  BY DEF SetDpi, SettingsInv, ConfigTypes, AllEntries
<1>2. k \in EntryKeys /\ (k \in Scoped => Has(entries, k))
  <2>1. CASE awake
    <3>1. k = on[r] \/ (k = PhysicalKey(r, on[r]) /\ Has(entries, k))
      BY <2>1 DEF ResolveAwake, HoldsSettings
    <3>2. PhysicalKey(r, on[r]) \in EntryKeys
      BY <1>1, KeyFacts DEF PhysicalKey, Routes
    <3> HIDE DEF k
    <3> QED
      BY <1>1, <3>1, <3>2, KeyFacts
  <2>2. CASE ~awake
    <3>1. k = FirstOwner(entries, r) \/ k \in Slots
      BY <1>1, <2>2 DEF ResolveAsleep
    <3> HIDE DEF k
    <3> QED
      BY <1>1, <3>1, FirstOwnerFacts, KeyFacts DEF Indexes
  <2> QED
    BY <2>1, <2>2
<1> HIDE DEF k
<1>3. old \in Entries /\ (Has(entries, k) => old = entries[k])
      /\ (~Has(entries, k) => old.links = NoLinks)
  BY <1>1, <1>2, EntryFacts DEF AllEntries, Has
<1> HIDE DEF old
<1>4. new \in Entries /\ new.links = old.links /\ new.target = old.target
  BY <1>3 DEF Entries
<1> HIDE DEF new
<1>5. entries' \in AllEntries /\ entries'[k] = new
      /\ \A l \in EntryKeys : l # k => entries'[l] = entries[l]
  BY <1>1, <1>2, <1>4 DEF AllEntries
<1>6. Has(entries', k)
  BY <1>4, <1>5, EntryFacts DEF Has
<1>7. \A l \in EntryKeys : l # k => (Has(entries', l) <=> Has(entries, l))
  BY <1>5 DEF Has
<1> QED
  BY <1>2, <1>3, <1>4, <1>5, <1>6, <1>7

LEMMA InitSettingsInv == ConfigInit => SettingsInv
<1> SUFFICES ASSUME ConfigInit PROVE SettingsInv
  OBVIOUS
<1>1. ConfigTypes
  BY DEF ConfigInit, ConfigTypes
<1>2. ~loaded /\ \A r \in Routes : lastSeen[r] = Unset
  BY DEF ConfigInit
<1>3. \A k \in Slots : Has(entries, k) => entries[k].links = NoLinks
  BY DEF ConfigInit
<1> QED
  BY <1>1, <1>2, <1>3 DEF SettingsInv

\* Every step keeps the inductive invariant.
LEMMA NextSettingsInv == SettingsInv /\ [ConfigNext]_configVars => SettingsInv'
<1> SUFFICES ASSUME SettingsInv, [ConfigNext]_configVars PROVE SettingsInv'
  OBVIOUS
<1>1. CASE Load
  <2>1. /\ ~loaded /\ loaded' /\ lastSeen' = lastSeen /\ on' = on /\ reported' = reported
        /\ selected' = Unscoped(selected) /\ loaded' = TRUE
    BY <1>1 DEF Load
  <2>2. selected' \in EntryKeys \cup {Unset}
    BY <2>1 DEF SettingsInv, ConfigTypes, Unscoped, Scoped, EntryKeys
  <2>3. \A r \in Routes : lastSeen'[r] = Unset
    BY <2>1 DEF SettingsInv
  <2>4. ConfigTypes'
    BY <1>1, <2>1, <2>2, LoadFacts DEF SettingsInv, ConfigTypes, AllEntries
  <2> QED
    BY <1>1, <2>3, <2>4, LoadFacts DEF SettingsInv, Has, Indexes
<1>2. ASSUME NEW r \in Routes, NEW caps \in 0..1, Sight(r, caps) PROVE SettingsInv'
  <2> DEFINE d == on[r]
  <2>1. /\ loaded /\ d \in Owners /\ AdoptRoute(d, r, caps)
        /\ lastSeen' = [lastSeen EXCEPT ![r] = d] /\ on' = on /\ loaded' = loaded
    BY <1>2 DEF Sight, SettingsInv, ConfigTypes
  <2> HIDE DEF d
  <2>2. ConfigTypes'
    <3>1. entries' \in AllEntries /\ reported' \in BOOLEAN
      BY <2>1, AdoptionFacts
    <3>2. selected' \in EntryKeys \cup {Unset}
      <4>1. selected' = IF Consumed(r) THEN Follow(selected, r, d) ELSE selected
        BY <2>1, AdoptionFacts
      <4> QED
        BY <2>1, <4>1, KeyFacts DEF Follow, SettingsInv, ConfigTypes
    <3>3. lastSeen' \in [Routes -> Owners \cup {Unset}]
      BY <2>1 DEF SettingsInv, ConfigTypes
    <3> QED
      BY <2>1, <3>1, <3>2, <3>3 DEF SettingsInv, ConfigTypes, AllEntries
  <2>3. ASSUME NEW k \in EntryKeys, k # d
        PROVE  /\ Has(entries', k) => Has(entries, k)
               /\ Has(entries', k) => entries'[k].links = [entries[k].links EXCEPT ![r] = Unset]
    <3>1. OthersGiveUp(r, d)
      BY <2>1, AdoptionFacts
    <3> QED
      BY <2>3, <3>1 DEF OthersGiveUp
  <2>4. ASSUME NEW k \in Scoped PROVE ~Has(entries', k)
    BY ZenonT(60), <2>1, <2>3, KeyFacts DEF SettingsInv
  <2>5. ASSUME NEW k \in Slots, Has(entries', k) PROVE entries'[k].links = NoLinks
    <3>1. k \in EntryKeys /\ k # d
      BY <2>1, KeyFacts
    <3>2. entries[k].links = NoLinks
      BY <2>3, <2>5, <3>1 DEF SettingsInv
    <3> QED
      BY <2>3, <2>5, <3>1, <3>2 DEF NoLinks
  <2>6. /\ \A k \in EntryKeys : Indexes(entries', k, r) <=> k = d
        /\ \A k \in EntryKeys, q \in Routes : q # r =>
               /\ Indexes(entries', k, q) => Indexes(entries, k, q)
               /\ Indexes(entries, k, q) /\ k \in Owners => Indexes(entries', k, q)
    BY <2>1, SightIndexes
  <2>7. ASSUME NEW q \in Routes, NEW k \in EntryKeys, NEW l \in EntryKeys,
               Indexes(entries', k, q), Indexes(entries', l, q)
        PROVE  k = l
    BY <2>1, <2>6, <2>7 DEF SettingsInv
  <2>8. ASSUME NEW q \in Routes, lastSeen'[q] # Unset
        PROVE  Indexes(entries', lastSeen'[q], q)
    <3>1. CASE q = r
      BY <2>1, <2>6, <3>1, KeyFacts DEF SettingsInv, ConfigTypes
    <3>2. CASE q # r
      <4>1. lastSeen'[q] = lastSeen[q] /\ lastSeen[q] \in Owners
        BY <2>1, <2>8, <3>2 DEF SettingsInv, ConfigTypes
      <4> QED
        BY <2>6, <2>8, <3>2, <4>1, KeyFacts DEF SettingsInv
    <3> QED
      BY <3>1, <3>2
  <2> QED
    BY <2>1, <2>2, <2>4, <2>5, <2>7, <2>8 DEF SettingsInv, Has, Indexes
<1>3. ASSUME NEW r \in Routes, NEW awake \in BOOLEAN, NEW v \in Values, SetDpi(r, awake, v)
      PROVE  SettingsInv'
  <2>1. /\ loaded /\ selected' = selected /\ on' = on /\ loaded' = loaded
        /\ reported' = reported /\ lastSeen' = lastSeen
    BY <1>3 DEF SetDpi
  <2>2. ConfigTypes'
    BY <1>3, <2>1, SetFacts DEF SettingsInv, ConfigTypes, AllEntries
  <2>3. \A k \in EntryKeys, q \in Routes : Indexes(entries', k, q) <=> Indexes(entries, k, q)
    BY <1>3, SetFacts DEF Indexes, NoLinks
  <2>4. \A k \in Scoped : ~Has(entries', k)
    BY <1>3, <2>1, SetFacts, KeyFacts DEF SettingsInv
  <2>5. ASSUME NEW k \in Slots, Has(entries', k) PROVE entries'[k].links = NoLinks
    <3>1. k \in EntryKeys
      BY KeyFacts
    <3> QED
      BY <1>3, <2>5, <3>1, SetFacts DEF SettingsInv
  <2>6. \A q \in Routes : lastSeen[q] # Unset => lastSeen[q] \in EntryKeys
    BY KeyFacts DEF SettingsInv, ConfigTypes
  <2>7. \A q \in Routes : lastSeen'[q] # Unset => Indexes(entries', lastSeen'[q], q)
    BY <2>1, <2>3, <2>6 DEF SettingsInv
  <2>8. \A q \in Routes, k, l \in EntryKeys :
            Indexes(entries', k, q) /\ Indexes(entries', l, q) => k = l
    BY <2>1, <2>3 DEF SettingsInv
  <2> QED
    BY <2>1, <2>2, <2>4, <2>5, <2>7, <2>8 DEF SettingsInv, Has, Indexes
<1>4. ASSUME NEW r \in Routes, NEW d \in Owners, Replug(r, d) PROVE SettingsInv'
  BY <1>4 DEF Replug, SettingsInv, ConfigTypes, Has, Indexes
<1>5. CASE UNCHANGED configVars
  BY <1>5 DEF configVars, SettingsInv, ConfigTypes, Has, Indexes
<1> QED
  BY <1>1, <1>2, <1>3, <1>4, <1>5 DEF ConfigNext

\* A device asleep on a route is the one that indexes it.
LEMMA SleepersAreKnown == SettingsInv => SleeperIsKnown
<1> SUFFICES ASSUME SettingsInv, loaded, NEW r \in Routes, lastSeen[r] # Unset
             PROVE  ResolveAsleep(entries, r) = lastSeen[r]
  BY DEF SettingsInv, SleeperIsKnown
<1>1. lastSeen[r] \in EntryKeys /\ Indexes(entries, lastSeen[r], r)
  BY KeyFacts DEF SettingsInv, ConfigTypes
<1>2. FirstOwner(entries, r) # Unset /\ FirstOwner(entries, r) = lastSeen[r]
  BY <1>1, FirstOwnerFacts DEF SettingsInv
<1> QED
  BY <1>2 DEF ResolveAsleep

\* Loading renames what is named along with its name.
LEMMA LoadKeepsNames == ASSUME SettingsInv, Load PROVE ReferencesFollow
<1>1. ASSUME NEW k \in EntryKeys \cup {Unset}, NamesAnEntry(entries, k)
      PROVE  NamesAnEntry(entries', Unscoped(k))
  <2>1. k \in EntryKeys /\ Has(entries, k)
    BY <1>1 DEF NamesAnEntry
  <2>2. Unscoped(k) \in EntryKeys
    BY <2>1, KeyFacts DEF Unscoped, Scoped
  <2> QED
    BY <2>1, <2>2, LoadFacts, KeyFacts DEF NamesAnEntry
<1>2. selected' = Unscoped(selected) /\ selected \in EntryKeys \cup {Unset}
  BY DEF Load, SettingsInv, ConfigTypes
<1>3. ASSUME NEW k \in EntryKeys, Has(entries, k), Has(entries', k),
             NamesAnEntry(entries, entries[k].target)
      PROVE  NamesAnEntry(entries', entries'[k].target)
  <2>1. entries[k].target \in EntryKeys \cup {Unset} /\ entries[k].target # Unset
    BY <1>3, EntryFacts DEF NamesAnEntry, SettingsInv, ConfigTypes, Has
  <2>2. entries'[k].target = Unscoped(entries[k].target)
    BY <1>3, <2>1, LoadFacts
  <2> QED
    BY <1>1, <1>3, <2>1, <2>2
<1> QED
  BY <1>1, <1>2, <1>3 DEF ReferencesFollow

\* An adoption takes along the names of the entry it consumes.
LEMMA SightKeepsNames ==
    ASSUME SettingsInv, loaded, NEW r \in Routes, NEW d \in Owners, NEW caps \in 0..1,
           AdoptRoute(d, r, caps)
    PROVE  ReferencesFollow
<1> DEFINE name(k) == IF Consumed(r) THEN Follow(k, r, d) ELSE k
<1>1. d \in EntryKeys /\ Has(entries', d) /\ d # Unset /\ OthersGiveUp(r, d)
  BY AdoptionFacts, KeyFacts
<1>2. ASSUME NEW k \in EntryKeys \cup {Unset}, NamesAnEntry(entries, k)
      PROVE  NamesAnEntry(entries', name(k))
  <2>1. k \in EntryKeys /\ Has(entries, k) /\ k # Unset
    BY <1>2 DEF NamesAnEntry
  <2>2. CASE Consumed(r) /\ k = r
    BY <1>1, <2>2 DEF NamesAnEntry, Follow
  <2>3. CASE ~(Consumed(r) /\ k = r)
    <3>1. name(k) = k
      BY <2>3 DEF Follow
    <3>2. Has(entries', k)
      BY <1>1, <2>1, <2>3 DEF OthersGiveUp
    <3> HIDE DEF name
    <3> QED
      BY <2>1, <3>1, <3>2 DEF NamesAnEntry
  <2> QED
    BY <2>2, <2>3
<1>3. selected' = name(selected) /\ selected \in EntryKeys \cup {Unset}
  BY AdoptionFacts DEF SettingsInv, ConfigTypes
<1>4. ASSUME NEW k \in EntryKeys, Has(entries, k), Has(entries', k),
             NamesAnEntry(entries, entries[k].target)
      PROVE  NamesAnEntry(entries', entries'[k].target)
  <2>1. entries[k].target \in EntryKeys \cup {Unset} /\ entries[k].target # Unset
    BY <1>4, EntryFacts DEF NamesAnEntry, SettingsInv, ConfigTypes, Has
  <2>2. entries'[k].target = name(entries[k].target)
    <3>1. CASE k = d
      <4>1. Own(d).target = entries[k].target
        BY <1>4, <3>1 DEF Own
      <4>2. entries'[d].target = IF Consumed(r)
                THEN Follow(IF Own(d).target = Unset THEN entries[r].target
                            ELSE Own(d).target, r, d)
                ELSE Own(d).target
        BY AdoptionFacts
      <4> QED
        BY <2>1, <3>1, <4>1, <4>2
    <3>2. CASE k # d
      BY <1>1, <1>4, <3>2 DEF OthersGiveUp
    <3> QED
      BY <3>1, <3>2
  <2> HIDE DEF name
  <2> QED
    BY <1>2, <1>4, <2>1, <2>2
<1> HIDE DEF name
<1> QED
  BY <1>2, <1>3, <1>4 DEF ReferencesFollow

\* What a device reads on the adopted route.
LEMMA SightReads ==
    ASSUME SettingsInv, loaded, NEW r \in Routes, NEW d \in Owners, NEW caps \in 0..1,
           AdoptRoute(d, r, caps)
    PROVE  LET set == {LegacyDpi(r), OwnLink(d, r).dpi} \ {0}
               read == ReadDpi(entries, ResolveAwake(entries, r, d), r)
           IN  ReadDpi(entries', d, r) \in IF set = {} THEN {read} ELSE set
<1> DEFINE old == LegacyDpi(r)
           own == OwnLink(d, r).dpi
           set == {old, own} \ {0}
           read == ReadDpi(entries, ResolveAwake(entries, r, d), r)
           now == ReadDpi(entries', d, r)
<1>1. Own(d) \in Entries /\ Own(d).dpi \in {0} \cup Values
  BY OwnFacts, EntryFacts
<1>2. own = LinkOf(Own(d), r).dpi
  <2>1. CASE Has(entries, d)
    BY <2>1 DEF OwnLink, Own
  <2>2. CASE ~Has(entries, d)
    BY <2>2, EntryFacts DEF OwnLink, Own, LinkOf, NoLinks
  <2> QED
    BY <2>1, <2>2
<1>3. /\ ~Consumed(r) => old = 0
      /\ Consumed(r) => old = entries[r].dpi
  <2>1. ASSUME Consumed(r) PROVE entries[r].links[r] = Unset
    <3>1. entries[r].links = NoLinks
      BY <2>1 DEF Consumed, SettingsInv
    <3> QED
      BY <3>1 DEF NoLinks
  <2> QED
    BY <2>1 DEF LegacyDpi, ReadDpi, EffectiveDpi, Consumed
<1>4. now = IF entries'[d].links[r].dpi # 0 THEN entries'[d].links[r].dpi ELSE entries'[d].dpi
  <2>1. Has(entries', d) /\ entries'[d].links[r] # Unset
    BY AdoptionFacts, EntryFacts
  <2> QED
    BY <2>1 DEF ReadDpi, EffectiveDpi
<1>5. /\ entries'[d].dpi = IF Consumed(r) /\ Own(d).dpi = 0 THEN entries[r].dpi ELSE Own(d).dpi
      /\ entries'[d].links[r].dpi =
             IF Consumed(r) /\ Own(d).dpi # 0 /\ entries[r].dpi \notin {0, Own(d).dpi}
             THEN entries[r].dpi ELSE LinkOf(Own(d), r).dpi
  BY AdoptionFacts
<1> HIDE DEF old, own, now
<1>6. CASE old # 0 \/ own # 0
  <2>1. now \in set
    BY <1>2, <1>3, <1>4, <1>5, <1>6
  <2> QED
    BY <2>1 DEF old, own, now
<1>7. CASE old = 0 /\ own = 0
  <2>1. now = Own(d).dpi
    BY <1>2, <1>3, <1>4, <1>5, <1>7
  <2>2. read = Own(d).dpi
    <3>1. ReadDpi(entries, d, r) = Own(d).dpi
      <4>1. CASE Has(entries, d)
        <5>1. Own(d) = entries[d] /\ LinkOf(entries[d], r).dpi = 0
          BY <1>2, <1>7, <4>1 DEF Own
        <5> QED
          BY <4>1, <5>1 DEF ReadDpi, EffectiveDpi, LinkOf
      <4>2. CASE ~Has(entries, d)
        BY <4>2, EntryFacts DEF ReadDpi, Own
      <4> QED
        BY <4>1, <4>2
    <3>2. CASE ResolveAwake(entries, r, d) = d
      BY <3>1, <3>2
    <3>3. CASE ResolveAwake(entries, r, d) # d
      <4>1. /\ ResolveAwake(entries, r, d) = PhysicalKey(r, d)
            /\ ~HoldsSettings(entries, d) /\ Has(entries, PhysicalKey(r, d))
        BY <3>3 DEF ResolveAwake, HoldsSettings
      <4>2. r \in Slots /\ PhysicalKey(r, d) = r
        <5>1. r \notin Slots => PhysicalKey(r, d) \in Scoped
          BY KeyFacts DEF PhysicalKey, Routes
        <5> QED
          BY <4>1, <5>1 DEF PhysicalKey, SettingsInv
      <4>3. read = 0
        BY <1>7, <4>1, <4>2 DEF old, LegacyDpi
      <4>4. Own(d).dpi = 0
        <5>1. CASE Has(entries, d)
          <6>1. Bare(entries[d]) /\ entries[d] \in Entries /\ Own(d) = entries[d]
            BY <1>1, <4>1, <5>1 DEF HoldsSettings, Own
          <6>2. entries[d].dpi = NoEntry.dpi
            BY <6>1, EntryFacts DEF Bare, NoEntry
          <6> QED
            BY <6>1, <6>2, EntryFacts
        <5>2. CASE ~Has(entries, d)
          BY <5>2, EntryFacts DEF Own
        <5> QED
          BY <5>1, <5>2
      <4> QED
        BY <4>3, <4>4
    <3> QED
      BY <3>2, <3>3
  <2> HIDE DEF read
  <2>3. set = {} /\ now = read
    BY <1>7, <2>1, <2>2
  <2> QED
    BY <2>3 DEF old, own, now, read
<1> QED
  BY <1>6, <1>7

\* The wheel's direction on the adopted route.
LEMMA SightReverses ==
    ASSUME SettingsInv, loaded, NEW r \in Routes, NEW d \in Owners, NEW caps \in 0..1,
           AdoptRoute(d, r, caps), LegacyInvert(r), OwnLink(d, r).invert # FALSE
    PROVE  ReadInvert(entries', d, r)
<1>1. Consumed(r) /\ entries[r].invert = TRUE
  <2>1. r \in Slots /\ Has(entries, r) /\ EffectiveInvert(entries[r], r)
    BY DEF LegacyInvert, ReadInvert
  <2>2. entries[r].links[r] = Unset
    BY <2>1 DEF SettingsInv, NoLinks
  <2>3. r \in EntryKeys
    BY <2>1, KeyFacts
  <2>4. entries[r].invert \in BOOLEAN
    BY <2>1, <2>3, EntryFacts DEF SettingsInv, ConfigTypes, Has
  <2> QED
    BY <2>1, <2>2, <2>4 DEF EffectiveInvert, Consumed
<1>2. /\ Own(d).invert \in BOOLEAN
      /\ LinkOf(Own(d), r).invert \in {TRUE, Unset}
  <2>1. LinkOf(Own(d), r) = OwnLink(d, r)
    <3>1. CASE Has(entries, d)
      BY <3>1 DEF OwnLink, Own
    <3>2. CASE ~Has(entries, d)
      BY <3>2, EntryFacts DEF OwnLink, Own, LinkOf, NoLinks
    <3> QED
      BY <3>1, <3>2
  <2> QED
    BY <2>1, OwnFacts, EntryFacts, LinkFacts
<1>3. Has(entries', d) /\ entries'[d].links[r] # Unset /\ entries'[d].invert = Own(d).invert
  BY AdoptionFacts, EntryFacts
<1>4. CASE Own(d).invert = FALSE
  <2>1. entries'[d].links[r].invert = TRUE
    BY <1>1, <1>4, AdoptionFacts
  <2> QED
    BY <1>3, <2>1, UnsetIsNothing DEF ReadInvert, EffectiveInvert
<1>5. CASE Own(d).invert = TRUE
  <2>1. entries'[d].links[r].invert = LinkOf(Own(d), r).invert
    BY <1>1, <1>5, AdoptionFacts
  <2>2. entries'[d].invert = TRUE
    BY <1>3, <1>5
  <2> QED
    BY <1>2, <1>3, <2>1, <2>2 DEF ReadInvert, EffectiveInvert
<1> QED
  BY <1>2, <1>4, <1>5

\* No other route of the device and no other device notices.
LEMMA SightLeavesOthers ==
    ASSUME SettingsInv, loaded, NEW r \in Routes, NEW d \in Owners, NEW caps \in 0..1,
           AdoptRoute(d, r, caps), NEW q \in Routes, q # r
    PROVE  /\ ReadDpi(entries, d, q) # 0 => ReadDpi(entries', d, q) = ReadDpi(entries, d, q)
           /\ \A other \in Owners \ {d} : ReadDpi(entries', other, q) = ReadDpi(entries, other, q)
<1>1. ASSUME ReadDpi(entries, d, q) # 0 PROVE ReadDpi(entries', d, q) = ReadDpi(entries, d, q)
  <2>1. Has(entries, d) /\ Own(d) = entries[d]
    BY <1>1 DEF ReadDpi, Own
  <2>2. Has(entries', d) /\ entries'[d].links[q] = entries[d].links[q]
    BY ZenonT(120), <2>1, AdoptionFacts
  <2>3. entries[d].dpi # 0 => entries'[d].dpi = entries[d].dpi
    <3>1. entries'[d].dpi = IF Consumed(r) /\ Own(d).dpi = 0 THEN entries[r].dpi ELSE Own(d).dpi
      BY AdoptionFacts
    <3> QED
      BY <2>1, <3>1
  <2> QED
    BY <1>1, <2>1, <2>2, <2>3 DEF ReadDpi, EffectiveDpi
<1>2. ASSUME NEW o \in Owners, o # d PROVE ReadDpi(entries', o, q) = ReadDpi(entries, o, q)
  <2>1. o \in EntryKeys /\ ~(Consumed(r) /\ o = r)
    BY KeyFacts DEF Consumed
  <2>2. OthersGiveUp(r, d)
    BY AdoptionFacts
  <2>3. Has(entries, o) => entries[o].links \in [Routes -> Links \cup {Unset}]
    BY <2>1, EntryFacts DEF SettingsInv, ConfigTypes, Has
  <2>4. /\ Has(entries', o) <=> Has(entries, o)
        /\ Has(entries', o) => /\ entries'[o].dpi = entries[o].dpi
                               /\ entries'[o].links[q] = entries[o].links[q]
    BY <1>2, <2>1, <2>2, <2>3 DEF OthersGiveUp
  <2> QED
    BY <2>4 DEF ReadDpi, EffectiveDpi
<1> QED
  BY <1>1, <1>2

\* Every step keeps names, what is read and the duty to report.
LEMMA StepsKeepSettings ==
    SettingsInv /\ [ConfigNext]_configVars =>
        [ReferencesFollow /\ AdoptionKeepsSettings /\ ChangesAreReported]_configVars
<1> SUFFICES ASSUME SettingsInv, ConfigNext
             PROVE  ReferencesFollow /\ AdoptionKeepsSettings /\ ChangesAreReported
  OBVIOUS
<1>1. CASE Load
  BY <1>1, LoadKeepsNames DEF Load, AdoptionKeepsSettings, ChangesAreReported
<1>2. ASSUME NEW r \in Routes, NEW caps \in 0..1, Sight(r, caps)
      PROVE  ReferencesFollow /\ AdoptionKeepsSettings /\ ChangesAreReported
  <2> DEFINE d == on[r]
  <2>1. /\ loaded /\ d \in Owners /\ AdoptRoute(d, r, caps)
        /\ lastSeen' = [lastSeen EXCEPT ![r] = d]
    BY <1>2 DEF Sight, SettingsInv, ConfigTypes
  <2>2. ReferencesFollow
    BY <2>1, SightKeepsNames
  <2>3. AdoptionKeepsSettings
    <3> SUFFICES ASSUME NEW p \in Routes, lastSeen' # lastSeen, lastSeen'[p] # lastSeen[p]
                 PROVE  LET set == {LegacyDpi(p), OwnLink(on[p], p).dpi} \ {0}
                            read == ReadDpi(entries, ResolveAwake(entries, p, on[p]), p)
                        IN  /\ ReadDpi(entries', on[p], p) \in IF set = {} THEN {read} ELSE set
                            /\ LegacyInvert(p) /\ OwnLink(on[p], p).invert # FALSE =>
                                   ReadInvert(entries', on[p], p)
                            /\ \A q \in Routes \ {p} :
                                   /\ ReadDpi(entries, on[p], q) # 0 =>
                                          ReadDpi(entries', on[p], q) = ReadDpi(entries, on[p], q)
                                   /\ \A other \in Owners \ {on[p]} :
                                          ReadDpi(entries', other, q) = ReadDpi(entries, other, q)
      BY DEF AdoptionKeepsSettings
    <3>1. p = r
      BY <2>1 DEF SettingsInv, ConfigTypes
    <3>2. LegacyInvert(r) /\ OwnLink(d, r).invert # FALSE => ReadInvert(entries', d, r)
      BY <2>1, SightReverses
    <3>3. \A q \in Routes \ {r} :
              /\ ReadDpi(entries, d, q) # 0 => ReadDpi(entries', d, q) = ReadDpi(entries, d, q)
              /\ \A other \in Owners \ {d} :
                     ReadDpi(entries', other, q) = ReadDpi(entries, other, q)
      BY <2>1, SightLeavesOthers
    <3>4. LET set == {LegacyDpi(r), OwnLink(d, r).dpi} \ {0}
              read == ReadDpi(entries, ResolveAwake(entries, r, d), r)
          IN  ReadDpi(entries', d, r) \in IF set = {} THEN {read} ELSE set
      BY <2>1, SightReads
    <3> QED
      BY <3>1, <3>2, <3>3, <3>4
  <2>4. ChangesAreReported
    <3>1. ~reported' => entries' = entries
      BY <2>1, AdoptionFacts
    <3> QED
      BY <3>1 DEF ChangesAreReported
  <2> QED
    BY <2>2, <2>3, <2>4
<1>3. ASSUME NEW r \in Routes, NEW awake \in BOOLEAN, NEW v \in Values, SetDpi(r, awake, v)
      PROVE  ReferencesFollow /\ AdoptionKeepsSettings /\ ChangesAreReported
  <2>1. selected' = selected /\ lastSeen' = lastSeen
    BY <1>3 DEF SetDpi
  <2>2. ASSUME NEW k \in EntryKeys \cup {Unset}, NamesAnEntry(entries, k)
        PROVE  NamesAnEntry(entries', k)
    BY <1>3, <2>2, SetFacts DEF NamesAnEntry
  <2>3. ASSUME NEW k \in EntryKeys, Has(entries, k), NamesAnEntry(entries, entries[k].target)
        PROVE  NamesAnEntry(entries', entries'[k].target)
    <3>1. entries[k].target \in EntryKeys \cup {Unset} /\ entries'[k].target = entries[k].target
      BY <1>3, <2>3, SetFacts, EntryFacts DEF SettingsInv, ConfigTypes, Has
    <3> QED
      BY <2>2, <2>3, <3>1
  <2>4. ReferencesFollow
    BY <2>1, <2>2, <2>3 DEF ReferencesFollow, SettingsInv, ConfigTypes
  <2>5. LinksIn(entries') = LinksIn(entries)
    <3>1. \A k \in EntryKeys : (IF Has(entries', k) THEN entries'[k].links ELSE NoLinks)
                               = (IF Has(entries, k) THEN entries[k].links ELSE NoLinks)
      BY <1>3, SetFacts
    <3> QED
      BY <3>1 DEF LinksIn
  <2> QED
    BY <2>1, <2>4, <2>5 DEF AdoptionKeepsSettings, ChangesAreReported
<1>4. ASSUME NEW r \in Routes, NEW d \in Owners, Replug(r, d)
      PROVE  ReferencesFollow /\ AdoptionKeepsSettings /\ ChangesAreReported
  BY <1>4 DEF Replug, ReferencesFollow, AdoptionKeepsSettings, ChangesAreReported
<1> QED
  BY <1>1, <1>2, <1>3, <1>4 DEF ConfigNext

\* The entries of a loaded file: none is keyed by a cable, a slot's has no
\* links, and a route is in the links of one entry, that of the device last
\* adopted for it (migrate_transport_scoped_keys, repair_duplicate_routes,
\* adopt_route).
THEOREM SettingsInvHolds == ConfigSpec => []SettingsInv
<1> QED
  BY InitSettingsInv, NextSettingsInv, PTL DEF ConfigSpec

\* Settings stay with their devices: a sleeping device resolves to its own
\* entry, names follow what they name, an adoption changes what a device
\* reads only for a value set for that route, and a change is reported
\* (Config::adopt_route, resolve_device_key).
THEOREM SettingsStayWithDevices == ConfigSpec => SettingsFollowDevices
<1>1. ConfigSpec => []SettingsInv
  BY SettingsInvHolds
<1> QED
  BY <1>1, SleepersAreKnown, StepsKeepSettings, PTL DEF ConfigSpec, SettingsFollowDevices
=============================================================================
