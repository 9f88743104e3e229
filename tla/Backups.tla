------------------------------ MODULE Backups ------------------------------
(***************************************************************************)
(* Snapshots of the database (internal/backup).  The ticker's goroutine    *)
(* and any number of administrators make them at the same time: a name     *)
(* with the second of the call, VACUUM INTO a file of that name, then the  *)
(* rotation, which lists the directory and removes what is beyond the      *)
(* retention.  Administrators also delete single files, by the list their  *)
(* page shows.                                                             *)
(*                                                                         *)
(* A backup is named by the second of its name.                            *)
(***************************************************************************)
EXTENDS Integers, Sequences, FiniteSets, SequencesExt, Listing

CONSTANTS
  Makers,      (* calls of BackupOnce under way at the same time           *)
  Keep,        (* BACKUP_RETENTION; 0 keeps everything                     *)
  LastSecond   (* bound on the clock                                       *)

ASSUME BackupsAssumption == Keep \in Nat /\ LastSecond \in Nat

VARIABLES
  second,   (* the clock                                                   *)
  dir,      (* the directory: names -> ModTime, NoFile where there is none *)
  stamp,    (* history: names -> ModTime of the file that was made         *)
  maker,    (* Makers -> what BackupOnce is about to do, and with what     *)
  erased,   (* history: names an administrator deleted                     *)
  again     (* history: names that were made a second time                 *)

backupsVars == <<second, dir, stamp, maker, erased, again>>

-------------------------------------------------------------------------------
Seconds == 0..LastSecond

NoFile == 0 - 1

Files(d) == {f \in Seconds : d[f] # NoFile}

NotMaking == [at |-> "idle", name |-> 0, todo |-> <<>>]

(* ReadDir goes by name, and for as few files as these sort.Slice leaves   *)
(* files of one second in that order.                                      *)
Newer(d, f, g) == d[f] > d[g] \/ (d[f] = d[g] /\ f < g)

ListBackups ==
  Listed(Files(dir), [f \in Files(dir) |-> {g \in Files(dir) : Newer(dir, g, f)}])

-------------------------------------------------------------------------------
BackupOnce(m) ==
  /\ maker[m].at = "idle"
  /\ maker' = [maker EXCEPT ![m] = [NotMaking EXCEPT !.at = "vacuum", !.name = second]]
  /\ UNCHANGED <<second, dir, stamp, erased, again>>

(* VACUUM INTO has made the file, or a part of it.                         *)
FileMade(m) ==
  /\ maker[m].at = "vacuum" /\ dir[maker[m].name] = NoFile
  /\ dir' = [dir EXCEPT ![maker[m].name] = second]
  /\ stamp' = [stamp EXCEPT ![maker[m].name] = second]
  /\ again' = IF stamp[maker[m].name] = NoFile THEN again ELSE again \cup {maker[m].name}

(* One connection to the database: snapshots are taken one after another.  *)
VacuumInto(m) ==
  /\ FileMade(m)
  /\ maker' = [maker EXCEPT ![m] = IF Keep > 0 THEN [@ EXCEPT !.at = "list"] ELSE NotMaking]
  /\ UNCHANGED <<second, erased>>

(* The file is there already, or the statement fails; what it wrote so far *)
(* may stay under a name like any other, that List counts.                 *)
VacuumFails(m) ==
  /\ maker[m].at = "vacuum"
  /\ maker' = [maker EXCEPT ![m] = NotMaking]
  /\ FileMade(m) \/ UNCHANGED <<dir, stamp, again>>
  /\ UNCHANGED <<second, erased>>

(* Mutant: the list is taken from its old end. *)
BeyondOldest(list) == SubSeq(Reverse(list), Keep + 1, Len(list))

Beyond(list) == SubSeq(list, Keep + 1, Len(list))

PruneBackups(m) ==
  /\ maker[m].at = "list"
  /\ LET todo == IF Len(ListBackups) <= Keep THEN <<>> ELSE Beyond(ListBackups)
     IN  maker' = [maker EXCEPT ![m] = IF todo = <<>> THEN NotMaking
                                       ELSE [@ EXCEPT !.at = "remove", !.todo = todo]]
  /\ UNCHANGED <<second, dir, stamp, erased, again>>

(* A file that is gone, or cannot be removed, does not stop the rotation. *)
RemoveOld(m) ==
  /\ maker[m].at = "remove"
  /\ LET todo == maker[m].todo
     IN  /\ dir' \in {dir, [dir EXCEPT ![Head(todo)] = NoFile]}
         /\ maker' = [maker EXCEPT ![m] = IF Len(todo) = 1 THEN NotMaking
                                          ELSE [@ EXCEPT !.todo = Tail(todo)]]
  /\ UNCHANGED <<second, stamp, erased, again>>

(* The name comes from an older look at the list: the file may be gone. *)
DeleteBackup(f) ==
  /\ stamp[f] # NoFile
  /\ dir' = [dir EXCEPT ![f] = NoFile]
  /\ erased' = erased \cup {f}
  /\ UNCHANGED <<second, stamp, maker, again>>

BackupsNextSecond ==
  /\ second < LastSecond
  /\ second' = second + 1
  /\ UNCHANGED <<dir, stamp, maker, erased, again>>

(* The process stops anywhere; the directory stays, with the part of a     *)
(* snapshot that was just being written.                                   *)
BackupsStop ==
  /\ \E m \in Makers : maker[m] # NotMaking
  /\ maker' = [m \in Makers |-> NotMaking]
  /\ (\E m \in Makers : FileMade(m)) \/ UNCHANGED <<dir, stamp, again>>
  /\ UNCHANGED <<second, erased>>

BackupsInit ==
  /\ second = 0
  /\ dir = [f \in Seconds |-> NoFile] /\ stamp = [f \in Seconds |-> NoFile]
  /\ maker = [m \in Makers |-> NotMaking]
  /\ erased = {} /\ again = {}

BackupsNext ==
  \/ \E m \in Makers : \/ BackupOnce(m) \/ VacuumInto(m) \/ VacuumFails(m)
                       \/ PruneBackups(m) \/ RemoveOld(m)
  \/ \E f \in Seconds : DeleteBackup(f)
  \/ BackupsNextSecond \/ BackupsStop

BackupsSpec == BackupsInit /\ [][BackupsNext]_backupsVars

-------------------------------------------------------------------------------
BackupsTypeOK ==
  /\ second \in Seconds
  /\ dir \in [Seconds -> Seconds \cup {NoFile}] /\ stamp \in [Seconds -> Seconds \cup {NoFile}]
  /\ maker \in [Makers -> [at : {"idle", "vacuum", "list", "remove"}, name : Seconds,
                           todo : Seq(Seconds)]]
  /\ erased \subseteq Seconds /\ again \subseteq Seconds

(* However the rotations of overlapping backups and the administrators'    *)
(* deletions interleave, a snapshot that no administrator deleted is only  *)
(* missing when Keep others were made that the list puts before it, those  *)
(* that were cut off included.  A name that was made twice is left out: a  *)
(* call that got its name, waited for the connection and then made a file  *)
(* that a rotation had just removed can lose it to another rotation's      *)
(* older list.                                                             *)
NewestAreKept ==
  \A f \in Files(stamp) \ (Files(dir) \cup erased \cup again) :
    Cardinality({g \in Files(stamp) : Newer(stamp, g, f)}) >= Keep
=============================================================================
