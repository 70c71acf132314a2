------------------------------ MODULE BackupShelf ------------------------------
(***************************************************************************)
(* What ISaveService and delete_backup promise a screen about one title: a *)
(* shelf of backups beside the saves of the profiles, and one operation at *)
(* a time.                                                                 *)
(*                                                                         *)
(* A backup appears on the shelf at once, with the saves that the profiles *)
(* have at that moment; a package from the cloud appears as it was made; a *)
(* restored profile has at once the save it has in the backup that was     *)
(* asked for; what is on the shelf stays as it is until it is deleted, or  *)
(* until another backup is begun in its place, and goes at once.  An       *)
(* operation may always stop without an effect.  What is not promised is   *)
(* told apart: a save may come out broken, and no backup is made of that.  *)
(***************************************************************************)

CONSTANTS Profiles,   \* users of the console
          Times,      \* places on the shelf
          Saves,      \* whole saves of the title
          NoSave,     \* what a profile without a save has
          Broken,     \* a save that is not known to be whole
          Package     \* what the cloud holds, in the shape of a backup

VARIABLES save,       \* save[p]: what the game finds for profile p
          shelf,      \* shelf[t][p]: the save of p in the backup of t
          doing       \* the operation under way and its place on the shelf

vars == <<save, shelf, doing>>

Nothing == [p \in Profiles |-> NoSave]
Idle == [kind |-> "none", time |-> 0]

Init ==
    /\ save \in [Profiles -> Saves \cup {NoSave}]
    /\ shelf = [t \in Times |-> Nothing]
    /\ doing = Idle

\* An operation begins; a backup and an import clear their place.
Begin(kind, t) ==
    /\ doing = Idle
    /\ doing' = [kind |-> kind, time |-> t]
    /\ shelf' = IF kind = "restore" THEN shelf ELSE [shelf EXCEPT ![t] = Nothing]
    /\ UNCHANGED save

End == doing' = Idle /\ UNCHANGED <<save, shelf>>

Put(kind, b) ==
    /\ doing.kind = kind /\ shelf[doing.time] = Nothing
    /\ shelf' = [shelf EXCEPT ![doing.time] = b]
    /\ doing' = Idle /\ UNCHANGED save

\* backup: the saves of some profiles, none of them made up or broken.
Backup(ps) ==
    /\ \A p \in ps : save[p] \in Saves
    /\ Put("backup", [p \in Profiles |-> IF p \in ps THEN save[p] ELSE NoSave])

\* importPackageAsBackup: all of the package.
Import == Put("import", Package)

\* restore, of one profile that has a save: what is on the shelf, or broken.
Restore(p) ==
    /\ doing.kind = "restore" /\ save[p] # NoSave
    /\ \E s \in {shelf[doing.time][p], Broken} \ {NoSave} : save' = [save EXCEPT ![p] = s]
    /\ UNCHANGED <<shelf, doing>>

\* delete_backup: manifest and save files, also beside an operation.
Delete(t) ==
    /\ shelf' = [shelf EXCEPT ![t] = Nothing]
    /\ UNCHANGED <<save, doing>>

\* The game is played, its save made or removed; no operation outlives that.
Play(p, s) ==
    /\ save' = [save EXCEPT ![p] = s]
    /\ doing' = Idle /\ UNCHANGED shelf

Next ==
    \/ \E t \in Times : Delete(t) \/ \E kind \in {"backup", "import", "restore"} : Begin(kind, t)
    \/ End \/ Import \/ \E ps \in SUBSET Profiles : Backup(ps)
    \/ \E p \in Profiles : Restore(p) \/ \E s \in Saves \cup {NoSave} : Play(p, s)

Spec == Init /\ [][Next]_vars
===============================================================================
