------------------------------- MODULE Gallery -------------------------------
(***************************************************************************)
(* The gallery (gallery_service.py, api/gallery.py, imaging.py, the         *)
(* _persist of image_diffusers.py) and its backup (scripts/backup.py): the  *)
(* files of an image are written by the worker's thread under a stem with   *)
(* four random digits, its row is committed later, and requests delete,     *)
(* tag, serve and export images, or clear finished jobs away together with  *)
(* the rows of their images, while the backup script copies rows and files  *)
(* one after the other. Backend and script may be killed at any point.      *)
(***************************************************************************)
EXTENDS Naturals, Sequences, FiniteSets

CONSTANTS Pictures,   \* images that are generated
          Stems,      \* seed and random digits: the names a file may get
          Editors,    \* requests that delete or tag
          RawTags,    \* lists of tags a request may bring
          MaxTags,    \* tags of an image
          KeepBackups,\* --keep of the backup script
          NoPicture, NoStem, NoneYet,
          MaxBackups, MaxGalleryKills \* bounds: directories of backups, kills of backend or script

ASSUME GalleryAssumption ==
  /\ NoPicture \notin Pictures /\ NoStem \notin Stems
  /\ RawTags \subseteq Seq([key : STRING, spelling : STRING, blank : BOOLEAN])
  /\ {MaxTags, KeepBackups, MaxBackups, MaxGalleryKills} \subseteq Nat

VARIABLES png, sidecar, thumb, \* the picture a file shows
          stem,     \* the stem that _persist drew for a picture
          saving,   \* what _persist and the commit of the job have done for it
          imageRow, \* rows of the table
          tags,     \* the tags in a row
          edit,     \* edit[e]: a delete or a tagging, and how far it is
          backup,   \* the backup under way: rows copied
          backups,  \* the directories of backups, oldest first
          removed,  \* history: pictures whose files a delete has unlinked
          cleared,  \* history: those whose row went with its job, with all files left
          lastBackup, \* history: the last backup that was completed
          galleryKills

galleryFiles == <<png, sidecar, thumb>>
galleryRows == <<imageRow, tags>>
galleryBackups == <<backups, lastBackup>>
galleryHistory == <<removed, cleared, galleryKills>>
galleryVars == <<galleryFiles, stem, saving, galleryRows, edit, backup, galleryBackups, galleryHistory>>

NoEdit == [stage |-> "idle", op |-> "none", picture |-> NoPicture]
NoBackup == [stage |-> "idle", rows |-> {}]

GalleryInit ==
  /\ png = [s \in Stems |-> NoPicture] /\ sidecar = png /\ thumb = png
  /\ stem = [p \in Pictures |-> NoStem] /\ saving = [p \in Pictures |-> "no"]
  /\ imageRow = {} /\ tags = [p \in Pictures |-> <<>>]
  /\ edit = [e \in Editors |-> NoEdit]
  /\ backup = NoBackup /\ backups = <<>> /\ lastBackup = NoneYet
  /\ removed = {} /\ cleared = {} /\ galleryKills = 0

------------------------------------------------------------------------------
(* Tags. A tag has the key it casefolds to and a spelling; blank: it is longer *)
(* than 40 characters and the last one that is kept is a blank.                *)

Tag(key, spelling, blank) == [key |-> key, spelling |-> spelling, blank |-> blank]

\* _normalize_tags: the first of each key, and not more than there may be; nothing
\* of a tag may be left.
NoKey == ""
AddTag(out, t) ==
  IF t.key = NoKey \/ Len(out) = MaxTags \/ \E i \in DOMAIN out : out[i].key = t.key /\ out[i].blank = t.blank
  THEN out ELSE Append(out, t)

NormalizeTags(raw) ==
  LET kept[n \in 0..Len(raw)] == IF n = 0 THEN <<>> ELSE AddTag(kept[n - 1], raw[n])
  IN kept[Len(raw)]

\* to_out_dict: what is stored is normalized again, and so loses a blank at its end.
ShownTags(stored) == NormalizeTags([i \in DOMAIN stored |-> [stored[i] EXCEPT !.blank = FALSE]])

\* The tag filter of _apply_filters: as it is stored, and as it was stripped.
FoundByTag(stored, t) == \E i \in DOMAIN stored : stored[i] = t /\ ~t.blank

------------------------------------------------------------------------------
(* _persist, and the commit of the job (Worker._finish_image) *)

SavePng(p, s) ==
  /\ saving[p] = "no"
  /\ png' = [png EXCEPT ![s] = p] /\ stem' = [stem EXCEPT ![p] = s]
  /\ saving' = [saving EXCEPT ![p] = "png"]
  /\ UNCHANGED <<sidecar, thumb, galleryRows, edit, backup, galleryBackups, galleryHistory>>

SaveSidecar(p) ==
  /\ saving[p] = "png"
  /\ sidecar' = [sidecar EXCEPT ![stem[p]] = p] /\ saving' = [saving EXCEPT ![p] = "sidecar"]
  /\ UNCHANGED <<png, thumb, stem, galleryRows, edit, backup, galleryBackups, galleryHistory>>

SaveThumb(p) ==
  /\ saving[p] = "sidecar"
  /\ thumb' = [thumb EXCEPT ![stem[p]] = p] /\ saving' = [saving EXCEPT ![p] = "thumb"]
  /\ UNCHANGED <<png, sidecar, stem, galleryRows, edit, backup, galleryBackups, galleryHistory>>

CommitImage(p) ==
  /\ saving[p] = "thumb"
  /\ imageRow' = imageRow \union {p} /\ saving' = [saving EXCEPT ![p] = "row"]
  /\ UNCHANGED <<galleryFiles, stem, tags, edit, backup, galleryBackups, galleryHistory>>

\* A full disk, a cancel or a failure of the job: the files stay where they are.
SaveFails(p) ==
  /\ saving[p] \in {"png", "sidecar", "thumb"} /\ saving' = [saving EXCEPT ![p] = "failed"]
  /\ UNCHANGED <<galleryFiles, stem, galleryRows, edit, backup, galleryBackups, galleryHistory>>

------------------------------------------------------------------------------
(* Requests *)

\* session.get: a delete or a tagging of a row that is there (else 404).
FindImage(e, op, p) ==
  /\ edit[e] = NoEdit /\ p \in imageRow
  /\ edit' = [edit EXCEPT ![e] = [stage |-> "found", op |-> op, picture |-> p]]
  /\ UNCHANGED <<galleryFiles, stem, saving, galleryRows, backup, galleryBackups, galleryHistory>>

\* Mutant: the row is committed before the files are unlinked.
UnlinkRow(e) ==
  /\ edit[e].stage = "found" /\ edit[e].op = "delete"
  /\ imageRow' = imageRow \ {edit[e].picture}
  /\ edit' = [edit EXCEPT ![e] = NoEdit]
  /\ UNCHANGED <<galleryFiles, stem, saving, tags, backup, galleryBackups, galleryHistory>>

\* delete_image: PNG and thumbnail, each unless it is locked; the sidecar stays.
UnlinkFiles(e) ==
  LET p == edit[e].picture
  IN /\ edit[e].stage = "found" /\ edit[e].op = "delete"
     /\ \E locked \in SUBSET {"png", "thumb"} :
          /\ png' = IF "png" \in locked THEN png ELSE [png EXCEPT ![stem[p]] = NoPicture]
          /\ thumb' = IF "thumb" \in locked THEN thumb ELSE [thumb EXCEPT ![stem[p]] = NoPicture]
     /\ removed' = removed \union {p} /\ cleared' = cleared \ {p}
     /\ edit' = [edit EXCEPT ![e].stage = "unlinked"]
     /\ UNCHANGED <<sidecar, stem, saving, galleryRows, backup, galleryBackups, galleryKills>>

\* The commit at the end of the request. A row that is gone already, deleted by another
\* request or cleared with its job, is no error.
CommitDelete(e) ==
  /\ edit[e].stage = "unlinked"
  /\ imageRow' = imageRow \ {edit[e].picture}
  /\ edit' = [edit EXCEPT ![e] = NoEdit]
  /\ UNCHANGED <<galleryFiles, stem, saving, tags, backup, galleryBackups, galleryHistory>>

\* update_image: an UPDATE that finds no row raises, and changes nothing.
CommitTags(e, raw) ==
  LET p == edit[e].picture
  IN /\ edit[e].stage = "found" /\ edit[e].op = "tag"
     /\ tags' = IF p \in imageRow THEN [tags EXCEPT ![p] = NormalizeTags(raw)] ELSE tags
     /\ edit' = [edit EXCEPT ![e] = NoEdit]
     /\ UNCHANGED <<galleryFiles, stem, saving, imageRow, backup, galleryBackups, galleryHistory>>

\* clear_finished (api/jobs.py, queue_service.py): the jobs that had finished when the
\* request read them are deleted, and the rows of their images with them; their files
\* stay. A job has finished when its images have rows. The images of one job come and
\* go together; here each has a job of its own.
ClearFinished ==
  \E finished \in SUBSET imageRow \ {{}} :
    /\ imageRow' = imageRow \ finished /\ cleared' = cleared \union (finished \ removed)
    /\ UNCHANGED <<galleryFiles, stem, saving, tags, edit, backup, galleryBackups, removed, galleryKills>>

\* image_file, image_thumb: what comes back under the id of a row (else 404).
Served(p) == {png[stem[p]], thumb[stem[p]]} \ {NoPicture}

\* export_images: the rows that are there, with the files that are there.
Exported(ps) == [row \in ps \intersect imageRow |-> {png[stem[row]]} \ {NoPicture}]

------------------------------------------------------------------------------
(* scripts/backup.py, a process of its own *)

SnapshotDb ==
  /\ backup = NoBackup /\ Len(backups) < MaxBackups
  /\ backup' = [stage |-> "db", rows |-> imageRow]
  /\ UNCHANGED <<galleryFiles, stem, saving, galleryRows, edit, galleryBackups, galleryHistory>>

\* apply_retention: the newest ones stay; a negative number keeps all.
Retained(all) ==
  IF KeepBackups >= Len(all) THEN all ELSE SubSeq(all, Len(all) - KeepBackups + 1, Len(all))

\* write_manifest, and then the retention, which may remove even what was just written
\* (--keep 0).
WriteManifest ==
  /\ backup.stage = "db"
  /\ lastBackup' = [whole |-> TRUE, rows |-> backup.rows, files |-> {s \in Stems : png[s] # NoPicture}]
  /\ backups' = Retained(Append(backups, lastBackup'))
  /\ backup' = NoBackup
  /\ UNCHANGED <<galleryFiles, stem, saving, galleryRows, edit, galleryHistory>>

\* An exception: the directory is removed again.
BackupFails ==
  /\ backup.stage = "db" /\ backup' = NoBackup
  /\ UNCHANGED <<galleryFiles, stem, saving, galleryRows, edit, galleryBackups, galleryHistory>>

\* The script is killed or interrupted, which is no Exception: its directory stays,
\* without a manifest, and counts as a backup for the retention of the next run.
KillBackup ==
  /\ galleryKills < MaxGalleryKills /\ galleryKills' = galleryKills + 1
  /\ backup.stage = "db" /\ backup' = NoBackup
  /\ backups' = Append(backups, [whole |-> FALSE, rows |-> {}, files |-> {}])
  /\ UNCHANGED <<galleryFiles, stem, saving, galleryRows, edit, lastBackup, removed, cleared>>

\* The backend is killed: requests and jobs are gone, files and rows are not.
KillGallery ==
  /\ galleryKills < MaxGalleryKills /\ galleryKills' = galleryKills + 1
  /\ edit' = [e \in Editors |-> NoEdit]
  /\ saving' = [p \in Pictures |-> IF saving[p] \in {"no", "row"} THEN saving[p] ELSE "failed"]
  /\ UNCHANGED <<galleryFiles, stem, galleryRows, backup, galleryBackups, removed, cleared>>

GalleryNext ==
  \/ \E p \in Pictures : (\E s \in Stems : SavePng(p, s)) \/ SaveSidecar(p) \/ SaveThumb(p) \/ CommitImage(p) \/ SaveFails(p)
  \/ \E e \in Editors :
       \/ \E p \in Pictures, op \in {"delete", "tag"} : FindImage(e, op, p)
       \/ UnlinkFiles(e) \/ CommitDelete(e) \/ \E raw \in RawTags : CommitTags(e, raw)
  \/ ClearFinished
  \/ SnapshotDb \/ WriteManifest \/ BackupFails \/ KillBackup
  \/ KillGallery

GallerySpec == GalleryInit /\ [][GalleryNext]_galleryVars

------------------------------------------------------------------------------
(* Properties *)

\* Two pictures that drew the same stem: the second has overwritten the first.
Clash(p) == \E q \in Pictures \ {p} : stem[q] = stem[p] /\ stem[p] # NoStem

GalleryTypeOK ==
  /\ {png[s] : s \in Stems} \union {thumb[s] : s \in Stems} \subseteq Pictures \union {NoPicture}
  /\ imageRow \subseteq Pictures

\* imaging.py:3-5: a row that nobody is deleting has its own PNG, thumbnail and
\* sidecar, and nobody gets another picture under its id, unless stems clash.
RowsHaveFiles ==
  \A p \in imageRow :
    Clash(p) \/ /\ p \notin removed => Served(p) = {p} /\ sidecar[stem[p]] = p
                /\ Served(p) \union Exported(Pictures)[p] \subseteq {p}

\* gallery_service.py:138-151, queue_service.py:60-66: a picture loses its row in two
\* ways only, by a delete that has unlinked its files before, or with its job. Of one
\* that went with its job all files stay, though nothing leads to them any more, and
\* whichever way it went, it has no row again.
DeletedStayDeleted ==
  \A p \in Pictures : saving[p] = "row" /\ p \notin imageRow /\ p \notin removed =>
    p \in cleared /\ (~Clash(p) => Served(p) = {p} /\ sidecar[stem[p]] = p)

\* The tags of a picture are few, different and stay the same when they are stored
\* again; each that is shown finds it, but for one that was cut at a blank.
TagsAreFound ==
  \A p \in Pictures :
    LET shown == ShownTags(tags[p])
    IN /\ Len(tags[p]) <= MaxTags /\ NormalizeTags(tags[p]) = tags[p] /\ NormalizeTags(shown) = shown
       /\ \A i, j \in DOMAIN shown : shown[i].key = shown[j].key => i = j
       /\ \A i \in DOMAIN shown : FoundByTag(tags[p], shown[i]) \/ \E k \in DOMAIN tags[p] : tags[p][k].blank

\* Whatever goes on meanwhile, the manifest of a completed backup lists the file of
\* every row in its snapshot whose picture was not deleted; and the retention never
\* removes the backup that was completed last, unless it is told to keep none: not
\* for older ones, and not for directories that killed scripts left.
BackupsAreWhole ==
  /\ \A i \in DOMAIN backups : backups[i].whole =>
       \A p \in backups[i].rows : stem[p] \in backups[i].files \/ p \in removed \/ Clash(p)
  /\ KeepBackups > 0 /\ lastBackup # NoneYet => \E i \in DOMAIN backups : backups[i] = lastBackup

GalleryIsSound == GalleryTypeOK /\ RowsHaveFiles /\ DeletedStayDeleted /\ TagsAreFound /\ BackupsAreWhole
==============================================================================
