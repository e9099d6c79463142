------------------------------ MODULE Uploads ------------------------------
(***************************************************************************)
(* Uploaded files: the avatar of a user (UserService.updateInfo), the      *)
(* covers of sessions (BadmintonSessionService.insert and change), and the *)
(* job that removes the files nobody refers to every night                 *)
(* (AppService.removeFileNotUsed).                                         *)
(*                                                                         *)
(* multer writes the file before the handler runs, under a name no other   *)
(* file has had.  afterLoad turns the stored path of a loaded row into a   *)
(* URL, so a row that is saved from a copy with another avatar than the    *)
(* save has read gets the URL: such a reference leads to no file.          *)
(*                                                                         *)
(* The timer of the job is in the memory of the process (ScheduleService): *)
(* a process that dies takes it along with the calls under way, and the    *)
(* next one sets it again while it starts (AppService.onModuleInit).       *)
(***************************************************************************)
EXTENDS FiniteSets, Tables

CONSTANTS
    Files,     \* bound of the model on the files ever uploaded
    NoFile,    \* no file in the body, NULL in the column
    Sessions,
    Calls,     \* calls that may overlap
    Nights,    \* jobs that may overlap
    SCHEDULE_ENABLE    \* setting: whether ScheduleService schedules anything

ASSUME NoFileAssumption == NoFile \notin Files
ASSUME ScheduleAssumption == SCHEDULE_ENABLE \in BOOLEAN

VARIABLES
    disk,      \* the files in UPLOAD_PATH
    avatar,    \* the column of the user
    covers,    \* session -> its coverImage
    inflight,  \* call -> what it does, where it waits and what it holds
    up,        \* whether a process serves requests
    registry,  \* names of the timers of SchedulerRegistry
    cron,      \* night -> where the job of that night waits and the paths it has read
    used,      \* history: files that have been uploaded
    kept,      \* history: night -> files with a reference ever since its job began
    exposed    \* history: a call failed between unlink and save, or a file was
               \* removed, or its path turned into a URL, behind a call's back

process == <<up, registry>>
vars == <<disk, avatar, covers, inflight, process, cron, used, kept, exposed>>

File == Files \cup {NoFile}

\* The body of PUT /users/info: of all its fields the file.
UpdateInfoDto == [avatar: File]
Ref == [file: File, url: BOOLEAN]
NoRef == [file |-> NoFile, url |-> FALSE]

\* copy: the avatar as it was stored when the user was loaded.
Call == [at: {"getEntity", "phone", "saveRead", "saveWrite",
              "insertSession", "loadSession", "saveSession"},
         file: File, copy: Ref, seen: Ref, session: Sessions]

CronJob == [at: {"covers", "sweep"}, paths: SUBSET Files]

Init ==
    /\ disk = {}
    /\ avatar = NoRef
    /\ covers = EmptyTable
    /\ inflight = EmptyTable
    /\ up = FALSE
    /\ registry = {}
    /\ cron = EmptyTable
    /\ used = {}
    /\ kept = EmptyTable
    /\ exposed = FALSE

Idle(c) == up /\ c \notin DOMAIN inflight
At(c, place) == c \in DOMAIN inflight /\ inflight[c].at = place
Await(c, call) == inflight' = Put(inflight, c, call)
Answer(c) == inflight' = Drop(inflight, c)

\* Files the getPaths queries answer: URLs do not end up as file names.
AvatarPaths == IF avatar.url THEN {} ELSE {avatar.file} \ {NoFile}
CoverPaths == {covers[s] : s \in DOMAIN covers} \ {NoFile}
Referenced == AvatarPaths \cup CoverPaths

\* Files that calls have in hand.
InHand == {inflight[c].file : c \in DOMAIN inflight} \ {NoFile}

\* FileInterceptor: the file of the body, if it has one, is on the disk.
Upload(f) ==
    /\ f \notin used
    /\ disk' = disk \cup ({f} \ {NoFile})
    /\ used' = used \cup ({f} \ {NoFile})

-----------------------------------------------------------------------------
(* UserService.updateInfo; without a file, every save of a loaded user *)

UpdateInfo(c, f, s) ==
    /\ Idle(c)
    /\ Upload(f)
    /\ Await(c, [at |-> "getEntity", file |-> f, copy |-> NoRef, seen |-> NoRef,
                 session |-> s])
    /\ UNCHANGED <<avatar, covers, process, cron, exposed>>

UpdateInfoLoad(c) ==
    /\ At(c, "getEntity")
    /\ Await(c, [inflight[c] EXCEPT !.at = "phone", !.copy = avatar])
    /\ UNCHANGED <<disk, avatar, covers, process, cron, used, exposed>>

\* Mutant: the old avatar goes whether or not there is a new one.
UpdateInfoReplaceAlways(c) ==
    LET old == inflight[c].copy
    IN  /\ At(c, "phone")
        /\ disk' = disk \ {old.file}
        /\ Await(c, [inflight[c] EXCEPT !.at = "saveRead",
                        !.copy = IF inflight[c].file # NoFile THEN NoRef ELSE @])
        /\ UNCHANGED <<avatar, covers, process, cron, used, exposed>>

\* unlinkSync throws when the old avatar is no file: the call ends there, and
\* so does every later one that brings an avatar.
UpdateInfoReplace(c) ==
    LET old == inflight[c].copy
        replaces == inflight[c].file # NoFile /\ old # NoRef
        missing == old.url \/ old.file \notin disk
    IN  /\ At(c, "phone")
        /\ IF replaces /\ missing
           THEN Answer(c) /\ UNCHANGED disk
           ELSE /\ disk' = IF replaces THEN disk \ {old.file} ELSE disk
                /\ Await(c, [inflight[c] EXCEPT !.at = "saveRead",
                        !.copy = IF inflight[c].file # NoFile THEN NoRef ELSE @])
        /\ UNCHANGED <<avatar, covers, process, cron, used, exposed>>

UpdateInfoSaveRead(c) ==
    /\ At(c, "saveRead")
    /\ Await(c, [inflight[c] EXCEPT !.at = "saveWrite", !.seen = avatar])
    /\ UNCHANGED <<disk, avatar, covers, process, cron, used, exposed>>

\* A new path is written; an old copy only where the save has read another.
UpdateInfoSaveWrite(c) ==
    LET call == inflight[c]
        carries == call.file = NoFile /\ call.copy # call.seen
    IN  /\ At(c, "saveWrite")
        /\ avatar' = IF call.file # NoFile THEN [file |-> call.file, url |-> FALSE]
                     ELSE Column(avatar, call.seen,
                            IF carries /\ call.copy # NoRef
                            THEN [call.copy EXCEPT !.url = TRUE] ELSE call.copy)
        /\ exposed' = (exposed \/ carries)
        /\ Answer(c)
        /\ UNCHANGED <<disk, covers, process, cron, used>>

-----------------------------------------------------------------------------
(* BadmintonSessionService.insert and change *)

SessionInsert(c, s, f) ==
    /\ Idle(c)
    /\ s \notin DOMAIN covers
    /\ Upload(f)
    /\ Await(c, [at |-> "insertSession", file |-> f, copy |-> NoRef, seen |-> NoRef,
                 session |-> s])
    /\ UNCHANGED <<avatar, covers, process, cron, exposed>>

\* Mutant: without a file the column gets the text of an undefined path.
SessionInsertSaveText(c) ==
    /\ At(c, "insertSession")
    /\ inflight[c].session \notin DOMAIN covers
    /\ covers' = Put(covers, inflight[c].session,
            IF inflight[c].file = NoFile THEN "undefined" ELSE inflight[c].file)
    /\ Answer(c)
    /\ UNCHANGED <<disk, avatar, process, cron, used, exposed>>

SessionInsertSave(c) ==
    /\ At(c, "insertSession")
    /\ inflight[c].session \notin DOMAIN covers
    /\ covers' = Put(covers, inflight[c].session, inflight[c].file)
    /\ Answer(c)
    /\ UNCHANGED <<disk, avatar, process, cron, used, exposed>>

SessionChange(c, s, f) ==
    /\ Idle(c)
    /\ s \in DOMAIN covers
    /\ f # NoFile
    /\ Upload(f)
    /\ Await(c, [at |-> "loadSession", file |-> f, copy |-> NoRef, seen |-> NoRef,
                 session |-> s])
    /\ UNCHANGED <<avatar, covers, process, cron, exposed>>

\* unlinkSync is given the URL of an old cover, which is no file: it throws.
SessionChangeLoad(c) ==
    /\ At(c, "loadSession")
    /\ IF covers[inflight[c].session] = NoFile
       THEN Await(c, [inflight[c] EXCEPT !.at = "saveSession"])
       ELSE Answer(c)
    /\ UNCHANGED <<disk, avatar, covers, process, cron, used, exposed>>

SessionChangeSave(c) ==
    /\ At(c, "saveSession")
    /\ covers' = Put(covers, inflight[c].session, inflight[c].file)
    /\ Answer(c)
    /\ UNCHANGED <<disk, avatar, process, cron, used, exposed>>

\* Calls that have unlinked the old avatar, if there was one, and not yet saved.
Replacing(c) == (At(c, "saveRead") \/ At(c, "saveWrite")) /\ inflight[c].file # NoFile

\* The body is refused or a query fails: files stay as they are.
Fail(c) ==
    /\ c \in DOMAIN inflight
    /\ exposed' = (exposed \/ Replacing(c))
    /\ Answer(c)
    /\ UNCHANGED <<disk, avatar, covers, process, cron, used>>

-----------------------------------------------------------------------------
(* The process *)

Job == "RemoveFileNotUsed"

\* ScheduleService.addCronJob; its constructor replaces it by a function that
\* does nothing where scheduling is disabled.  A name is given once.
AddCronJob(name) ==
    /\ name \notin registry
    /\ registry' = IF SCHEDULE_ENABLE THEN registry \cup {name} ELSE registry

\* A process starts: AppService.onModuleInit, before it serves requests.
Boot ==
    /\ ~up
    /\ AddCronJob(Job)
    /\ up' = TRUE
    /\ UNCHANGED <<disk, avatar, covers, inflight, cron, used, exposed>>

\* The process dies, of itself or of a query of the job that fails: nobody
\* handles what its promise is rejected with.
Crash ==
    /\ up
    /\ up' = FALSE
    /\ registry' = {}
    /\ inflight' = EmptyTable
    /\ cron' = EmptyTable
    /\ exposed' = (exposed \/ \E c \in DOMAIN inflight : Replacing(c))
    /\ UNCHANGED <<disk, avatar, covers, used>>

-----------------------------------------------------------------------------
(* AppService.removeFileNotUsed *)

CronAt(n, place) == n \in DOMAIN cron /\ cron[n].at = place

\* Midnight.  Nothing asks whether the job of another night still waits.
CronAvatars(n) ==
    /\ Job \in registry
    /\ n \notin DOMAIN cron
    /\ cron' = Put(cron, n, [at |-> "covers", paths |-> AvatarPaths])
    /\ UNCHANGED <<disk, avatar, covers, inflight, process, used, exposed>>

\* Mutant: the result of the second concat is thrown away.
CronCoversForgotten(n) ==
    /\ CronAt(n, "covers")
    /\ cron' = [cron EXCEPT ![n].at = "sweep"]
    /\ UNCHANGED <<disk, avatar, covers, inflight, process, used, exposed>>

CronCovers(n) ==
    /\ CronAt(n, "covers")
    /\ cron' = [cron EXCEPT ![n].at = "sweep", ![n].paths = @ \cup CoverPaths]
    /\ UNCHANGED <<disk, avatar, covers, inflight, process, used, exposed>>

\* Mutant: the filter is the wrong way round.
CronSweepReversed(n) ==
    /\ CronAt(n, "sweep")
    /\ disk' = disk \ cron[n].paths
    /\ exposed' = (exposed \/ (disk \ cron[n].paths) \cap (Referenced \cup InHand) # {})
    /\ cron' = Drop(cron, n)
    /\ UNCHANGED <<avatar, covers, inflight, process, used>>

\* Everything in the directory that no path names goes, in one go.
CronSweep(n) ==
    /\ CronAt(n, "sweep")
    /\ disk' = disk \cap cron[n].paths
    /\ exposed' = (exposed \/ (disk \ cron[n].paths) \cap (Referenced \cup InHand) # {})
    /\ cron' = Drop(cron, n)
    /\ UNCHANGED <<avatar, covers, inflight, process, used>>

Handles(c) ==
    \/ \E s \in Sessions, body \in UpdateInfoDto : UpdateInfo(c, body.avatar, s)
    \/ \E s \in Sessions, f \in File : SessionInsert(c, s, f) \/ SessionChange(c, s, f)
    \/ UpdateInfoLoad(c) \/ UpdateInfoReplace(c)
    \/ UpdateInfoSaveRead(c) \/ UpdateInfoSaveWrite(c)
    \/ SessionInsertSave(c) \/ SessionChangeLoad(c) \/ SessionChangeSave(c)
    \/ Fail(c)

Watch ==
    kept' = [n \in DOMAIN cron' |->
                IF n \in DOMAIN cron THEN kept[n] \cap Referenced' ELSE Referenced']

Next ==
    /\ \/ Boot \/ Crash
       \/ \E c \in Calls : Handles(c)
       \/ \E n \in Nights : CronAvatars(n) \/ CronCovers(n) \/ CronSweep(n)
    /\ Watch

\* A process that has died is started again.  It is up on some midnights, and on
\* some of these nights the job gets on: the process does not die, and the
\* database does not fail, at the same point every night.
Fairness ==
    /\ WF_vars(Boot /\ Watch)
    /\ SF_vars((\E n \in Nights : CronAvatars(n)) /\ Watch)
    /\ SF_vars((\E n \in Nights : CronCovers(n)) /\ Watch)
    /\ SF_vars((\E n \in Nights : CronSweep(n)) /\ Watch)

Spec == Init /\ [][Next]_vars /\ Fairness

-----------------------------------------------------------------------------
(* Properties *)

\* Rows, calls and the job hold values of their types, and every file of the
\* model has been uploaded once.
TypeOK ==
    /\ disk \subseteq used
    /\ avatar \in Ref
    /\ IsTable(covers, Sessions, File)
    /\ IsTable(inflight, Calls, Call)
    /\ up \in BOOLEAN
    /\ registry \subseteq {Job}
    /\ IsTable(cron, Nights, CronJob)
    /\ used \subseteq Files
    /\ IsTable(kept, Nights, SUBSET used) /\ DOMAIN kept = DOMAIN cron
    /\ exposed \in BOOLEAN

\* The job never removes a file that some row has referred to ever since the
\* job began, whatever uploads come in between its two queries and its sweep.
SweepSparesReferenced ==
    [][\A n \in Nights : CronSweep(n) => kept[n] \cap disk \subseteq disk']_vars

\* The avatar of a user is there, except while the call that replaces it is
\* about to save the new one.  The ways to lose it are those of exposed: a
\* failure between unlink and save, a sweep while the upload is under way, or
\* an overlapping save of a stale copy.
AvatarIsThere ==
    (~exposed /\ avatar # NoRef) =>
        \/ avatar.file \in disk
        \/ \E c \in DOMAIN inflight : Replacing(c)

\* A file that no row and no call has any use for does not stay for ever: what
\* refused bodies, failed calls and dead processes leave behind is swept, by a
\* process that has set the timer again (onModuleInit, removeFileNotUsed).
Orphan(f) == f \in disk /\ f \notin Referenced \cup InHand
OrphansAreSwept == SCHEDULE_ENABLE => \A f \in Files : []<>~Orphan(f)
=============================================================================
