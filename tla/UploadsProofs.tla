---------------------------- MODULE UploadsProofs ----------------------------
(***************************************************************************)
(* Theorems about Uploads for any files, sessions, calls and nights: the   *)
(* sweep of the night spares what is referred to, and an avatar is lost in *)
(* the ways of exposed only.                                               *)
(***************************************************************************)
EXTENDS Uploads, Lemmas

-----------------------------------------------------------------------------
(* The inductive invariant *)

\* Files that the column of the user, or a copy of it, refers to.
AvatarRefs ==
    {avatar.file} \cup {inflight[c].copy.file : c \in DOMAIN inflight}
                  \cup {inflight[c].seen.file : c \in DOMAIN inflight}

\* Every upload has a file of its own: what a call has in hand no row refers to
\* and no other call holds, and no file is both an avatar and a cover.
HandInv ==
    \A c \in DOMAIN inflight : inflight[c].file # NoFile =>
        /\ inflight[c].file \in used
        /\ inflight[c].file \notin AvatarRefs \cup CoverPaths
        /\ \A d \in DOMAIN inflight : d # c => inflight[d].file # inflight[c].file

RefsInv ==
    /\ AvatarRefs \subseteq used \cup {NoFile}
    /\ CoverPaths \subseteq used
    /\ AvatarRefs \cap CoverPaths = {}

\* Unless something has gone wrong behind its back, what a call has in hand is
\* on the disk and the avatar is a path.
IntactInv == ~exposed => InHand \subseteq disk /\ ~avatar.url

\* What has been referred to since the job began is a cover, which its second
\* query still finds, or among the paths it has read.
SweepInv ==
    \A n \in DOMAIN cron :
        /\ cron[n].at = "covers" => kept[n] \subseteq cron[n].paths \cup CoverPaths
        /\ cron[n].at = "sweep" => kept[n] \subseteq cron[n].paths

\* TypeOK but for kept, which Watch writes.
TypesInv ==
    /\ disk \subseteq used
    /\ avatar \in Ref
    /\ IsTable(covers, Sessions, File)
    /\ IsTable(inflight, Calls, Call)
    /\ up \in BOOLEAN
    /\ registry \subseteq {Job}
    /\ IsTable(cron, Nights, CronJob)
    /\ used \subseteq Files
    /\ exposed \in BOOLEAN

FilesInv == TypesInv /\ HandInv /\ RefsInv /\ IntactInv /\ AvatarIsThere

IInv == TypeOK /\ FilesInv /\ SweepInv

-----------------------------------------------------------------------------
(* Calls *)

LEMMA AtCall ==
    ASSUME TypesInv, NEW c, NEW place, At(c, place)
    PROVE  /\ c \in DOMAIN inflight /\ c \in Calls /\ inflight[c] \in Call
           /\ inflight[c].at = place
BY DEF TypesInv, At, IsTable

LEMMA AwaitFacts ==
    ASSUME TypesInv, NEW c \in Calls, NEW k \in Call, Await(c, k)
    PROVE  /\ IsTable(inflight', Calls, Call)
           /\ DOMAIN inflight' = DOMAIN inflight \cup {c}
           /\ inflight'[c] = k
           /\ \A d \in DOMAIN inflight : d # c => inflight'[d] = inflight[d]
<1>1. IsTable(inflight, Calls, Call)
  BY DEF TypesInv
<1>2. QED
  BY <1>1 DEF Await, IsTable, Put

LEMMA AnswerFacts ==
    ASSUME TypesInv, NEW c, Answer(c)
    PROVE  /\ IsTable(inflight', Calls, Call)
           /\ DOMAIN inflight' = DOMAIN inflight \ {c}
           /\ \A d \in DOMAIN inflight' : inflight'[d] = inflight[d]
<1>1. IsTable(inflight, Calls, Call)
  BY DEF TypesInv
<1>2. QED
  BY <1>1 DEF Answer, IsTable, Drop

\* A step that brings no new file and lets no file go: columns and copies refer
\* to what they did, and calls hold what they held.
SameFiles ==
    /\ AvatarRefs' \subseteq AvatarRefs \cup {NoFile}
    /\ CoverPaths' = CoverPaths
    /\ used' = used
    /\ \A d \in DOMAIN inflight' :
            d \in DOMAIN inflight /\ inflight'[d].file = inflight[d].file

LEMMA SameFilesFrame ==
    ASSUME TypesInv, HandInv, RefsInv, SameFiles
    PROVE  HandInv' /\ RefsInv'
<1>1. NoFile \notin used /\ NoFile \notin CoverPaths
  BY NoFileAssumption DEF TypesInv, CoverPaths
<1>2. RefsInv'
  BY <1>1 DEF RefsInv, SameFiles
<1>3. HandInv'
  BY <1>1 DEF HandInv, SameFiles
<1>4. QED
  BY <1>2, <1>3

LEMMA SameHand ==
    ASSUME SameFiles
    PROVE  InHand' \subseteq InHand
BY DEF SameFiles, InHand

\* What a step must keep of the files for the night's job: no file that some
\* cover refers to turns into an avatar.
NightInv == UNCHANGED cron /\ used \subseteq used' /\ AvatarPaths' \cap CoverPaths = {}

LEMMA AvatarIsRef ==
    ASSUME RefsInv
    PROVE  AvatarPaths \subseteq AvatarRefs /\ AvatarPaths \cap CoverPaths = {}
           /\ Referenced \subseteq AvatarRefs \cup CoverPaths
           /\ NoFile \notin Referenced
BY DEF RefsInv, AvatarPaths, AvatarRefs, Referenced, CoverPaths

\* A call goes on with k: it keeps its file and copies at most the avatar.
LEMMA GoOn ==
    ASSUME FilesInv, NEW c, c \in DOMAIN inflight, NEW k \in Call, Await(c, k),
           k.file = inflight[c].file,
           {k.copy.file, k.seen.file} \subseteq AvatarRefs \cup {NoFile},
           UNCHANGED <<avatar, covers, process, cron, used, exposed>>,
           disk' = disk \/ disk' = disk \ {inflight[c].copy.file},
           Replacing(c) => k.at \in {"saveRead", "saveWrite"},
           disk' # disk => k.at \in {"saveRead", "saveWrite"} /\ k.file # NoFile
    PROVE  FilesInv' /\ NightInv
<1>1. c \in Calls /\ TypesInv /\ HandInv /\ RefsInv
  BY DEF FilesInv, TypesInv, IsTable
<1>2. /\ IsTable(inflight', Calls, Call)
      /\ DOMAIN inflight' = DOMAIN inflight
      /\ inflight'[c] = k
      /\ \A d \in DOMAIN inflight : d # c => inflight'[d] = inflight[d]
  BY <1>1, AwaitFacts
<1>3. TypesInv'
  BY <1>2 DEF FilesInv, TypesInv, process
<1>4. CoverPaths' = CoverPaths /\ AvatarPaths' = AvatarPaths
  BY DEF CoverPaths, AvatarPaths
<1>5. AvatarRefs' \subseteq AvatarRefs \cup {NoFile}
  <2>1. ASSUME NEW d \in DOMAIN inflight'
        PROVE  /\ inflight'[d].copy.file \in AvatarRefs \cup {NoFile}
               /\ inflight'[d].seen.file \in AvatarRefs \cup {NoFile}
    BY <1>2, <2>1 DEF AvatarRefs
  <2>2. QED
    BY <2>1 DEF AvatarRefs
<1>6. SameFiles
  BY <1>2, <1>4, <1>5 DEF SameFiles
<1>7. HandInv' /\ RefsInv'
  BY <1>1, <1>6, SameFilesFrame
<1>8. IntactInv'
  <2>1. InHand' \subseteq InHand
    BY <1>6, SameHand
  <2>2. inflight[c].copy.file \notin InHand
    BY <1>1 DEF HandInv, InHand, AvatarRefs
  <2>3. QED
    BY <2>1, <2>2 DEF FilesInv, IntactInv
<1>9. AvatarIsThere'
  <2> SUFFICES ASSUME ~exposed, avatar # NoRef,
                      ~ \E d \in DOMAIN inflight' : Replacing(d)'
               PROVE  avatar.file \in disk'
    BY DEF AvatarIsThere
  <2>1. ASSUME NEW d \in DOMAIN inflight, Replacing(d) PROVE Replacing(d)'
    BY <1>2, <2>1 DEF Replacing, At
  <2>2. avatar.file \in disk
    BY <1>2, <2>1 DEF FilesInv, AvatarIsThere
  <2>3. disk' = disk
    BY <1>2 DEF Replacing, At
  <2>4. QED
    BY <2>2, <2>3
<1>10. QED
  BY <1>1, <1>3, <1>4, <1>7, <1>8, <1>9, AvatarIsRef DEF FilesInv, NightInv

\* A call ends without a change to the columns: it was not replacing the
\* avatar, or the loss is exposed.
LEMMA Ends ==
    ASSUME FilesInv, NEW c, Answer(c),
           UNCHANGED <<disk, avatar, covers, process, cron, used>>,
           exposed' \in BOOLEAN, exposed \/ Replacing(c) => exposed'
    PROVE  FilesInv' /\ NightInv
<1>1. TypesInv /\ HandInv /\ RefsInv
  BY DEF FilesInv
<1>2. /\ IsTable(inflight', Calls, Call)
      /\ DOMAIN inflight' = DOMAIN inflight \ {c}
      /\ \A d \in DOMAIN inflight' : inflight'[d] = inflight[d]
  BY <1>1, AnswerFacts
<1>3. TypesInv'
  BY <1>2 DEF FilesInv, TypesInv, process
<1>4. CoverPaths' = CoverPaths /\ AvatarPaths' = AvatarPaths
  BY DEF CoverPaths, AvatarPaths
<1>5. SameFiles
  BY <1>2, <1>4 DEF SameFiles, AvatarRefs
<1>6. HandInv' /\ RefsInv' /\ InHand' \subseteq InHand
  BY <1>1, <1>5, SameFilesFrame, SameHand
<1>7. IntactInv'
  BY <1>6 DEF FilesInv, IntactInv
<1>8. AvatarIsThere'
  <2> SUFFICES ASSUME ~exposed', avatar # NoRef,
                      ~ \E d \in DOMAIN inflight' : Replacing(d)'
               PROVE  avatar.file \in disk
    BY DEF AvatarIsThere
  <2>1. ASSUME NEW d \in DOMAIN inflight, Replacing(d), d # c PROVE Replacing(d)'
    BY <1>2, <2>1 DEF Replacing, At
  <2>2. QED
    BY <1>2, <2>1 DEF FilesInv, AvatarIsThere
<1>9. QED
  BY <1>1, <1>3, <1>4, <1>6, <1>7, <1>8, AvatarIsRef DEF FilesInv, NightInv

\* A call begins: multer has stored the file of its body, which nobody else has.
LEMMA Begins ==
    ASSUME FilesInv, NEW c \in Calls, Idle(c), NEW f \in File, Upload(f),
           NEW k \in Call, Await(c, k), k.file = f, k.copy = NoRef, k.seen = NoRef,
           UNCHANGED <<avatar, covers, process, cron, exposed>>
    PROVE  FilesInv' /\ NightInv
<1>1. TypesInv /\ HandInv /\ RefsInv /\ c \notin DOMAIN inflight
  BY DEF FilesInv, Idle
<1>2. /\ IsTable(inflight', Calls, Call)
      /\ DOMAIN inflight' = DOMAIN inflight \cup {c}
      /\ inflight'[c] = k
      /\ \A d \in DOMAIN inflight : d # c => inflight'[d] = inflight[d]
  BY <1>1, AwaitFacts
<1>3. /\ f \notin used
      /\ disk' = disk \cup ({f} \ {NoFile})
      /\ used' = used \cup ({f} \ {NoFile})
  BY DEF Upload
<1>4. TypesInv'
  BY <1>2, <1>3 DEF FilesInv, TypesInv, process, File
<1>5. CoverPaths' = CoverPaths /\ AvatarPaths' = AvatarPaths
  BY DEF CoverPaths, AvatarPaths
<1>6. AvatarRefs' \subseteq AvatarRefs \cup {NoFile}
  <2>1. ASSUME NEW d \in DOMAIN inflight'
        PROVE  /\ inflight'[d].copy.file \in AvatarRefs \cup {NoFile}
               /\ inflight'[d].seen.file \in AvatarRefs \cup {NoFile}
    BY <1>2, <2>1 DEF AvatarRefs, NoRef
  <2>2. QED
    BY <2>1 DEF AvatarRefs
<1>7. NoFile \notin CoverPaths
  BY DEF CoverPaths
<1>8. RefsInv'
  BY <1>1, <1>3, <1>5, <1>6, <1>7 DEF RefsInv
<1>9. HandInv'
  <2> SUFFICES ASSUME NEW d \in DOMAIN inflight', inflight'[d].file # NoFile
               PROVE  /\ inflight'[d].file \in used'
                      /\ inflight'[d].file \notin AvatarRefs' \cup CoverPaths'
                      /\ \A e \in DOMAIN inflight' :
                            e # d => inflight'[e].file # inflight'[d].file
    BY DEF HandInv
  <2>1. CASE d = c
    <3>1. inflight'[d].file = f /\ f # NoFile
      BY <1>2, <2>1
    <3>2. f \notin AvatarRefs \cup CoverPaths
      BY <1>1, <1>3, <3>1 DEF RefsInv
    <3>3. \A e \in DOMAIN inflight : inflight[e].file # f
      BY <1>1, <1>3, <3>1 DEF HandInv
    <3>4. QED
      BY <1>2, <1>3, <1>5, <1>6, <2>1, <3>1, <3>2, <3>3
  <2>2. CASE d # c
    <3>1. d \in DOMAIN inflight /\ inflight'[d] = inflight[d]
      BY <1>2, <2>2
    <3>2. /\ inflight[d].file \in used
          /\ inflight[d].file \notin AvatarRefs \cup CoverPaths
          /\ \A e \in DOMAIN inflight : e # d => inflight[e].file # inflight[d].file
      BY <1>1, <3>1 DEF HandInv
    <3>3. QED
      BY <1>1, <1>2, <1>3, <1>5, <1>6, <3>1, <3>2
  <2>3. QED
    BY <2>1, <2>2
<1>10. IntactInv'
  <2>1. InHand' \subseteq InHand \cup ({f} \ {NoFile})
    <3>1. ASSUME NEW d \in DOMAIN inflight', inflight'[d].file # NoFile
          PROVE  inflight'[d].file \in InHand \cup ({f} \ {NoFile})
      BY <1>2, <3>1 DEF InHand
    <3>2. QED
      BY <3>1 DEF InHand
  <2>2. QED
    BY <1>3, <2>1 DEF FilesInv, IntactInv
<1>11. AvatarIsThere'
  <2>1. ASSUME NEW d \in DOMAIN inflight, Replacing(d)
        PROVE  d \in DOMAIN inflight' /\ Replacing(d)'
    BY <1>1, <1>2, <2>1 DEF Replacing, At
  <2>2. QED
    BY <1>3, <2>1 DEF FilesInv, AvatarIsThere
<1>12. QED
  BY <1>1, <1>3, <1>4, <1>5, <1>8, <1>9, <1>10, <1>11, AvatarIsRef DEF FilesInv, NightInv

\* A session is saved with the cover its call has in hand.
LEMMA SaveCover ==
    ASSUME FilesInv, NEW c, At(c, "insertSession") \/ At(c, "saveSession"),
           covers' = Put(covers, inflight[c].session, inflight[c].file), Answer(c),
           UNCHANGED <<disk, avatar, process, cron, used, exposed>>
    PROVE  FilesInv' /\ NightInv
<1> DEFINE f == inflight[c].file
           s == inflight[c].session
<1>1. /\ TypesInv /\ HandInv /\ RefsInv
      /\ c \in DOMAIN inflight /\ f \in File /\ s \in Sessions
      /\ inflight[c].at \in {"insertSession", "saveSession"}
  BY AtCall DEF FilesInv, Call
<1>2. /\ IsTable(inflight', Calls, Call)
      /\ DOMAIN inflight' = DOMAIN inflight \ {c}
      /\ \A d \in DOMAIN inflight' : inflight'[d] = inflight[d]
  BY <1>1, AnswerFacts
<1>3. IsTable(covers, Sessions, File) /\ covers' = Put(covers, s, f)
  BY <1>1 DEF TypesInv
<1>4. /\ f # NoFile =>
            /\ f \in used /\ f \notin AvatarRefs \cup CoverPaths
            /\ \A d \in DOMAIN inflight : d # c => inflight[d].file # f
  BY <1>1 DEF HandInv
<1> HIDE DEF f, s
<1>5. /\ IsTable(covers', Sessions, File)
      /\ DOMAIN covers' = DOMAIN covers \cup {s}
      /\ covers'[s] = f
      /\ \A x \in DOMAIN covers : x # s => covers'[x] = covers[x]
  BY <1>1, <1>3 DEF IsTable, Put
<1>6. CoverPaths' \subseteq (CoverPaths \cup {f}) \ {NoFile}
  <2>1. ASSUME NEW x \in DOMAIN covers', covers'[x] # NoFile
        PROVE  covers'[x] \in (CoverPaths \cup {f}) \ {NoFile}
    BY <1>5, <2>1 DEF CoverPaths
  <2>2. QED
    BY <2>1 DEF CoverPaths
<1>7. TypesInv'
  BY <1>2, <1>5 DEF FilesInv, TypesInv, process
<1>8. AvatarRefs' \subseteq AvatarRefs /\ AvatarPaths' = AvatarPaths
  BY <1>2 DEF AvatarRefs, AvatarPaths
<1>9. RefsInv'
  BY <1>1, <1>4, <1>6, <1>8 DEF RefsInv
<1>10. HandInv'
  BY <1>1, <1>2, <1>4, <1>6, <1>8 DEF HandInv
<1>11. IntactInv'
  BY <1>2 DEF FilesInv, IntactInv, InHand
<1>12. AvatarIsThere'
  <2>1. ASSUME NEW d \in DOMAIN inflight, Replacing(d)
        PROVE  d \in DOMAIN inflight' /\ Replacing(d)'
    BY <1>1, <1>2, <2>1 DEF Replacing, At
  <2>2. QED
    BY <2>1 DEF FilesInv, AvatarIsThere
<1>13. QED
  BY <1>1, <1>7, <1>8, <1>9, <1>10, <1>11, <1>12, AvatarIsRef DEF FilesInv, NightInv

\* The avatar is saved: the new path, or what the save finds and its copy say.
LEMMA SaveAvatar ==
    ASSUME FilesInv, NEW c, UpdateInfoSaveWrite(c)
    PROVE  FilesInv' /\ NightInv
<1> DEFINE f == inflight[c].file
           copy == inflight[c].copy
           seen == inflight[c].seen
           carries == f = NoFile /\ copy # seen
           want == IF carries /\ copy # NoRef THEN [copy EXCEPT !.url = TRUE] ELSE copy
<1>1. /\ TypesInv /\ HandInv /\ RefsInv
      /\ c \in DOMAIN inflight /\ f \in File /\ copy \in Ref /\ seen \in Ref
      /\ inflight[c].at = "saveWrite"
  BY AtCall DEF FilesInv, UpdateInfoSaveWrite, Call
<1>2. /\ Answer(c) /\ exposed' = (exposed \/ carries)
      /\ avatar' = IF f # NoFile THEN [file |-> f, url |-> FALSE]
                   ELSE Column(avatar, seen, want)
      /\ UNCHANGED <<disk, covers, process, cron, used>>
  BY DEF UpdateInfoSaveWrite
<1>3. /\ IsTable(inflight', Calls, Call)
      /\ DOMAIN inflight' = DOMAIN inflight \ {c}
      /\ \A d \in DOMAIN inflight' : inflight'[d] = inflight[d]
  BY <1>1, <1>2, AnswerFacts
<1>4. want \in Ref /\ want.file = copy.file
  BY <1>1 DEF Ref
<1>5. copy.file \in AvatarRefs /\ avatar.file \in AvatarRefs
  BY <1>1 DEF AvatarRefs
<1>6. f # NoFile =>
        /\ f \in used /\ f \notin AvatarRefs \cup CoverPaths
        /\ \A d \in DOMAIN inflight : d # c => inflight[d].file # f
        /\ f \in InHand
  BY <1>1 DEF HandInv, InHand
<1>7. f = NoFile /\ ~carries => want = seen
  OBVIOUS
<1> HIDE DEF want
<1>8. /\ avatar' \in Ref
      /\ f # NoFile => avatar'.file = f /\ ~avatar'.url
      /\ f = NoFile => avatar'.file \in AvatarRefs
      /\ f = NoFile /\ ~carries => avatar' = avatar
  <2>1. CASE f # NoFile
    BY <1>1, <1>2, <2>1 DEF Ref
  <2>2. CASE f = NoFile
    <3>1. avatar' \in {avatar, want} /\ (~carries => avatar' = avatar)
      BY <1>2, <1>7, <2>2 DEF Column
    <3>2. QED
      BY <1>1, <1>4, <1>5, <2>2, <3>1 DEF TypesInv
  <2>3. QED
    BY <2>1, <2>2
<1>9. carries \in BOOLEAN
  OBVIOUS
<1> HIDE DEF f, copy, seen, carries
<1>10. TypesInv'
  BY <1>2, <1>3, <1>8, <1>9 DEF FilesInv, TypesInv, process
<1>11. CoverPaths' = CoverPaths
  BY <1>2 DEF CoverPaths
<1>12. AvatarRefs' \subseteq AvatarRefs \cup {f}
  <2>1. avatar'.file \in AvatarRefs \cup {f}
    BY <1>8
  <2>2. QED
    BY <1>3, <2>1 DEF AvatarRefs
<1>13. f = NoFile => AvatarRefs' \subseteq AvatarRefs
  <2>1. f = NoFile => avatar'.file \in AvatarRefs
    BY <1>8
  <2>2. QED
    BY <1>3, <2>1 DEF AvatarRefs
<1>14. RefsInv'
  BY <1>1, <1>2, <1>6, <1>11, <1>12, <1>13 DEF RefsInv
<1>15. HandInv'
  BY <1>1, <1>2, <1>3, <1>6, <1>11, <1>12, <1>13 DEF HandInv
<1>16. IntactInv'
  <2>1. InHand' \subseteq InHand
    BY <1>3 DEF InHand
  <2>2. ~exposed' => ~avatar'.url
    BY <1>2, <1>8, <1>9 DEF FilesInv, IntactInv
  <2>3. ~exposed' => ~exposed
    BY <1>2
  <2>4. QED
    BY <1>2, <2>1, <2>2, <2>3 DEF FilesInv, IntactInv
<1>17. AvatarIsThere'
  <2> SUFFICES ASSUME ~exposed', avatar' # NoRef,
                      ~ \E d \in DOMAIN inflight' : Replacing(d)'
               PROVE  avatar'.file \in disk
    BY <1>2 DEF AvatarIsThere
  <2>1. ~exposed /\ ~carries
    BY <1>2
  <2>2. CASE f # NoFile
    BY <1>6, <1>8, <2>1, <2>2 DEF FilesInv, IntactInv
  <2>3. CASE f = NoFile
    <3>1. avatar' = avatar
      BY <1>8, <2>1, <2>3
    <3>2. ASSUME NEW d \in DOMAIN inflight, Replacing(d) PROVE Replacing(d)'
      <4>1. d # c
        BY <2>3, <3>2 DEF Replacing, f
      <4>2. QED
        BY <1>3, <3>2, <4>1 DEF Replacing, At
    <3>3. QED
      BY <1>3, <2>1, <3>1, <3>2 DEF FilesInv, AvatarIsThere, Replacing, At
  <2>4. QED
    BY <2>2, <2>3
<1>18. NightInv
  <2>1. AvatarPaths' \subseteq AvatarRefs'
    BY DEF AvatarPaths, AvatarRefs
  <2>2. QED
    BY <1>2, <1>11, <1>14, <2>1 DEF NightInv, RefsInv
<1>19. QED
  BY <1>10, <1>14, <1>15, <1>16, <1>17, <1>18 DEF FilesInv

-----------------------------------------------------------------------------
(* The handlers *)

LEMMA HandlesStep ==
    ASSUME FilesInv, NEW c \in Calls, Handles(c)
    PROVE  FilesInv' /\ NightInv
<1>1. TypesInv /\ exposed \in BOOLEAN
  BY DEF FilesInv, TypesInv
<1>2. NoRef \in Ref /\ NoRef.file = NoFile
  BY DEF NoRef, Ref, File
<1>3. ASSUME NEW s \in Sessions, NEW body \in UpdateInfoDto, UpdateInfo(c, body.avatar, s)
      PROVE  FilesInv' /\ NightInv
  <2> DEFINE f == body.avatar
             k == [at |-> "getEntity", file |-> f, copy |-> NoRef, seen |-> NoRef,
                   session |-> s]
  <2>1. f \in File /\ k \in Call /\ k.file = f /\ k.copy = NoRef /\ k.seen = NoRef
    BY <1>2 DEF UpdateInfoDto, Call
  <2>2. /\ Idle(c) /\ Upload(f) /\ Await(c, k)
        /\ UNCHANGED <<avatar, covers, process, cron, exposed>>
    BY <1>3 DEF UpdateInfo
  <2> HIDE DEF f, k
  <2>3. QED
    BY <2>1, <2>2, Begins
<1>4. ASSUME NEW s \in Sessions, NEW f \in File, SessionInsert(c, s, f)
      PROVE  FilesInv' /\ NightInv
  <2> DEFINE k == [at |-> "insertSession", file |-> f, copy |-> NoRef, seen |-> NoRef,
                   session |-> s]
  <2>1. k \in Call /\ k.file = f /\ k.copy = NoRef /\ k.seen = NoRef
    BY <1>2 DEF Call
  <2>2. /\ Idle(c) /\ Upload(f) /\ Await(c, k)
        /\ UNCHANGED <<avatar, covers, process, cron, exposed>>
    BY <1>4 DEF SessionInsert
  <2> HIDE DEF k
  <2>3. QED
    BY <2>1, <2>2, Begins
<1>5. ASSUME NEW s \in Sessions, NEW f \in File, SessionChange(c, s, f)
      PROVE  FilesInv' /\ NightInv
  <2> DEFINE k == [at |-> "loadSession", file |-> f, copy |-> NoRef, seen |-> NoRef,
                   session |-> s]
  <2>1. k \in Call /\ k.file = f /\ k.copy = NoRef /\ k.seen = NoRef
    BY <1>2 DEF Call
  <2>2. /\ Idle(c) /\ Upload(f) /\ Await(c, k)
        /\ UNCHANGED <<avatar, covers, process, cron, exposed>>
    BY <1>5 DEF SessionChange
  <2> HIDE DEF k
  <2>3. QED
    BY <2>1, <2>2, Begins
<1>6. CASE UpdateInfoLoad(c)
  <2> DEFINE k == [inflight[c] EXCEPT !.at = "phone", !.copy = avatar]
  <2>1. c \in DOMAIN inflight /\ inflight[c] \in Call /\ inflight[c].at = "getEntity"
    BY <1>1, <1>6, AtCall DEF UpdateInfoLoad
  <2>2. /\ k \in Call /\ k.file = inflight[c].file /\ k.copy = avatar
        /\ k.seen = inflight[c].seen
    BY <1>1, <2>1 DEF Call, TypesInv
  <2>3. /\ Await(c, k) /\ disk' = disk
        /\ UNCHANGED <<avatar, covers, process, cron, used, exposed>>
    BY <1>6 DEF UpdateInfoLoad
  <2> HIDE DEF k
  <2>4. {k.copy.file, k.seen.file} \subseteq AvatarRefs \cup {NoFile}
    BY <2>1, <2>2 DEF AvatarRefs
  <2>5. ~Replacing(c)
    BY <2>1 DEF Replacing, At
  <2>6. QED
    BY <2>1, <2>2, <2>3, <2>4, <2>5, GoOn
<1>7. CASE UpdateInfoReplace(c)
  <2> DEFINE old == inflight[c].copy
             f == inflight[c].file
             k == [inflight[c] EXCEPT !.at = "saveRead",
                        !.copy = IF f # NoFile THEN NoRef ELSE @]
  <2>1. c \in DOMAIN inflight /\ inflight[c] \in Call /\ inflight[c].at = "phone"
    BY <1>1, <1>7, AtCall DEF UpdateInfoReplace
  <2>2. /\ k \in Call /\ k.file = f /\ k.at = "saveRead"
        /\ k.copy \in {old, NoRef} /\ k.seen = inflight[c].seen
    BY <1>2, <2>1 DEF Call
  <2>3. /\ \/ Answer(c) /\ disk' = disk
           \/ Await(c, k) /\ disk' = disk
           \/ Await(c, k) /\ disk' = disk \ {old.file} /\ f # NoFile
        /\ UNCHANGED <<avatar, covers, process, cron, used, exposed>>
    BY <1>7 DEF UpdateInfoReplace
  <2> HIDE DEF k
  <2>4. {k.copy.file, k.seen.file} \subseteq AvatarRefs \cup {NoFile}
    BY <1>2, <2>1, <2>2 DEF AvatarRefs
  <2>5. ~Replacing(c)
    BY <2>1 DEF Replacing, At
  <2>6. CASE Answer(c) /\ disk' = disk
    BY <1>1, <2>3, <2>5, <2>6, Ends
  <2>7. CASE Await(c, k) /\ disk' = disk
    BY <2>1, <2>2, <2>3, <2>4, <2>5, <2>7, GoOn
  <2>8. CASE Await(c, k) /\ disk' = disk \ {old.file} /\ f # NoFile
    BY <2>1, <2>2, <2>3, <2>4, <2>5, <2>8, GoOn
  <2>9. QED
    BY <2>3, <2>6, <2>7, <2>8
<1>8. CASE UpdateInfoSaveRead(c)
  <2> DEFINE k == [inflight[c] EXCEPT !.at = "saveWrite", !.seen = avatar]
  <2>1. c \in DOMAIN inflight /\ inflight[c] \in Call
    BY <1>1, <1>8, AtCall DEF UpdateInfoSaveRead
  <2>2. /\ k \in Call /\ k.file = inflight[c].file /\ k.copy = inflight[c].copy
        /\ k.seen = avatar /\ k.at = "saveWrite"
    BY <1>1, <2>1 DEF Call, TypesInv
  <2>3. /\ Await(c, k) /\ disk' = disk
        /\ UNCHANGED <<avatar, covers, process, cron, used, exposed>>
    BY <1>8 DEF UpdateInfoSaveRead
  <2> HIDE DEF k
  <2>4. {k.copy.file, k.seen.file} \subseteq AvatarRefs \cup {NoFile}
    BY <2>1, <2>2 DEF AvatarRefs
  <2>5. QED
    BY <2>1, <2>2, <2>3, <2>4, GoOn
<1>9. CASE SessionChangeLoad(c)
  <2> DEFINE k == [inflight[c] EXCEPT !.at = "saveSession"]
  <2>1. c \in DOMAIN inflight /\ inflight[c] \in Call /\ inflight[c].at = "loadSession"
    BY <1>1, <1>9, AtCall DEF SessionChangeLoad
  <2>2. /\ k \in Call /\ k.file = inflight[c].file /\ k.copy = inflight[c].copy
        /\ k.seen = inflight[c].seen
    BY <2>1 DEF Call
  <2>3. /\ Await(c, k) \/ Answer(c)
        /\ UNCHANGED <<disk, avatar, covers, process, cron, used, exposed>>
    BY <1>9 DEF SessionChangeLoad
  <2> HIDE DEF k
  <2>4. {k.copy.file, k.seen.file} \subseteq AvatarRefs \cup {NoFile}
    BY <2>1, <2>2 DEF AvatarRefs
  <2>5. ~Replacing(c)
    BY <2>1 DEF Replacing, At
  <2>6. QED
    BY <1>1, <2>1, <2>2, <2>3, <2>4, <2>5, GoOn, Ends
<1>10. CASE UpdateInfoSaveWrite(c)
  BY <1>10, SaveAvatar
<1>11. CASE SessionInsertSave(c) \/ SessionChangeSave(c)
  BY <1>11, SaveCover DEF SessionInsertSave, SessionChangeSave
<1>12. CASE Fail(c)
  <2>1. exposed' = (exposed \/ Replacing(c)) /\ Answer(c)
        /\ UNCHANGED <<disk, avatar, covers, process, cron, used>>
    BY <1>12 DEF Fail
  <2>2. exposed' \in BOOLEAN
    BY <2>1
  <2>3. QED
    BY <2>1, <2>2, Ends
<1>13. QED
  BY <1>3, <1>4, <1>5, <1>6, <1>7, <1>8, <1>9, <1>10, <1>11, <1>12 DEF Handles

-----------------------------------------------------------------------------
(* The process and the job of the night *)

\* A process that dies takes its calls along.
LEMMA CrashStep ==
    ASSUME FilesInv, Crash
    PROVE  FilesInv' /\ cron' = EmptyTable
<1>1. /\ inflight' = EmptyTable /\ cron' = EmptyTable /\ registry' = {} /\ up' = FALSE
      /\ exposed' = (exposed \/ \E c \in DOMAIN inflight : Replacing(c))
      /\ UNCHANGED <<disk, avatar, covers, used>>
  BY DEF Crash
<1>2. /\ DOMAIN inflight' = {} /\ IsTable(inflight', Calls, Call)
      /\ IsTable(cron', Nights, CronJob)
  BY <1>1 DEF EmptyTable, IsTable
<1>3. TypesInv'
  BY <1>1, <1>2 DEF FilesInv, TypesInv
<1>4. CoverPaths' = CoverPaths /\ AvatarRefs' \subseteq AvatarRefs
  BY <1>1, <1>2 DEF CoverPaths, AvatarRefs
<1>5. HandInv' /\ RefsInv'
  BY <1>1, <1>2, <1>4 DEF FilesInv, HandInv, RefsInv
<1>6. IntactInv'
  BY <1>1, <1>2 DEF FilesInv, IntactInv, InHand
<1>7. AvatarIsThere'
  BY <1>1, <1>2 DEF FilesInv, AvatarIsThere
<1>8. QED
  BY <1>1, <1>3, <1>5, <1>6, <1>7 DEF FilesInv

\* A step that leaves files, columns and calls alone.
LEMMA FilesFrame ==
    ASSUME FilesInv, UNCHANGED <<disk, avatar, covers, inflight, used, exposed>>,
           up' \in BOOLEAN, registry' \subseteq {Job}, IsTable(cron', Nights, CronJob)
    PROVE  FilesInv'
<1>1. TypesInv'
  BY DEF FilesInv, TypesInv
<1>2. HandInv' /\ RefsInv'
  BY DEF FilesInv, HandInv, RefsInv, AvatarRefs, CoverPaths
<1>3. IntactInv' /\ AvatarIsThere'
  BY DEF FilesInv, IntactInv, InHand, AvatarIsThere, Replacing, At
<1>4. QED
  BY <1>1, <1>2, <1>3 DEF FilesInv

\* The sweep removes files only, and exposes what somebody had a use for.
LEMMA SweepStep ==
    ASSUME FilesInv, NEW n \in Nights, CronSweep(n)
    PROVE  FilesInv'
<1>1. /\ disk' = disk \cap cron[n].paths
      /\ exposed' = (exposed \/ (disk \ cron[n].paths) \cap (Referenced \cup InHand) # {})
      /\ UNCHANGED <<avatar, covers, inflight, process, used>>
  BY DEF CronSweep
<1>2. IsTable(cron', Nights, CronJob)
  BY DropRow DEF CronSweep, FilesInv, TypesInv
<1>3. TypesInv'
  BY <1>1, <1>2 DEF FilesInv, TypesInv, process
<1>4. HandInv' /\ RefsInv'
  BY <1>1 DEF FilesInv, HandInv, RefsInv, AvatarRefs, CoverPaths
<1>5. IntactInv'
  BY <1>1 DEF FilesInv, IntactInv, InHand
<1>6. AvatarIsThere'
  <2> SUFFICES ASSUME ~exposed', avatar # NoRef,
                      ~ \E c \in DOMAIN inflight : Replacing(c)
               PROVE  avatar.file \in disk'
    BY <1>1 DEF AvatarIsThere, Replacing, At
  <2>1. avatar.file \in disk /\ ~avatar.url
    BY <1>1 DEF FilesInv, AvatarIsThere, IntactInv
  <2>2. avatar.file # NoFile
    BY <2>1, NoFileAssumption DEF FilesInv, TypesInv
  <2>3. avatar.file \in Referenced
    BY <2>1, <2>2 DEF Referenced, AvatarPaths
  <2>4. QED
    BY <1>1, <2>1, <2>3
<1>7. QED
  BY <1>3, <1>4, <1>5, <1>6 DEF FilesInv

-----------------------------------------------------------------------------
(* What the job of a night may rely on *)

\* Watch keeps files with a reference.
LEMMA WatchTypes ==
    ASSUME IInv, FilesInv', Watch, used \subseteq used'
    PROVE  TypeOK'
<1>1. TypesInv' /\ RefsInv'
  BY DEF FilesInv
<1>2. NoFile \notin used' /\ Referenced' \subseteq used'
  <2>1. NoFile \notin used' /\ NoFile \notin Referenced'
    BY <1>1, NoFileAssumption DEF TypesInv, Referenced, AvatarPaths, CoverPaths
  <2>2. Referenced' \subseteq AvatarRefs' \cup CoverPaths'
    BY DEF Referenced, AvatarPaths, AvatarRefs
  <2>3. QED
    BY <1>1, <2>1, <2>2 DEF RefsInv
<1>3. DOMAIN kept' = DOMAIN cron' /\ kept' = [n \in DOMAIN kept' |-> kept'[n]]
  BY DEF Watch
<1>4. ASSUME NEW n \in DOMAIN kept' PROVE kept'[n] \in SUBSET used'
  BY <1>2, <1>3, <1>4 DEF Watch
<1>5. DOMAIN kept' \subseteq Nights
  BY <1>1, <1>3 DEF TypesInv, IsTable
<1>6. IsTable(kept', Nights, SUBSET used')
  BY <1>3, <1>4, <1>5 DEF IsTable
<1>7. QED
  BY <1>1, <1>3, <1>6 DEF TypeOK, TypesInv

\* Between the two queries a file that keeps its reference keeps the column it
\* is in.
LEMMA NightFrame ==
    ASSUME IInv, NightInv, Watch
    PROVE  SweepInv'
<1> SUFFICES ASSUME NEW n \in DOMAIN cron, NEW f \in kept'[n]
             PROVE  /\ cron[n].at = "covers" => f \in cron[n].paths \cup CoverPaths'
                    /\ cron[n].at = "sweep" => f \in cron[n].paths
  BY DEF SweepInv, NightInv
<1>1. f \in kept[n] /\ f \in Referenced'
  BY DEF Watch, NightInv
<1>2. f \in AvatarPaths' \/ f \in CoverPaths'
  BY <1>1 DEF Referenced
<1>3. f \in CoverPaths => f \notin AvatarPaths'
  BY DEF NightInv
<1>4. QED
  BY <1>1, <1>2, <1>3 DEF IInv, SweepInv

LEMMA CronAvatarsStep ==
    ASSUME IInv, NEW n \in Nights, CronAvatars(n), Watch
    PROVE  IInv'
<1> DEFINE job == [at |-> "covers", paths |-> AvatarPaths]
<1>1. IsTable(cron, Nights, CronJob) /\ AvatarPaths \in SUBSET Files
  BY DEF IInv, FilesInv, TypesInv, AvatarPaths, Ref, File
<1>2. job \in CronJob /\ job.at = "covers" /\ job.paths = AvatarPaths
  BY <1>1 DEF CronJob
<1>3. cron' = Put(cron, n, job)
      /\ UNCHANGED <<disk, avatar, covers, inflight, process, used, exposed>>
  BY DEF CronAvatars
<1> HIDE DEF job
<1>4. /\ IsTable(cron', Nights, CronJob) /\ DOMAIN cron' = DOMAIN cron \cup {n}
      /\ cron'[n] = job
      /\ \A m \in DOMAIN cron : m # n => cron'[m] = cron[m]
  BY <1>1, <1>2, <1>3 DEF IsTable, Put
<1>5. FilesInv'
  BY <1>3, <1>4, FilesFrame DEF IInv, FilesInv, TypesInv, process
<1>6. TypeOK'
  BY <1>3, <1>5, WatchTypes
<1>7. Referenced' = Referenced /\ CoverPaths' = CoverPaths
  BY <1>3 DEF Referenced, AvatarPaths, CoverPaths
<1>8. SweepInv'
  <2> SUFFICES ASSUME NEW m \in DOMAIN cron'
               PROVE  /\ cron'[m].at = "covers" => kept'[m] \subseteq cron'[m].paths \cup CoverPaths
                      /\ cron'[m].at = "sweep" => kept'[m] \subseteq cron'[m].paths
    BY <1>7 DEF SweepInv
  <2>1. CASE m = n
    <3>1. kept'[m] = Referenced
      BY <1>7, <2>1 DEF Watch, CronAvatars
    <3>2. QED
      BY <1>2, <1>4, <2>1, <3>1 DEF Referenced
  <2>2. CASE m # n
    <3>1. m \in DOMAIN cron /\ kept'[m] \subseteq kept[m]
      BY <1>4, <2>2 DEF Watch
    <3>2. QED
      BY <1>4, <2>2, <3>1 DEF IInv, SweepInv
  <2>3. QED
    BY <2>1, <2>2
<1>9. QED
  BY <1>5, <1>6, <1>8 DEF IInv

LEMMA CronCoversStep ==
    ASSUME IInv, NEW n \in Nights, CronCovers(n), Watch
    PROVE  IInv'
<1> DEFINE job == [cron[n] EXCEPT !.at = "sweep", !.paths = @ \cup CoverPaths]
<1>1. n \in DOMAIN cron /\ cron[n].at = "covers" /\ cron[n] \in CronJob
      /\ IsTable(cron, Nights, CronJob)
  BY DEF CronCovers, CronAt, IInv, FilesInv, TypesInv, IsTable
<1>2. CoverPaths \in SUBSET Files
  BY DEF IInv, FilesInv, RefsInv, TypesInv
<1>3. job \in CronJob /\ job.at = "sweep" /\ job.paths = cron[n].paths \cup CoverPaths
  BY <1>1, <1>2 DEF CronJob
<1>4. /\ cron' = [cron EXCEPT ![n].at = "sweep", ![n].paths = @ \cup CoverPaths]
      /\ UNCHANGED <<disk, avatar, covers, inflight, process, used, exposed>>
  BY DEF CronCovers
<1>5. /\ DOMAIN cron' = DOMAIN cron /\ cron'[n] = job
      /\ \A m \in DOMAIN cron : m # n => cron'[m] = cron[m]
  BY <1>1, <1>4
<1> HIDE DEF job
<1>6. IsTable(cron', Nights, CronJob)
  BY <1>1, <1>3, <1>4, <1>5 DEF IsTable
<1>7. FilesInv'
  BY <1>4, <1>6, FilesFrame DEF IInv, FilesInv, TypesInv, process
<1>8. TypeOK'
  BY <1>4, <1>7, WatchTypes
<1>9. CoverPaths' = CoverPaths
  BY <1>4 DEF CoverPaths
<1>10. SweepInv'
  <2>1. \A m \in DOMAIN cron : kept'[m] \subseteq kept[m]
    BY <1>5 DEF Watch
  <2>2. QED
    BY <1>1, <1>3, <1>5, <1>9, <2>1 DEF IInv, SweepInv
<1>11. QED
  BY <1>7, <1>8, <1>10 DEF IInv

\* The job ends and forgets its night.
LEMMA CronSweepStep ==
    ASSUME IInv, NEW n \in Nights, CronSweep(n), Watch
    PROVE  IInv'
<1>1. FilesInv'
  BY SweepStep DEF IInv
<1>2. UNCHANGED <<covers, used>> /\ cron' = Drop(cron, n)
  BY DEF CronSweep
<1>3. TypeOK'
  BY <1>1, <1>2, WatchTypes
<1>4. /\ DOMAIN cron' = DOMAIN cron \ {n}
      /\ \A m \in DOMAIN cron' : cron'[m] = cron[m]
  BY <1>2 DEF Drop
<1>5. \A m \in DOMAIN cron' : kept'[m] \subseteq kept[m]
  BY <1>4 DEF Watch
<1>6. CoverPaths' = CoverPaths
  BY <1>2 DEF CoverPaths
<1>7. SweepInv'
  BY <1>4, <1>5, <1>6 DEF IInv, SweepInv
<1>8. QED
  BY <1>1, <1>3, <1>7 DEF IInv

-----------------------------------------------------------------------------
(* The theorems *)

LEMMA InvInit == Init => IInv
<1> SUFFICES ASSUME Init PROVE IInv
  OBVIOUS
<1>1. NoRef \in Ref /\ NoRef.file = NoFile /\ ~NoRef.url
  BY DEF NoRef, Ref, File
<1>2. TypeOK /\ TypesInv
  BY <1>1 DEF Init, TypeOK, TypesInv, IsTable, EmptyTable
<1>3. DOMAIN inflight = {} /\ CoverPaths = {} /\ AvatarRefs = {NoFile} /\ DOMAIN cron = {}
  BY <1>1 DEF Init, EmptyTable, CoverPaths, AvatarRefs
<1>4. HandInv /\ RefsInv
  BY <1>3 DEF HandInv, RefsInv
<1>5. IntactInv /\ AvatarIsThere
  BY <1>1, <1>3 DEF Init, IntactInv, InHand, AvatarIsThere
<1>6. SweepInv
  BY <1>3 DEF SweepInv
<1>7. QED
  BY <1>2, <1>4, <1>5, <1>6 DEF IInv, FilesInv

LEMMA InvStep == IInv /\ [Next]_vars => IInv'
<1> SUFFICES ASSUME IInv, [Next]_vars PROVE IInv'
  OBVIOUS
<1>1. ASSUME Boot, Watch PROVE IInv'
  <2>1. /\ UNCHANGED <<disk, avatar, covers, inflight, cron, used, exposed>>
        /\ up' = TRUE /\ registry' \subseteq {Job} /\ IsTable(cron', Nights, CronJob)
    BY <1>1 DEF Boot, AddCronJob, IInv, FilesInv, TypesInv
  <2>2. FilesInv'
    BY <2>1, FilesFrame DEF IInv
  <2>3. NightInv
    BY <2>1, AvatarIsRef DEF NightInv, IInv, FilesInv, AvatarPaths
  <2>4. QED
    BY <1>1, <2>1, <2>2, <2>3, NightFrame, WatchTypes DEF IInv
<1>2. ASSUME Crash, Watch PROVE IInv'
  <2>1. FilesInv' /\ DOMAIN cron' = {} /\ used' = used
    BY <1>2, CrashStep DEF IInv, EmptyTable, Crash
  <2>2. QED
    BY <1>2, <2>1, WatchTypes DEF IInv, SweepInv
<1>3. ASSUME NEW c \in Calls, Handles(c), Watch PROVE IInv'
  <2>1. FilesInv' /\ NightInv
    BY <1>3, HandlesStep DEF IInv
  <2>2. QED
    BY <1>3, <2>1, NightFrame, WatchTypes DEF IInv, NightInv
<1>4. ASSUME NEW n \in Nights, CronAvatars(n) \/ CronCovers(n) \/ CronSweep(n), Watch
      PROVE  IInv'
  BY <1>4, CronAvatarsStep, CronCoversStep, CronSweepStep
<1>5. CASE UNCHANGED vars
  <2>1. TypeOK'
    BY <1>5 DEF vars, process, IInv, TypeOK
  <2>2. FilesInv'
    BY <1>5, FilesFrame DEF vars, process, IInv, FilesInv, TypesInv
  <2>3. SweepInv'
    BY <1>5 DEF vars, process, IInv, SweepInv, CoverPaths
  <2>4. QED
    BY <2>1, <2>2, <2>3 DEF IInv
<1>6. QED
  BY <1>1, <1>2, <1>3, <1>4, <1>5 DEF Next

\* Rows, calls and the job hold values of their types, and what the job is to
\* keep has been uploaded.
THEOREM TypeCorrect == Spec => []TypeOK
BY InvInit, InvStep, PTL DEF Spec, IInv

\* An avatar is lost in the ways of exposed only: a failure between unlinkSync
\* and save, a sweep while the upload is under way, a save of a stale copy.
THEOREM AvatarStays == Spec => []AvatarIsThere
BY InvInit, InvStep, PTL DEF Spec, IInv, FilesInv

\* However uploads, saves and other nights come in between the two queries of a
\* job and its sweep, it spares what has been referred to since it began
\* (AppService.removeFileNotUsed).
THEOREM SweepIsSafe == Spec => SweepSparesReferenced
<1>1. ASSUME IInv, NEW n \in Nights, CronSweep(n)
      PROVE  kept[n] \cap disk \subseteq disk'
  BY <1>1 DEF IInv, SweepInv, CronSweep, CronAt
<1>2. IInv => [\A n \in Nights : CronSweep(n) => kept[n] \cap disk \subseteq disk']_vars
  BY <1>1
<1>3. QED
  BY <1>2, InvInit, InvStep, PTL DEF Spec, SweepSparesReferenced
=============================================================================
