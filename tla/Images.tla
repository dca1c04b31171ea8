------------------------------ MODULE Images ------------------------------
(***************************************************************************)
(* Uploaded images and the sweep of orphans (backend/internal/images).     *)
(* An upload is a read of the space in use and, in a later statement, an   *)
(* insert; the hourly sweep reads the aged images of a user, reads the     *)
(* bodies of the user's notes and deletes what no body mentions, in        *)
(* statements of their own, between which the user goes on writing.  Every *)
(* image counts for one unit of the quota.                                 *)
(***************************************************************************)
EXTENDS Naturals, FiniteSets

CONSTANTS
  Author,     \* users
  Page,       \* rows of notes, each with the user that writes it
  Images,     \* bound: uploads in all, numbered in the order of created_at
  Upload,     \* upload requests running at the same time
  Quota,      \* QuotaBytes
  Batch,      \* SweepOrphanBatch
  Chunk,      \* deleteChunk
  MaxRefs,    \* bound: images one note embeds
  MaxFaults   \* bound: statements of the sweep that fail

ASSUME ImagesAssumption ==
  /\ IsFiniteSet(Author) /\ IsFiniteSet(Upload) /\ Upload # {}
  /\ Page \subseteq Author \X Nat
  /\ Images \in Nat /\ Quota \in Nat /\ MaxRefs \in Nat /\ MaxFaults \in Nat
  /\ Batch \in Nat \ {0} /\ Chunk \in Nat \ {0}

VARIABLES author, image, page, upload, sweep, faults

imagesVars == <<author, image, page, upload, sweep, faults>>

Image == 1 .. Images
Owner(p) == p[1]

Unused  == [at |-> "unused"]
Gone    == [at |-> "gone"]
Fresh(a) == [at |-> "fresh", owner |-> a]     \* within the grace period
Aged(a)  == [at |-> "aged", owner |-> a]
NoPage  == [row |-> FALSE, trashed |-> FALSE, refs |-> {}]
Asleep  == [at |-> "asleep"]
NoUpload == [at |-> "free"]

ImagesInit ==
  /\ author = Author
  /\ image = [i \in Image |-> Unused]
  /\ page = [p \in Page |-> NoPage]
  /\ upload = [u \in Upload |-> NoUpload]
  /\ sweep = Asleep
  /\ faults = 0

Stored(i)  == image[i].at \in {"fresh", "aged"}
ImagesOf(a) == {i \in Image : Stored(i) /\ image[i].owner = a}
AgedOf(a)  == {i \in ImagesOf(a) : image[i].at = "aged"}
PagesOf(a) == {p \in Page : Owner(p) = a /\ page[p].row}
Oldest(S, n) == {i \in S : Cardinality({j \in S : j < i}) < n}

-----------------------------------------------------------------------------
(* Upload.  `crossed' is history: how many uploads of the same user have    *)
(* been stored since this one was found to have room.                      *)

\* Faulty variant: the new image is not counted.
HasRoom_Before(a) == Cardinality(ImagesOf(a)) <= Quota

\* currentImageBytes: used + len(data) within the quota.
HasRoom(a) == Cardinality(ImagesOf(a)) + 1 <= Quota

UploadCheck(u, a) ==
  /\ upload[u] = NoUpload /\ a \in author
  /\ HasRoom(a)
  /\ upload' = [upload EXCEPT ![u] = [at |-> "insert", owner |-> a, crossed |-> 0]]
  /\ UNCHANGED <<author, image, page, sweep, faults>>

\* The insert fails when the user's row is gone.
UploadInsert(u) ==
  /\ upload[u].at = "insert"
  /\ LET a == upload[u].owner IN
     IF a \notin author
       THEN upload' = [upload EXCEPT ![u] = NoUpload] /\ UNCHANGED image
       ELSE \E i \in Image :
              /\ image[i] = Unused /\ \A j \in 1 .. i - 1 : image[j] # Unused
              /\ image' = [image EXCEPT ![i] = Fresh(a)]
              /\ upload' = [v \in Upload |->
                   IF v = u THEN NoUpload
                   ELSE IF upload[v].at = "insert" /\ upload[v].owner = a
                          THEN [upload[v] EXCEPT !.crossed = @ + 1] ELSE upload[v]]
  /\ UNCHANGED <<author, page, sweep, faults>>

\* The client goes away: the statement is not executed.
UploadCancelled(u) ==
  /\ upload[u] # NoUpload
  /\ upload' = [upload EXCEPT ![u] = NoUpload]
  /\ UNCHANGED <<author, image, page, sweep, faults>>

\* The grace period of an image ends; an older one's has ended before.
ImageAges(i) ==
  /\ image[i].at = "fresh" /\ \A j \in 1 .. i - 1 : image[j].at # "fresh"
  /\ image' = [image EXCEPT ![i] = Aged(@.owner)]
  /\ UNCHANGED <<author, page, upload, sweep, faults>>

-----------------------------------------------------------------------------
(* The notes of the users, as far as they mention images.                  *)

\* A body may mention any image that has been stored, another user's too.
SavePage(p, refs) ==
  /\ Owner(p) \in author /\ ~page[p].trashed
  /\ \A i \in refs : image[i] # Unused
  /\ page' = [page EXCEPT ![p].row = TRUE, ![p].refs = refs]
  /\ sweep' = IF sweep.at # "delete" THEN sweep
              ELSE [sweep EXCEPT !.late = @ \cup {<<p, i>> : i \in sweep.ids \cap (refs \ page[p].refs)}]
  /\ UNCHANGED <<author, image, upload, faults>>

TrashPage(p) ==
  /\ page[p].row /\ ~page[p].trashed
  /\ page' = [page EXCEPT ![p].trashed = TRUE]
  /\ UNCHANGED <<author, image, upload, sweep, faults>>

RestorePage(p) ==
  /\ page[p].trashed
  /\ page' = [page EXCEPT ![p].trashed = FALSE]
  /\ UNCHANGED <<author, image, upload, sweep, faults>>

DestroyPage(p) ==
  /\ page[p].trashed
  /\ page' = [page EXCEPT ![p] = NoPage]
  /\ UNCHANGED <<author, image, upload, sweep, faults>>

\* Notes and images go with their user.
DeleteAuthor(a) ==
  /\ a \in author
  /\ author' = author \ {a}
  /\ image' = [i \in Image |-> IF i \in ImagesOf(a) THEN Gone ELSE image[i]]
  /\ page' = [p \in Page |-> IF Owner(p) = a THEN NoPage ELSE page[p]]
  /\ UNCHANGED <<upload, sweep, faults>>

-----------------------------------------------------------------------------
(* SweepOrphans.  `old' is what its cutoff selects, `left' what the pass    *)
(* may still delete; `late' is history: what notes have been saved to       *)
(* mention since the bodies were read.                                     *)

\* usersWithAgedImages.
SweepUsers ==
  /\ sweep = Asleep
  /\ LET old == UNION {AgedOf(a) : a \in Author} IN
     /\ old # {}
     /\ sweep' = [at |-> "user", old |-> old, left |-> Batch,
                  users |-> {image[i].owner : i \in old}]
  /\ UNCHANGED <<author, image, page, upload, faults>>

\* The next user, or the end of the pass.
NextUser(s, left) ==
  IF s.users = {} \/ left = 0 THEN Asleep
  ELSE [at |-> "user", old |-> s.old, left |-> left, users |-> s.users]

\* Faulty variant: the images a pass looks at are bounded, not those it deletes.
Candidates_Bounded(a) == Oldest(sweep.old \cap AgedOf(a), sweep.left)

\* agedImageIDs.
Candidates(a) == sweep.old \cap AgedOf(a)

\* With no candidate left the bodies are not read.
SweepCandidates(a) ==
  /\ sweep.at = "user" /\ a \in sweep.users
  /\ LET rest == [sweep EXCEPT !.users = @ \ {a}] IN
     sweep' = IF Candidates(a) = {} THEN NextUser(rest, sweep.left)
              ELSE [at |-> "scan", old |-> rest.old, left |-> rest.left, users |-> rest.users,
                    user |-> a, ids |-> Candidates(a)]
  /\ UNCHANGED <<author, image, page, upload, faults>>

\* Faulty variant: the notes in the trash are not read.
Scanned_Listed(a) == {p \in PagesOf(a) : ~page[p].trashed}

\* The bodies unreferenced reads.
Scanned(a) == PagesOf(a)

\* unreferenced, cut to what the pass may still delete.
SweepScan ==
  /\ sweep.at = "scan"
  /\ LET orphans == sweep.ids \ UNION {page[p].refs : p \in Scanned(sweep.user)} IN
     sweep' = IF orphans = {} THEN NextUser(sweep, sweep.left)
              ELSE [at |-> "delete", old |-> sweep.old, left |-> sweep.left, users |-> sweep.users,
                    user |-> sweep.user, ids |-> Oldest(orphans, sweep.left), late |-> {}]
  /\ UNCHANGED <<author, image, page, upload, faults>>

\* deleteImages, one chunk; the images still there are counted.
SweepDelete ==
  /\ sweep.at = "delete"
  /\ LET chunk == Oldest(sweep.ids, Chunk)
         hit   == chunk \cap ImagesOf(sweep.user)
         left  == sweep.left - Cardinality(hit)
     IN /\ image' = [i \in Image |-> IF i \in hit THEN Gone ELSE image[i]]
        /\ sweep' = IF sweep.ids = chunk THEN NextUser(sweep, left)
                    ELSE [sweep EXCEPT !.ids = @ \ chunk, !.left = left]
  /\ UNCHANGED <<author, page, upload, faults>>

\* A statement fails, or the server stops: the pass is over.
SweepFails ==
  /\ sweep # Asleep /\ faults < MaxFaults
  /\ sweep' = Asleep
  /\ faults' = faults + 1
  /\ UNCHANGED <<author, image, page, upload>>

Sweep == SweepUsers \/ SweepScan \/ SweepDelete \/ \E a \in Author : SweepCandidates(a)

ImagesNext ==
  \/ \E u \in Upload : UploadInsert(u) \/ UploadCancelled(u) \/ \E a \in Author : UploadCheck(u, a)
  \/ \E i \in Image : ImageAges(i)
  \/ \E p \in Page :
       \/ TrashPage(p) \/ RestorePage(p) \/ DestroyPage(p)
       \/ \E refs \in SUBSET Image : Cardinality(refs) <= MaxRefs /\ SavePage(p, refs)
  \/ \E a \in Author : DeleteAuthor(a)
  \/ Sweep \/ SweepFails

ImagesSpec == ImagesInit /\ [][ImagesNext]_imagesVars

-----------------------------------------------------------------------------
(* Properties.                                                             *)

ImagesTypeOK ==
  /\ author \subseteq Author
  /\ image \in [Image -> {Unused, Gone} \cup [at : {"fresh", "aged"}, owner : author]]
  /\ page \in [Page -> [row : BOOLEAN, trashed : BOOLEAN, refs : SUBSET Image]]
  /\ upload \in [Upload -> {NoUpload} \cup [at : {"insert"}, owner : Author, crossed : 0 .. Images]]
  /\ sweep.at \in {"asleep", "user", "scan", "delete"}
  /\ sweep # Asleep => sweep.left \in 1 .. Batch /\ sweep.users \subseteq Author
  /\ faults \in 0 .. MaxFaults

\* The quota is read before the insert, and two uploads at the same time may
\* each find room (handler.go:157): an upload gets past the quota by what other
\* uploads have stored since its check, and by nothing else.
OverrunsAreCrossings ==
  [][\A u \in Upload, a \in Author :
       (upload[u].at = "insert" /\ upload[u].owner = a /\ upload'[u] = NoUpload
          /\ ImagesOf(a)' # ImagesOf(a)) =>
         Cardinality(ImagesOf(a)') <= Quota + upload[u].crossed]_imagesVars

\* An image a note of its owner mentions is not deleted, in the trash or not,
\* unless the mention was saved after the sweep had read the notes
\* (sweep.go:67); one within its grace period never is.
MentionedImagesStay ==
  [][\A i \in Image :
       (Stored(i) /\ image[i].owner \in author' /\ image'[i] = Gone) =>
         /\ image[i].at = "aged"
         /\ \A p \in PagesOf(image[i].owner) : i \in page[p].refs => <<p, i>> \in sweep.late]_imagesVars

Mentioned(i) == \E p \in PagesOf(image[i].owner) : i \in page[p].refs

\* An aged image that no note of its owner mentions is deleted in the end,
\* whatever older images have to be kept (sweep.go:44) and whatever other
\* users write.
OrphansAreSwept ==
  \A i \in Image :
    (image[i].at = "aged" /\ ~Mentioned(i)) ~> (~Stored(i) \/ Mentioned(i))
=============================================================================
