---------------------------- MODULE ProfileImage ----------------------------
(***************************************************************************)
(* The profile image of one user: the row that names it, the upload        *)
(* directory and the directory of profile images.  updateProfileImage of   *)
(* users.service.ts (admin.service.ts has the same), over exist,           *)
(* removeFile, move and the upload of storage.service.ts.                  *)
(*                                                                         *)
(* The row is updated in a transaction, which holds the row's lock; files  *)
(* are removed and moved at once and are not rolled back.  A transaction   *)
(* that takes too long is rolled back while its function goes on.          *)
(***************************************************************************)
EXTENDS Naturals, FiniteSets

CONSTANTS
    Files,     \* names of uploads, which are random and never repeat
    Updates,   \* calls of updateProfileImage under way at one time
    Faults,    \* whether calls may fail or time out
    None       \* no image, no call

ASSUME ProfileImageAssumption ==
    /\ None \notin Files \cup Updates
    /\ Faults \in BOOLEAN

VARIABLES
    profileImage,   \* the committed row
    lock,           \* the call whose transaction has updated the row
    uploads,        \* files in the upload directory
    stored,         \* files in the directory of profile images
    used,           \* names that have been given to an upload
    update,         \* what each call has got to
    lost,           \* history: files removed by calls that did not commit
    disturbed       \* history: calls have overlapped, failed or timed out

ivars == <<profileImage, lock, uploads, stored, used, update, lost, disturbed>>

-----------------------------------------------------------------------------
Phases == {"idle", "read", "updated", "removed", "moved"}

UpdateCall == [phase : Phases, previous : Files \cup {None}, next : Files \cup {None}]

NoUpdate == [phase |-> "idle", previous |-> None, next |-> None]

\* Types; a file is in one place, and only calls past their update lock.
ImageTypeOK ==
    /\ profileImage \in Files \cup {None}
    /\ lock \in Updates \cup {None}
    /\ uploads \subseteq Files /\ stored \subseteq Files /\ used \subseteq Files
    /\ uploads \cup stored \subseteq used /\ uploads \cap stored = {}
    /\ update \in [Updates -> UpdateCall]
    /\ lock # None => update[lock].phase \in {"updated", "removed", "moved"}
    /\ lost \subseteq Files
    /\ disturbed \in BOOLEAN

ImageInit ==
    /\ profileImage = None /\ lock = None
    /\ uploads = {} /\ stored = {} /\ used = {}
    /\ update = [c \in Updates |-> NoUpdate]
    /\ lost = {} /\ disturbed = FALSE

\* The next await of a call.
Advance(c, phase) == update' = [update EXCEPT ![c].phase = phase]

-----------------------------------------------------------------------------
(* Slips that are easy to make in the definitions below.                   *)

\* UpdateRow outside the transaction.
UpdateRowAtOnce(c) ==
    /\ update[c].phase = "read"
    /\ lock = None
    /\ lock' = c
    /\ profileImage' = update[c].next
    /\ Advance(c, "updated")
    /\ UNCHANGED <<uploads, stored, used, lost, disturbed>>

\* ToRemove as the image the row has in the transaction.
NewImage(c) == update[c].next

\* UploadsAfter a copy.
StillUploaded(c) == uploads

-----------------------------------------------------------------------------
(* The upload, and the call step by step.                                  *)

\* POST /upload: multer stores a file under a name nobody has had.
Upload(f) ==
    /\ f \notin used
    /\ used' = used \cup {f}
    /\ uploads' = uploads \cup {f}
    /\ UNCHANGED <<profileImage, lock, stored, update, lost, disturbed>>

\* The client names the image; it may repeat a call it has made before.
ReadUser(c, f) ==
    /\ update[c].phase = "idle"
    /\ f \in used
    /\ update' = [update EXCEPT ![c] =
                   [phase |-> "read", previous |-> profileImage, next |-> f]]
    /\ disturbed' = (disturbed \/ \E d \in Updates : update[d].phase # "idle")
    /\ UNCHANGED <<profileImage, lock, uploads, stored, used, lost>>

\* The update waits for the row's lock; nobody else sees it yet.
UpdateRow(c) ==
    /\ update[c].phase = "read"
    /\ lock = None
    /\ lock' = c
    /\ Advance(c, "updated")
    /\ UNCHANGED <<profileImage, uploads, stored, used, lost, disturbed>>

ToRemove(c) == update[c].previous

\* removeFile looks first, and a missing file is no error.
RemovePrevious(c) ==
    /\ update[c].phase = "updated"
    /\ stored' = stored \ {ToRemove(c)}
    /\ lost' = IF lock = c THEN lost ELSE lost \cup ({ToRemove(c)} \cap stored)
    /\ Advance(c, "removed")
    /\ UNCHANGED <<profileImage, lock, uploads, used, disturbed>>

UploadsAfter(c) == uploads \ {update[c].next}

\* move looks into both directories, but rename needs the file in the first.
Move(c) ==
    /\ update[c].phase = "removed"
    /\ update[c].next \in uploads
    /\ uploads' = UploadsAfter(c)
    /\ stored' = stored \cup {update[c].next}
    /\ Advance(c, "moved")
    /\ UNCHANGED <<profileImage, lock, used, lost, disturbed>>

Commit(c) ==
    /\ update[c].phase = "moved"
    /\ lock = c
    /\ profileImage' = update[c].next
    /\ lock' = None
    /\ update' = [update EXCEPT ![c] = NoUpdate]
    /\ UNCHANGED <<uploads, stored, used, lost, disturbed>>

\* What a transaction that is rolled back has removed for good.
RemovedInVain(c) ==
    IF update[c].phase \in {"removed", "moved"} /\ update[c].previous # None
       /\ update[c].previous \notin stored
    THEN {update[c].previous} ELSE {}

Rollback(c) ==
    /\ lock' = IF lock = c THEN None ELSE lock
    /\ lost' = IF lock = c THEN lost \cup RemovedInVain(c) ELSE lost

\* move throws: the file is in neither directory, or already in the second.
MoveFails(c) ==
    /\ update[c].phase = "removed"
    /\ update[c].next \notin uploads
    /\ Rollback(c)
    /\ update' = [update EXCEPT ![c] = NoUpdate]
    /\ UNCHANGED <<profileImage, uploads, stored, used, disturbed>>

\* A failing statement or file operation, the refused commit of a transaction
\* that timed out, or the end of the process.
Fail(c) ==
    /\ update[c].phase # "idle"
    /\ Faults \/ (update[c].phase = "moved" /\ lock # c)
    /\ Rollback(c)
    /\ update' = [update EXCEPT ![c] = NoUpdate]
    /\ disturbed' = TRUE
    /\ UNCHANGED <<profileImage, uploads, stored, used>>

\* The transaction times out, the function goes on.
Expire(c) ==
    /\ Faults
    /\ lock = c
    /\ Rollback(c)
    /\ disturbed' = TRUE
    /\ UNCHANGED <<profileImage, uploads, stored, used, update>>

UpdateProfileImage(c) ==
    \/ \E f \in Files : ReadUser(c, f)
    \/ UpdateRow(c) \/ RemovePrevious(c) \/ Move(c) \/ Commit(c)
    \/ MoveFails(c) \/ Fail(c) \/ Expire(c)

ImageNext ==
    \/ \E f \in Files : Upload(f)
    \/ \E c \in Updates : UpdateProfileImage(c)

ImageSpec == ImageInit /\ [][ImageNext]_ivars

-----------------------------------------------------------------------------
(* What must hold.                                                         *)

\* The image the row names is in its directory, except while the call that is
\* replacing it runs, or after a call that removed it did not commit: no order
\* of complete calls, however stale the row they have read, loses an image.
ImageMissingHasCause ==
    profileImage # None /\ profileImage \notin stored =>
        \/ profileImage \in lost
        \/ lock # None /\ update[lock].phase \in {"removed", "moved"}
                       /\ update[lock].previous = profileImage

\* Calls one after another that do not fail leave no image behind that no row
\* names.
NoImageLeftBehind ==
    ~disturbed /\ (\A c \in Updates : update[c].phase = "idle") => stored \subseteq {profileImage}

\* "Remove previous profile image from storage" (users.service.ts:401): what
\* is removed is a previous image and not the one the row goes on naming.
RemovedIsPrevious == profileImage \notin lost
=============================================================================
