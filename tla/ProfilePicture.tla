--------------------------- MODULE ProfilePicture ---------------------------
(***************************************************************************)
(* The profile of one user and its picture, which lives in two stores:     *)
(*   internal/user/service.go   UpdateUser, ChangeProfilePicture,          *)
(*                              DeleteProfilePicture, asyncDeleteImage     *)
(*   internal/auth/service.go   ChangePassword, which writes the whole row *)
(*   internal/infrastructure/r2 the object storage                         *)
(*   internal/audit, audit_repository.go   the trail of profile changes    *)
(* A transaction whose first statement locks the user row FOR UPDATE is    *)
(* one step: the row is all it touches that others here can see.           *)
(* ChangePassword reads the row before its transaction and is two steps.   *)
(***************************************************************************)
EXTENDS Naturals

CONSTANTS
    Procs,      \* concurrent requests
    Null,       \* no picture
    MaxImages,  \* bound: uploads
    MaxUpdates  \* bound: name and password changes

ASSUME ProfileAssumption ==
    /\ MaxImages \in Nat /\ MaxUpdates \in Nat
    /\ Null \notin Nat

Images == 1..MaxImages

VARIABLES
    row,      \* the users row
    deleted,  \* users.deleted_at
    objects,  \* images in the object storage
    deleting, \* asyncDeleteImage goroutines that have not finished
    pc, img, copy,
    images, updates, \* counters
    trail,    \* Next of the last audit entry about the profile
    excused,  \* history: images referenced again although they were given up
    leaked,   \* history: images nobody is going to delete any more
    restored  \* history: an older profile was written back since that entry

store == <<objects, deleting>>
reqVars == <<pc, img, copy>>
counters == <<images, updates>>
history == <<excused, leaked>>
audit == <<trail, restored>>
profileVars == <<row, deleted, store, reqVars, counters, history, audit>>

NewRow == [picture |-> Null, name |-> 0, password |-> 0]

\* What a snapshot of the row tells about the profile.
Profile(r) == [picture |-> r.picture, name |-> r.name]

\* audit.Record, in the transaction that writes the row next.
Record(next) == trail' = Profile(next) /\ restored' = FALSE

ProfileInit ==
    /\ row = NewRow
    /\ deleted = FALSE
    /\ objects = {} /\ deleting = {}
    /\ pc = [p \in Procs |-> "idle"]
    /\ img = [p \in Procs |-> Null]
    /\ copy = [p \in Procs |-> NewRow]
    /\ images = 0 /\ updates = 0
    /\ excused = {} /\ leaked = {}
    /\ trail = Profile(NewRow) /\ restored = FALSE

Some(picture) == {picture} \ {Null}

\* What Transact tells the caller and what became of the transaction: a lost
\* COMMIT answer is an error to the caller.
Outcomes == {"committed", "unknown", "rolled back"}

-----------------------------------------------------------------------------
(* ChangeProfilePicture *)

\* file.SetName(uuid), imageStorage.Put.  A failed Put may have stored the
\* object; nobody deletes it.
PutImage(p, ok, stored) ==
    LET i == images + 1 IN
    /\ pc[p] = "idle"
    /\ i \in Images
    /\ ok => stored
    /\ images' = i
    /\ objects' = IF stored THEN objects \cup {i} ELSE objects
    /\ leaked' = IF stored /\ ~ok THEN leaked \cup {i} ELSE leaked
    /\ pc' = IF ok THEN [pc EXCEPT ![p] = "swap"] ELSE pc
    /\ img' = IF ok THEN [img EXCEPT ![p] = i] ELSE img
    /\ UNCHANGED <<row, deleted, deleting, copy, updates, excused, audit>>

\* Seeded fault: the previous image is cleaned up whatever the outcome.
SwapImageCleansAlways(p, outcome) ==
    LET i == img[p] IN
    /\ pc[p] = "swap"
    /\ deleted => outcome = "rolled back"
    /\ IF outcome = "rolled back" THEN UNCHANGED <<row, audit>>
       ELSE row' = [row EXCEPT !.picture = i] /\ Record([row EXCEPT !.picture = i])
    /\ deleting' = deleting \cup Some(row.picture)
                     \cup (IF outcome = "committed" THEN {} ELSE {i})
    /\ excused' = IF outcome = "unknown" THEN excused \cup {i} ELSE excused
    /\ leaked' = leaked
    /\ pc' = [pc EXCEPT ![p] = "idle"]
    /\ img' = [img EXCEPT ![p] = Null]
    /\ UNCHANGED <<deleted, objects, copy, counters>>

\* Seeded fault: the entry is written on a connection of its own.
SwapImageRecordsApart(p, outcome) ==
    LET i == img[p] IN
    /\ pc[p] = "swap"
    /\ deleted => outcome = "rolled back"
    /\ row' = IF outcome = "rolled back" THEN row ELSE [row EXCEPT !.picture = i]
    /\ Record([row EXCEPT !.picture = i])
    /\ deleting' = deleting \cup (IF outcome = "committed" THEN Some(row.picture) ELSE {i})
    /\ excused' = IF outcome = "unknown" THEN excused \cup {i} ELSE excused
    /\ leaked' = IF outcome = "unknown" THEN leaked \cup Some(row.picture) ELSE leaked
    /\ pc' = [pc EXCEPT ![p] = "idle"]
    /\ img' = [img EXCEPT ![p] = Null]
    /\ UNCHANGED <<deleted, objects, copy, counters>>

\* The transaction that swaps the reference, and the cleanup: the previous
\* image after success, the new one after an error.  Without the row (the user
\* is deleted) the transaction fails.
SwapImage(p, outcome) ==
    LET i == img[p] IN
    /\ pc[p] = "swap"
    /\ deleted => outcome = "rolled back"
    /\ IF outcome = "rolled back" THEN UNCHANGED <<row, audit>>
       ELSE row' = [row EXCEPT !.picture = i] /\ Record([row EXCEPT !.picture = i])
    /\ deleting' = deleting \cup (IF outcome = "committed" THEN Some(row.picture) ELSE {i})
    /\ excused' = IF outcome = "unknown" THEN excused \cup {i} ELSE excused
    /\ leaked' = IF outcome = "unknown" THEN leaked \cup Some(row.picture) ELSE leaked
    /\ pc' = [pc EXCEPT ![p] = "idle"]
    /\ img' = [img EXCEPT ![p] = Null]
    /\ UNCHANGED <<deleted, objects, copy, counters>>

-----------------------------------------------------------------------------
(* DeleteProfilePicture, UpdateUser, DeleteUser *)

\* Seeded fault: the image is not deleted.
DeletePictureKeepsImage(p, outcome) ==
    /\ pc[p] = "idle"
    /\ ~deleted /\ row.picture # Null
    /\ outcome # "rolled back"
    /\ row' = [row EXCEPT !.picture = Null]
    /\ Record([row EXCEPT !.picture = Null])
    /\ UNCHANGED <<deleted, store, reqVars, counters, history>>

\* A user without picture, and a rolled back transaction, change nothing.
DeletePicture(p, outcome) ==
    /\ pc[p] = "idle"
    /\ ~deleted /\ row.picture # Null
    /\ outcome # "rolled back"
    /\ row' = [row EXCEPT !.picture = Null]
    /\ Record([row EXCEPT !.picture = Null])
    /\ deleting' = IF outcome = "committed" THEN deleting \cup {row.picture} ELSE deleting
    /\ leaked' = IF outcome = "unknown" THEN leaked \cup {row.picture} ELSE leaked
    /\ UNCHANGED <<deleted, objects, reqVars, counters, excused>>

UpdateUser(p) ==
    /\ pc[p] = "idle"
    /\ ~deleted
    /\ updates < MaxUpdates
    /\ updates' = updates + 1
    /\ row' = [row EXCEPT !.name = updates + 1]
    /\ Record([row EXCEPT !.name = updates + 1])
    /\ UNCHANGED <<deleted, store, reqVars, images, history>>

\* The row keeps its reference and the object stays.
DeleteUser(p) ==
    /\ pc[p] = "idle"
    /\ ~deleted
    /\ deleted' = TRUE
    /\ UNCHANGED <<row, store, reqVars, counters, history, audit>>

-----------------------------------------------------------------------------
(* ChangePassword *)

ChangePasswordRead(p) ==
    /\ pc[p] = "idle"
    /\ ~deleted
    /\ updates < MaxUpdates
    /\ updates' = updates + 1
    /\ copy' = [copy EXCEPT ![p] = [row EXCEPT !.password = updates + 1]]
    /\ pc' = [pc EXCEPT ![p] = "password"]
    /\ UNCHANGED <<row, deleted, store, img, images, history, audit>>

\* userRepo.Update writes every column of the copy, WHERE id only.
ChangePasswordUpdate(p, ok) ==
    LET raced == copy[p].picture # row.picture IN
    /\ pc[p] = "password"
    /\ row' = IF ok THEN copy[p] ELSE row
    /\ excused' = IF ok /\ raced THEN excused \cup Some(copy[p].picture) ELSE excused
    /\ leaked' = IF ok /\ raced THEN leaked \cup Some(row.picture) ELSE leaked
    /\ restored' = (restored \/ (ok /\ Profile(copy[p]) # Profile(row)))
    /\ pc' = [pc EXCEPT ![p] = "idle"]
    /\ copy' = [copy EXCEPT ![p] = NewRow]
    /\ UNCHANGED <<deleted, store, img, counters, trail>>

-----------------------------------------------------------------------------
(* Background work and crashes *)

\* Seeded fault: the cleanup has no timeout and waits while a request is open.
AsyncDeleteBlocked(i, ok) ==
    /\ i \in deleting
    /\ \A p \in Procs : pc[p] = "idle"
    /\ deleting' = deleting \ {i}
    /\ objects' = IF ok THEN objects \ {i} ELSE objects
    /\ leaked' = IF ok THEN leaked ELSE leaked \cup {i}
    /\ UNCHANGED <<row, deleted, reqVars, counters, excused, audit>>

\* asyncDeleteImage, detached from the request, with a timeout of its own.
AsyncDelete(i, ok) ==
    /\ i \in deleting
    /\ deleting' = deleting \ {i}
    /\ objects' = IF ok THEN objects \ {i} ELSE objects
    /\ leaked' = IF ok THEN leaked ELSE leaked \cup {i}
    /\ UNCHANGED <<row, deleted, reqVars, counters, excused, audit>>

\* The API process dies: requests and cleanup goroutines are gone.
Crash ==
    /\ deleting # {} \/ \E p \in Procs : pc[p] # "idle"
    /\ leaked' = leaked \cup deleting \cup {i \in Images : \E p \in Procs : img[p] = i}
    /\ deleting' = {}
    /\ pc' = [p \in Procs |-> "idle"]
    /\ img' = [p \in Procs |-> Null]
    /\ copy' = [p \in Procs |-> NewRow]
    /\ UNCHANGED <<row, deleted, objects, counters, excused, audit>>

ProfileNext ==
    \/ \E p \in Procs :
         \/ \E ok, stored \in BOOLEAN : PutImage(p, ok, stored)
         \/ \E o \in Outcomes : SwapImage(p, o) \/ DeletePicture(p, o)
         \/ UpdateUser(p) \/ DeleteUser(p)
         \/ ChangePasswordRead(p)
         \/ \E ok \in BOOLEAN : ChangePasswordUpdate(p, ok)
    \/ \E i \in Images, ok \in BOOLEAN : AsyncDelete(i, ok)
    \/ Crash

ProfileSpec == ProfileInit /\ [][ProfileNext]_profileVars

\* A cleanup goroutine ends: it has 30 seconds.
ProfileFairSpec == ProfileSpec /\ \A i \in Images : WF_profileVars(\E ok \in BOOLEAN : AsyncDelete(i, ok))

-----------------------------------------------------------------------------
(* Properties *)

Row == [picture : Images \cup {Null}, name : 0..MaxUpdates, password : 0..MaxUpdates]

\* Types of the row, the object storage and the requests.
ProfileTypeOK ==
    /\ row \in Row
    /\ deleted \in BOOLEAN
    /\ objects \subseteq Images /\ deleting \subseteq Images
    /\ pc \in [Procs -> {"idle", "swap", "password"}]
    /\ img \in [Procs -> Images \cup {Null}]
    /\ copy \in [Procs -> Row]
    /\ images \in 0..MaxImages /\ updates \in 0..MaxUpdates
    /\ excused \subseteq Images /\ leaked \subseteq Images
    /\ trail \in [picture : Images \cup {Null}, name : 0..MaxUpdates]
    /\ restored \in BOOLEAN

\* The picture a profile refers to is in the object storage, whatever the
\* cleanups, rollbacks and crashes - unless the answer of the COMMIT that set
\* it was lost or a racing ChangePassword restored it (ChangeProfilePicture).
PictureExists == row.picture # Null => row.picture \in objects \cup excused

\* Every stored image is the current picture, one being uploaded, or one with
\* a running cleanup; what else remains is a named leak (failed Put or Delete,
\* crash, lost COMMIT answer, restored row).
ObjectsAccountedFor ==
    \A i \in objects : \/ i = row.picture
                       \/ \E p \in Procs : img[p] = i
                       \/ i \in deleting
                       \/ i \in leaked

\* The audit trail tells the profile: Next of its last entry is what the row
\* holds, whatever fails, rolls back or loses its answer.  Only a ChangePassword
\* that read the row before a profile change and writes it back whole leaves
\* the two apart, until the next entry (audit.Record joins the transaction).
TrailTellsProfile == trail = Profile(row) \/ restored

\* An image that is no longer referenced is deleted in the end, if nothing
\* interferes with its cleanup (asyncDeleteImage).
CleanedUp ==
    \A i \in Images : (i \in objects /\ i # row.picture /\ \A p \in Procs : img[p] # i)
                        ~> (i \notin objects \/ i \in leaked \/ i = row.picture)

\* auth/service.go:515: "ChangePassword updates the authenticated user's
\* password after verifying the current password": it leaves the name and the
\* picture alone.
OnlyPasswordChanges ==
    [][\A p \in Procs : ChangePasswordUpdate(p, TRUE) =>
         row'.name = row.name /\ row'.picture = row.picture]_profileVars
=============================================================================
