---------------------------- MODULE ProfileImage ----------------------------
(***************************************************************************)
(* The picture of a user: change_profile_img.php uploads or removes it,    *)
(* get_profile_img.php shows it.  The three requests run their statements  *)
(* in autocommit mode, so that requests of different sessions, also of the *)
(* same user, interleave between statements.                               *)
(***************************************************************************)
EXTENDS Integers, Functions

CONSTANTS
  Sessions,   \* PHP sessions that are logged in
  Users,      \* rows of Utenti
  UserOf,     \* $_SESSION['userId'] of each session
  MaxImages   \* bound: number of Immagini rows ever inserted

ASSUME ImageAssumption ==
  UserOf \in [Sessions -> Users] /\ MaxImages \in Nat

(* FKimmagineProfilo when it is NULL: imageId is AUTO_INCREMENT from 1.    *)
None == 0

VARIABLES
  profile,     \* Utenti.FKimmagineProfilo
  images,      \* Immagini: the imageIds that exist, with (history) the user
               \* who uploaded them
  nextImage,   \* AUTO_INCREMENT of Immagini
  pc,          \* next statement of each session's request
  old,         \* $oldImageId, $imageId, $FKimmagineProfilo of the request
  new,         \* $newImageId of the request
  abandoned,   \* history: images a dead request was about to link or delete
  overtaken    \* history: images whose place in the profile was taken by a
               \* request that had read the profile before they were linked

vars == <<profile, images, nextImage, pc, old, new, abandoned, overtaken>>

Ids == Nat
Pcs == {"idle", "insert", "link", "delete_old", "clear", "delete_removed",
        "show"}

Init ==
  /\ profile = [u \in Users |-> None]
  /\ images = [i \in {} |-> {}]
  /\ nextImage = 1
  /\ pc = [s \in Sessions |-> "idle"]
  /\ old = [s \in Sessions |-> None]
  /\ new = [s \in Sessions |-> None]
  /\ abandoned = {}
  /\ overtaken = {}

Goto(s, label) == pc' = [pc EXCEPT ![s] = label]

(* SELECT FKimmagineProfilo FROM Utenti WHERE userId = ?                   *)
ReadProfile(s) == old' = [old EXCEPT ![s] = profile[UserOf[s]]]

(* The history of an UPDATE of the profile: the picture it replaces is not *)
(* the one that the request knows of, and will not be deleted by it.       *)
Overtake(s) ==
  overtaken' = overtaken \cup ({profile[UserOf[s]]} \ {old[s], None})

(* The script ends and forgets its variables.                              *)
EndRequest(s) ==
  /\ old' = [old EXCEPT ![s] = None]
  /\ new' = [new EXCEPT ![s] = None]
  /\ Goto(s, "idle")

-----------------------------------------------------------------------------
(* change_profile_img.php with a file.  An upload error dies before any    *)
(* statement and changes nothing.                                          *)

ChangeSelect(s) ==
  /\ pc[s] = "idle"
  /\ ReadProfile(s)
  /\ Goto(s, "insert")
  /\ UNCHANGED <<profile, images, nextImage, new, abandoned, overtaken>>

(* Mutant of InsertImage: the next picture gets the same id.               *)
InsertImage_SameId(s) ==
  /\ pc[s] = "insert"
  /\ images' = [i \in DOMAIN images \cup {nextImage} |->
                  IF i = nextImage THEN UserOf[s] ELSE images[i]]
  /\ new' = [new EXCEPT ![s] = nextImage]
  /\ Goto(s, "link")
  /\ UNCHANGED <<profile, nextImage, old, abandoned, overtaken>>

(* INSERT INTO Immagini ..., and its insert_id.                            *)
InsertImage(s) ==
  /\ pc[s] = "insert"
  /\ nextImage <= MaxImages
  /\ images' = [i \in DOMAIN images \cup {nextImage} |->
                  IF i = nextImage THEN UserOf[s] ELSE images[i]]
  /\ new' = [new EXCEPT ![s] = nextImage]
  /\ nextImage' = nextImage + 1
  /\ Goto(s, "link")
  /\ UNCHANGED <<profile, old, abandoned, overtaken>>

(* Mutant of LinkImage: the id is that of the last picture in the table,   *)
(* not of the one just inserted.                                           *)
LinkImage_LastId(s) ==
  /\ pc[s] = "link"
  /\ profile' = [profile EXCEPT ![UserOf[s]] = nextImage - 1]
  /\ IF old[s] # None
     THEN Goto(s, "delete_old") /\ UNCHANGED <<old, new>>
     ELSE EndRequest(s)
  /\ Overtake(s)
  /\ UNCHANGED <<images, nextImage, abandoned>>

(* UPDATE Utenti SET FKimmagineProfilo = ?; the DELETE follows only if the *)
(* user had a picture.                                                     *)
LinkImage(s) ==
  /\ pc[s] = "link"
  /\ profile' = [profile EXCEPT ![UserOf[s]] = new[s]]
  /\ IF old[s] # None
     THEN Goto(s, "delete_old") /\ UNCHANGED <<old, new>>
     ELSE EndRequest(s)
  /\ Overtake(s)
  /\ UNCHANGED <<images, nextImage, abandoned>>

(* Mutant of DeleteOldImage: the DELETE is prepared but not executed.      *)
DeleteOldImage_NotExecuted(s) ==
  /\ pc[s] = "delete_old"
  /\ EndRequest(s)
  /\ UNCHANGED <<profile, images, nextImage, abandoned, overtaken>>

DeleteOldImage(s) ==
  /\ pc[s] = "delete_old"
  /\ images' = Restrict(images, DOMAIN images \ {old[s]})
  /\ EndRequest(s)
  /\ UNCHANGED <<profile, nextImage, abandoned, overtaken>>

-----------------------------------------------------------------------------
(* change_profile_img.php with remove_profile_image.                       *)

RemoveSelect(s) ==
  /\ pc[s] = "idle"
  /\ ReadProfile(s)
  /\ Goto(s, "clear")
  /\ UNCHANGED <<profile, images, nextImage, new, abandoned, overtaken>>

(* Mutant of ClearProfile: the column is left as it is.                    *)
ClearProfile_KeepsColumn(s) ==
  /\ pc[s] = "clear"
  /\ IF old[s] # None
     THEN Goto(s, "delete_removed") /\ UNCHANGED <<old, new>>
     ELSE EndRequest(s)
  /\ UNCHANGED <<profile, images, nextImage, abandoned, overtaken>>

(* UPDATE Utenti SET FKimmagineProfilo = NULL                              *)
ClearProfile(s) ==
  /\ pc[s] = "clear"
  /\ profile' = [profile EXCEPT ![UserOf[s]] = None]
  /\ IF old[s] # None
     THEN Goto(s, "delete_removed") /\ UNCHANGED <<old, new>>
     ELSE EndRequest(s)
  /\ Overtake(s)
  /\ UNCHANGED <<images, nextImage, abandoned>>

DeleteRemovedImage(s) ==
  /\ pc[s] = "delete_removed"
  /\ images' = Restrict(images, DOMAIN images \ {old[s]})
  /\ EndRequest(s)
  /\ UNCHANGED <<profile, nextImage, abandoned, overtaken>>

-----------------------------------------------------------------------------
(* get_profile_img.php: two statements for a user with a picture.          *)

ShowSelect(s) ==
  /\ pc[s] = "idle"
  /\ profile[UserOf[s]] # None
  /\ ReadProfile(s)
  /\ Goto(s, "show")
  /\ UNCHANGED <<profile, images, nextImage, new, abandoned, overtaken>>

ShowImage(s) ==
  /\ pc[s] = "show"
  /\ EndRequest(s)
  /\ UNCHANGED <<profile, images, nextImage, abandoned, overtaken>>

-----------------------------------------------------------------------------
(* A statement throws and nothing catches it, or the script or the server  *)
(* stops: what the earlier statements wrote stays.                         *)
RequestDies(s) ==
  /\ pc[s] # "idle"
  /\ abandoned' = abandoned \cup
       (CASE pc[s] = "link" -> {new[s]}
          [] pc[s] \in {"delete_old", "delete_removed"} -> {old[s]}
          [] OTHER -> {})
  /\ EndRequest(s)
  /\ UNCHANGED <<profile, images, nextImage, overtaken>>

Next == \E s \in Sessions :
  \/ ChangeSelect(s) \/ InsertImage(s) \/ LinkImage(s) \/ DeleteOldImage(s)
  \/ RemoveSelect(s) \/ ClearProfile(s) \/ DeleteRemovedImage(s)
  \/ ShowSelect(s) \/ ShowImage(s)
  \/ RequestDies(s)

Spec == Init /\ [][Next]_vars

-----------------------------------------------------------------------------
(* Every variable holds a value of its column or PHP variable.             *)
TypeOK ==
  /\ profile \in [Users -> Ids]
  /\ nextImage \in Nat \ {0}
  /\ images \in [DOMAIN images -> Users]
  /\ DOMAIN images \subseteq 1 .. nextImage - 1
  /\ pc \in [Sessions -> Pcs]
  /\ old \in [Sessions -> Ids]
  /\ new \in [Sessions -> Ids]
  /\ abandoned \subseteq Ids
  /\ overtaken \subseteq Ids

(* Only one browser is logged in as this user.                             *)
Alone(s) == \A t \in Sessions : UserOf[t] = UserOf[s] => t = s

(* A user row never points at a picture that is gone: the row is updated   *)
(* before the old picture is deleted, and although the id of the old one   *)
(* may be stale by then, no request ever links a picture twice.            *)
ProfileImageExists ==
  \A u \in Users : profile[u] # None => profile[u] \in DOMAIN images

(* The picture of a user was uploaded by that user, and the picture that a *)
(* request has read, and may be about to delete, is never somebody else's. *)
ProfileImageIsOwn ==
  /\ \A u \in Users, i \in DOMAIN images : profile[u] = i => images[i] = u
  /\ \A s \in Sessions :
       old[s] \in DOMAIN images => images[old[s]] = UserOf[s]

(* A picture nobody shows belongs to a request on its way, or was left by  *)
(* one that died, or by two browsers of its user that changed the profile  *)
(* at the same time: nothing else fills the table with pictures that no    *)
(* row points at.                                                          *)
UnusedImagesAreTransient ==
  \A i \in DOMAIN images :
    LET u == images[i] IN
    i # profile[u] =>
      \/ i \in abandoned
      \/ i \in overtaken /\ \A s \in Sessions : UserOf[s] = u => ~Alone(s)
      \/ \E s \in Sessions :
           /\ UserOf[s] = u
           /\ \/ pc[s] = "link" /\ i = new[s]
              \/ pc[s] \in {"delete_old", "delete_removed"} /\ i = old[s]

(* A view that finds no picture has been overtaken: another browser of the *)
(* same user has changed the picture between its two SELECTs, and by now   *)
(* the profile points elsewhere, so that the next view finds it.           *)
ShownImageExists ==
  \A s \in Sessions :
    pc[s] = "show" /\ old[s] \notin DOMAIN images =>
      profile[UserOf[s]] # old[s] /\ ~Alone(s)

=============================================================================
