------------------------- MODULE ProfileImageProofs -------------------------
(***************************************************************************)
(* Proofs about ProfileImage for any number of users and sessions, and any *)
(* assignment of sessions to users.                                        *)
(***************************************************************************)
EXTENDS ProfileImage, TLAPS

(* Identifiers of pictures are not reused: a request only knows of         *)
(* pictures that were inserted.                                            *)
KnownImages ==
  \A s \in Sessions : old[s] < nextImage /\ new[s] < nextImage

(* A picture that is inserted and not linked yet is known only to the      *)
(* request that inserted it.                                               *)
NewImageIsPrivate ==
  \A s \in Sessions : pc[s] = "link" =>
    /\ new[s] \in DOMAIN images
    /\ images[new[s]] = UserOf[s]
    /\ \A u \in Users : profile[u] # new[s]
    /\ \A t \in Sessions : old[t] # new[s]
    /\ \A t \in Sessions \ {s} : new[t] # new[s]

(* The picture a request is about to delete is nobody's any more.          *)
DeletedImageIsUnused ==
  \A s \in Sessions : pc[s] \in {"delete_old", "delete_removed"} =>
    old[s] # None /\ \A u \in Users : profile[u] # old[s]

IInv ==
  /\ TypeOK
  /\ ProfileImageExists
  /\ ProfileImageIsOwn
  /\ KnownImages
  /\ NewImageIsPrivate
  /\ DeletedImageIsUnused

-----------------------------------------------------------------------------
(* The empty tables satisfy the invariant.                                 *)
LEMMA InitIInv == Init => IInv
  BY ImageAssumption
     DEF Init, IInv, TypeOK, ProfileImageExists, ProfileImageIsOwn,
         KnownImages, NewImageIsPrivate, DeletedImageIsUnused, None, Ids, Pcs

(* What a request has read as the picture of its user is never the picture *)
(* of another user.                                                        *)
LEMMA OldImageIsOwn ==
  ASSUME IInv, NEW s \in Sessions, NEW u \in Users,
         old[s] # None, u # UserOf[s]
  PROVE  profile[u] # old[s]
  <1>1. ASSUME profile[u] = old[s]
        PROVE  images[old[s]] = u /\ images[old[s]] = UserOf[s]
    BY <1>1 DEF IInv, ProfileImageExists, ProfileImageIsOwn
  <1> QED
    BY <1>1

(* Linking a new picture: nobody else knows of it, so no request is about  *)
(* to delete it; and the old one, that this request may delete next, is    *)
(* not the picture of another user.                                        *)
LEMMA LinkStep ==
  ASSUME IInv, NEW s \in Sessions, LinkImage(s)
  PROVE  IInv'
  <1> USE ImageAssumption DEF Goto, None
  <1>1. TypeOK /\ UserOf[s] \in Users
    BY DEF IInv
  <1>2. /\ profile' = [profile EXCEPT ![UserOf[s]] = new[s]]
        /\ UNCHANGED <<images, nextImage, abandoned>>
        /\ \A t \in Sessions \ {s} :
             old'[t] = old[t] /\ new'[t] = new[t] /\ pc'[t] = pc[t]
        /\ \/ /\ pc'[s] = "delete_old" /\ old[s] # 0
              /\ old'[s] = old[s] /\ new'[s] = new[s]
           \/ pc'[s] = "idle" /\ old'[s] = 0 /\ new'[s] = 0
    BY <1>1 DEF LinkImage, EndRequest, TypeOK
  <1>3. /\ new[s] \in DOMAIN images /\ images[new[s]] = UserOf[s]
        /\ \A u \in Users : profile[u] # new[s]
        /\ \A t \in Sessions : old[t] # new[s]
        /\ \A t \in Sessions \ {s} : new[t] # new[s]
    BY DEF IInv, NewImageIsPrivate, LinkImage
  <1>4. TypeOK'
    BY <1>1 DEF LinkImage, EndRequest, Overtake, TypeOK, Ids, Pcs
  <1>5. ProfileImageExists' /\ ProfileImageIsOwn'
    BY <1>1, <1>2, <1>3
       DEF IInv, TypeOK, ProfileImageExists, ProfileImageIsOwn
  <1>6. KnownImages'
    BY <1>1, <1>2 DEF IInv, TypeOK, KnownImages
  <1>7. NewImageIsPrivate'
    <2> SUFFICES ASSUME NEW t \in Sessions, pc'[t] = "link"
                 PROVE  /\ new'[t] \in DOMAIN images'
                        /\ images'[new'[t]] = UserOf[t]
                        /\ \A u \in Users : profile'[u] # new'[t]
                        /\ \A r \in Sessions : old'[r] # new'[t]
                        /\ \A r \in Sessions \ {t} : new'[r] # new'[t]
      BY DEF NewImageIsPrivate
    <2> QED
      BY <1>1, <1>2, <1>3 DEF IInv, TypeOK, NewImageIsPrivate
  <1>8. DeletedImageIsUnused'
    <2> SUFFICES ASSUME NEW t \in Sessions, NEW u \in Users,
                        pc'[t] \in {"delete_old", "delete_removed"}
                 PROVE  old'[t] # 0 /\ profile'[u] # old'[t]
      BY DEF DeletedImageIsUnused
    <2>1. old'[t] = old[t] /\ old[t] # 0
      BY <1>2 DEF IInv, DeletedImageIsUnused
    <2>2. CASE u = UserOf[s]
      BY <1>1, <1>2, <1>3, <2>1, <2>2 DEF TypeOK
    <2>3. CASE u # UserOf[s] /\ t # s
      BY <1>1, <1>2, <2>1, <2>3 DEF IInv, TypeOK, DeletedImageIsUnused
    <2>4. CASE u # UserOf[s] /\ t = s
      <3>1. old[s] # None /\ profile'[u] = profile[u]
        BY <1>1, <1>2, <2>4 DEF TypeOK
      <3> QED
        BY <2>1, <2>4, <3>1, OldImageIsOwn
    <2> QED
      BY <2>2, <2>3, <2>4
  <1> QED
    BY <1>4, <1>5, <1>6, <1>7, <1>8 DEF IInv

(* Clearing the column: no user points at the picture to be deleted.       *)
LEMMA ClearStep ==
  ASSUME IInv, NEW s \in Sessions, ClearProfile(s)
  PROVE  IInv'
  <1> USE ImageAssumption DEF Goto, None
  <1>1. TypeOK /\ UserOf[s] \in Users
    BY DEF IInv
  <1>2. /\ profile' = [profile EXCEPT ![UserOf[s]] = 0]
        /\ UNCHANGED <<images, nextImage, abandoned>>
        /\ \A t \in Sessions \ {s} :
             old'[t] = old[t] /\ new'[t] = new[t] /\ pc'[t] = pc[t]
        /\ \/ /\ pc'[s] = "delete_removed" /\ old[s] # 0
              /\ old'[s] = old[s] /\ new'[s] = new[s]
           \/ pc'[s] = "idle" /\ old'[s] = 0 /\ new'[s] = 0
    BY <1>1 DEF ClearProfile, EndRequest, TypeOK
  <1>3. TypeOK'
    BY <1>1 DEF ClearProfile, EndRequest, Overtake, TypeOK, Ids, Pcs
  <1>4. ProfileImageExists' /\ ProfileImageIsOwn'
    BY <1>1, <1>2
       DEF IInv, TypeOK, ProfileImageExists, ProfileImageIsOwn
  <1>5. KnownImages'
    BY <1>1, <1>2 DEF IInv, TypeOK, KnownImages
  <1>6. NewImageIsPrivate'
    <2> SUFFICES ASSUME NEW t \in Sessions, pc'[t] = "link"
                 PROVE  /\ new'[t] \in DOMAIN images'
                        /\ images'[new'[t]] = UserOf[t]
                        /\ \A u \in Users : profile'[u] # new'[t]
                        /\ \A r \in Sessions : old'[r] # new'[t]
                        /\ \A r \in Sessions \ {t} : new'[r] # new'[t]
      BY DEF NewImageIsPrivate
    <2>1. t # s /\ pc[t] = "link" /\ new'[t] = new[t]
      BY <1>2
    <2>2. new[t] \in DOMAIN images /\ new[t] # 0
      BY <2>1, <1>1 DEF IInv, NewImageIsPrivate, TypeOK
    <2> QED
      BY <1>1, <1>2, <2>1, <2>2 DEF IInv, TypeOK, NewImageIsPrivate
  <1>7. DeletedImageIsUnused'
    <2> SUFFICES ASSUME NEW t \in Sessions, NEW u \in Users,
                        pc'[t] \in {"delete_old", "delete_removed"}
                 PROVE  old'[t] # 0 /\ profile'[u] # old'[t]
      BY DEF DeletedImageIsUnused
    <2>1. old'[t] = old[t] /\ old[t] # 0
      BY <1>2 DEF IInv, DeletedImageIsUnused
    <2>2. CASE u = UserOf[s]
      BY <1>1, <1>2, <2>1, <2>2 DEF TypeOK
    <2>3. CASE u # UserOf[s] /\ t # s
      BY <1>1, <1>2, <2>1, <2>3 DEF IInv, TypeOK, DeletedImageIsUnused
    <2>4. CASE u # UserOf[s] /\ t = s
      <3>1. profile'[u] = profile[u]
        BY <1>1, <1>2, <2>4 DEF TypeOK
      <3> QED
        BY <2>1, <2>4, <3>1, OldImageIsOwn
    <2> QED
      BY <2>2, <2>3, <2>4
  <1> QED
    BY <1>3, <1>4, <1>5, <1>6, <1>7 DEF IInv

(* Every statement preserves the invariant.                                *)
LEMMA NextIInv == IInv /\ [Next]_vars => IInv'
  <1> SUFFICES ASSUME IInv, [Next]_vars PROVE IInv'
    OBVIOUS
  <1>1. ASSUME NEW s \in Sessions, LinkImage(s)
        PROVE  IInv'
    BY <1>1, LinkStep
  <1>2. ASSUME NEW s \in Sessions, ClearProfile(s)
        PROVE  IInv'
    BY <1>2, ClearStep
  <1> USE ImageAssumption
      DEF IInv, TypeOK, ProfileImageExists, ProfileImageIsOwn, KnownImages,
          NewImageIsPrivate, DeletedImageIsUnused, None, Ids, Pcs, Goto
  <1>3. ASSUME NEW s \in Sessions,
               ChangeSelect(s) \/ RemoveSelect(s) \/ ShowSelect(s)
        PROVE  IInv'
    BY <1>3 DEF ChangeSelect, RemoveSelect, ShowSelect, ReadProfile
  <1>4. ASSUME NEW s \in Sessions, InsertImage(s)
        PROVE  IInv'
    BY <1>4 DEF InsertImage
  <1>5. ASSUME NEW s \in Sessions, DeleteOldImage(s) \/ DeleteRemovedImage(s)
        PROVE  IInv'
    BY <1>5 DEF DeleteOldImage, DeleteRemovedImage, EndRequest, Restrict
  <1>6. ASSUME NEW s \in Sessions, ShowImage(s) \/ RequestDies(s)
        PROVE  IInv'
    BY <1>6 DEF ShowImage, RequestDies, EndRequest
  <1>7. CASE UNCHANGED vars
    BY <1>7 DEF vars
  <1> QED
    BY <1>1, <1>2, <1>3, <1>4, <1>5, <1>6, <1>7 DEF Next

(* Every variable of ProfileImage keeps its type.                          *)
THEOREM TypeCorrect == Spec => []TypeOK
  <1>1. IInv => TypeOK
    BY DEF IInv
  <1> QED
    BY InitIInv, NextIInv, <1>1, PTL DEF Spec

(* A user row never points at a picture that has been deleted.             *)
THEOREM NoDanglingProfile == Spec => []ProfileImageExists
  <1>1. IInv => ProfileImageExists
    BY DEF IInv
  <1> QED
    BY InitIInv, NextIInv, <1>1, PTL DEF Spec

(* A user row only ever points at a picture that its own user uploaded,    *)
(* and a request never knows somebody else's picture as the old one.       *)
THEOREM ProfileOwnership == Spec => []ProfileImageIsOwn
  <1>1. IInv => ProfileImageIsOwn
    BY DEF IInv
  <1> QED
    BY InitIInv, NextIInv, <1>1, PTL DEF Spec

-----------------------------------------------------------------------------
(* A view has read a picture; and for a user with one browser, what a      *)
(* request has read stays the picture until the request changes it.        *)
ReadsAreCurrent ==
  \A s \in Sessions :
    /\ pc[s] = "show" => old[s] # None
    /\ Alone(s) /\ pc[s] \in {"insert", "link", "clear", "show"} =>
         old[s] = profile[UserOf[s]]

Step(s) ==
  \/ ChangeSelect(s) \/ InsertImage(s) \/ LinkImage(s) \/ DeleteOldImage(s)
  \/ RemoveSelect(s) \/ ClearProfile(s) \/ DeleteRemovedImage(s)
  \/ ShowSelect(s) \/ ShowImage(s) \/ RequestDies(s)

(* A step of a request leaves the requests of the other sessions alone,    *)
(* and changes the picture of no other user.                               *)
LEMMA OthersStay ==
  ASSUME TypeOK, NEW t \in Sessions, Step(t), NEW s \in Sessions \ {t}
  PROVE  /\ pc'[s] = pc[s] /\ old'[s] = old[s] /\ new'[s] = new[s]
         /\ UserOf[t] # UserOf[s] =>
              profile'[UserOf[s]] = profile[UserOf[s]]
  <1> USE ImageAssumption DEF TypeOK, Goto
  <1>1. CASE InsertImage(t)
    BY <1>1 DEF InsertImage
  <1>2. CASE LinkImage(t) \/ ClearProfile(t)
    BY <1>2 DEF LinkImage, ClearProfile, EndRequest
  <1>3. CASE DeleteOldImage(t) \/ DeleteRemovedImage(t)
    BY <1>3 DEF DeleteOldImage, DeleteRemovedImage, EndRequest
  <1>4. CASE \/ ChangeSelect(t) \/ RemoveSelect(t) \/ ShowSelect(t)
             \/ ShowImage(t) \/ RequestDies(t)
    BY <1>4 DEF ChangeSelect, RemoveSelect, ShowSelect, ReadProfile, ShowImage,
                RequestDies, EndRequest
  <1> QED
    BY <1>1, <1>2, <1>3, <1>4 DEF Step

(* The reads stay what they are in one session, whether the step is its    *)
(* own or not.                                                             *)
LEMMA ReadsStep ==
  ASSUME IInv, ReadsAreCurrent, [Next]_vars
  PROVE  ReadsAreCurrent'
  <1> USE ImageAssumption
  <1>1. TypeOK
    BY DEF IInv
  <1>2. SUFFICES ASSUME NEW s \in Sessions
                 PROVE  /\ pc'[s] = "show" => old'[s] # None
                        /\ /\ Alone(s)
                           /\ pc'[s] \in {"insert", "link", "clear", "show"}
                           => old'[s] = profile'[UserOf[s]]
    BY DEF ReadsAreCurrent, Alone
  <1>3. /\ pc[s] = "show" => old[s] # None
        /\ Alone(s) /\ pc[s] \in {"insert", "link", "clear", "show"} =>
             old[s] = profile[UserOf[s]]
    BY <1>2 DEF ReadsAreCurrent
  <1>4. ASSUME NEW t \in Sessions \ {s}, Step(t)
        PROVE  /\ pc'[s] = "show" => old'[s] # None
               /\ /\ Alone(s)
                  /\ pc'[s] \in {"insert", "link", "clear", "show"}
                  => old'[s] = profile'[UserOf[s]]
    <2>1. /\ pc'[s] = pc[s] /\ old'[s] = old[s]
          /\ UserOf[t] # UserOf[s] =>
               profile'[UserOf[s]] = profile[UserOf[s]]
      BY <1>1, <1>4, OthersStay
    <2> QED
      BY <1>3, <2>1 DEF Alone
  <1>5. CASE ChangeSelect(s) \/ RemoveSelect(s) \/ ShowSelect(s)
    BY <1>1, <1>5 DEF ChangeSelect, RemoveSelect, ShowSelect, ReadProfile, Goto,
                      TypeOK
  <1>6. CASE InsertImage(s)
    BY <1>1, <1>3, <1>6 DEF InsertImage, Goto, TypeOK
  <1>7. CASE \/ LinkImage(s) \/ DeleteOldImage(s) \/ ClearProfile(s)
             \/ DeleteRemovedImage(s) \/ ShowImage(s) \/ RequestDies(s)
    BY <1>1, <1>7 DEF LinkImage, DeleteOldImage, ClearProfile,
                      DeleteRemovedImage, ShowImage, RequestDies, EndRequest,
                      Goto, TypeOK
  <1>8. CASE UNCHANGED vars
    BY <1>3, <1>8 DEF vars
  <1> QED
    BY <1>4, <1>5, <1>6, <1>7, <1>8 DEF Next, Step

(* What explains that nobody shows picture i, which is in the table.       *)
LeftBehind(i) ==
  \/ i \in abandoned
  \/ i \in overtaken /\ \A s \in Sessions : UserOf[s] = images[i] => ~Alone(s)

HeldBy(i, s) ==
  /\ UserOf[s] = images[i]
  /\ \/ pc[s] = "link" /\ i = new[s]
     \/ pc[s] \in {"delete_old", "delete_removed"} /\ i = old[s]

(* A picture does not change its owner, and one that was left behind, or   *)
(* that a request of another session holds, still is.                      *)
LEMMA ExplanationsStay ==
  ASSUME TypeOK, NEW s \in Sessions, Step(s),
         NEW i \in DOMAIN images, i \in DOMAIN images'
  PROVE  /\ images'[i] = images[i]
         /\ LeftBehind(i) => LeftBehind(i)'
         /\ \A t \in Sessions \ {s} : HeldBy(i, t) => HeldBy(i, t)'
  <1> USE DEF TypeOK
  <1>1. /\ images'[i] = images[i]
        /\ abandoned \subseteq abandoned' /\ overtaken \subseteq overtaken'
    <2>1. CASE InsertImage(s)
      BY <2>1 DEF InsertImage
    <2>2. CASE LinkImage(s) \/ ClearProfile(s)
      BY <2>2 DEF LinkImage, ClearProfile, Overtake
    <2>3. CASE DeleteOldImage(s) \/ DeleteRemovedImage(s)
      BY <2>3 DEF DeleteOldImage, DeleteRemovedImage, Restrict
    <2>4. CASE \/ ChangeSelect(s) \/ RemoveSelect(s) \/ ShowSelect(s)
               \/ ShowImage(s) \/ RequestDies(s)
      BY <2>4 DEF ChangeSelect, RemoveSelect, ShowSelect, ShowImage,
                  RequestDies
    <2> QED
      BY <2>1, <2>2, <2>3, <2>4 DEF Step
  <1>2. LeftBehind(i) => LeftBehind(i)'
    BY <1>1 DEF LeftBehind, Alone
  <1>3. ASSUME NEW t \in Sessions \ {s}, HeldBy(i, t)
        PROVE  HeldBy(i, t)'
    <2>1. pc'[t] = pc[t] /\ old'[t] = old[t] /\ new'[t] = new[t]
      BY OthersStay
    <2> QED
      BY <1>1, <1>3, <2>1 DEF HeldBy
  <1> QED
    BY <1>1, <1>2, <1>3

(* The request that takes a picture from the profile deletes it next, or   *)
(* has read the profile before that picture was linked: then its user has  *)
(* another browser.                                                        *)
LEMMA DisplacedIsExplained ==
  ASSUME IInv, ReadsAreCurrent, NEW s \in Sessions,
         LinkImage(s) \/ ClearProfile(s),
         NEW i \in DOMAIN images, images[i] = UserOf[s],
         i = profile[UserOf[s]]
  PROVE  LeftBehind(i)' \/ HeldBy(i, s)'
  <1>1. /\ TypeOK /\ i # None /\ images' = images
    BY DEF IInv, TypeOK, None, LinkImage, ClearProfile
  <1>2. CASE i = old[s]
    <2>1. pc'[s] \in {"delete_old", "delete_removed"} /\ old'[s] = i
      BY <1>1, <1>2 DEF TypeOK, Goto, LinkImage, ClearProfile
    <2> QED
      BY <1>1, <2>1 DEF HeldBy
  <1>3. CASE i # old[s]
    <2>1. i \in overtaken'
      BY <1>1, <1>3 DEF LinkImage, ClearProfile, Overtake
    <2>2. ~Alone(s)
      BY <1>3 DEF ReadsAreCurrent, LinkImage, ClearProfile
    <2>3. \A t \in Sessions : UserOf[t] = UserOf[s] => ~Alone(t)
      BY <2>2 DEF Alone
    <2> QED
      BY <1>1, <2>1, <2>3 DEF LeftBehind, Alone
  <1> QED
    BY <1>2, <1>3

(* A step of one session keeps every picture nobody shows explained.       *)
LEMMA UnusedStep ==
  ASSUME IInv, ReadsAreCurrent, UnusedImagesAreTransient,
         NEW s \in Sessions, Step(s)
  PROVE  UnusedImagesAreTransient'
  <1> USE ImageAssumption
  <1>1. TypeOK
    BY DEF IInv
  <1>2. SUFFICES ASSUME NEW i \in DOMAIN images', i # profile'[images'[i]]
                 PROVE  LeftBehind(i)' \/ \E t \in Sessions : HeldBy(i, t)'
    BY DEF UnusedImagesAreTransient, LeftBehind, HeldBy, Alone
  <1>3. i \in DOMAIN images /\ i # profile[images[i]] =>
          LeftBehind(i) \/ \E t \in Sessions : HeldBy(i, t)
    BY DEF UnusedImagesAreTransient, LeftBehind, HeldBy, Alone
  <1>4. i \in DOMAIN images =>
          /\ images'[i] = images[i]
          /\ LeftBehind(i) => LeftBehind(i)'
          /\ \A t \in Sessions \ {s} : HeldBy(i, t) => HeldBy(i, t)'
    BY <1>1, ExplanationsStay
  <1>5. CASE ChangeSelect(s) \/ RemoveSelect(s) \/ ShowSelect(s)
    <2>1. images' = images /\ profile' = profile /\ pc[s] = "idle"
      BY <1>5 DEF ChangeSelect, RemoveSelect, ShowSelect
    <2>2. ~HeldBy(i, s)
      BY <2>1 DEF HeldBy
    <2> QED
      BY <1>2, <1>3, <1>4, <2>1, <2>2
  <1>6. CASE InsertImage(s)
    <2>1. CASE i = nextImage
      <3>1. HeldBy(i, s)'
        BY <1>1, <1>6, <2>1 DEF HeldBy, InsertImage, Goto, TypeOK
      <3> QED
        BY <3>1
    <2>2. CASE i # nextImage
      <3>1. i \in DOMAIN images /\ profile' = profile /\ pc[s] = "insert"
        BY <1>2, <1>6, <2>2 DEF InsertImage
      <3>2. ~HeldBy(i, s)
        BY <3>1 DEF HeldBy
      <3> QED
        BY <1>2, <1>3, <1>4, <3>1, <3>2
    <2> QED
      BY <2>1, <2>2
  <1>7. CASE LinkImage(s) \/ ClearProfile(s)
    <2>1. i \in DOMAIN images /\ images[i] \in Users
      BY <1>1, <1>7 DEF LinkImage, ClearProfile, TypeOK
    <2>2. CASE i = profile[images[i]] /\ images[i] = UserOf[s]
      BY <1>7, <2>1, <2>2, DisplacedIsExplained
    <2>3. CASE i = profile[images[i]] /\ images[i] # UserOf[s]
      BY <1>1, <1>2, <1>4, <1>7, <2>1, <2>3
         DEF LinkImage, ClearProfile, TypeOK
    <2>4. CASE i # profile[images[i]]
      <3>1. ~HeldBy(i, s)
        BY <1>1, <1>2, <1>4, <1>7, <2>1
           DEF HeldBy, LinkImage, ClearProfile, TypeOK
      <3> QED
        BY <1>3, <1>4, <2>1, <2>4, <3>1
    <2> QED
      BY <2>2, <2>3, <2>4
  <1>8. CASE DeleteOldImage(s) \/ DeleteRemovedImage(s)
    <2>1. i \in DOMAIN images /\ i # old[s] /\ profile' = profile
      BY <1>2, <1>8 DEF DeleteOldImage, DeleteRemovedImage, Restrict
    <2>2. ~HeldBy(i, s)
      BY <1>8, <2>1 DEF HeldBy, DeleteOldImage, DeleteRemovedImage
    <2> QED
      BY <1>2, <1>3, <1>4, <2>1, <2>2
  <1>9. CASE ShowImage(s)
    <2>1. images' = images /\ profile' = profile /\ pc[s] = "show"
      BY <1>9 DEF ShowImage
    <2>2. ~HeldBy(i, s)
      BY <2>1 DEF HeldBy
    <2> QED
      BY <1>2, <1>3, <1>4, <2>1, <2>2
  <1>10. CASE RequestDies(s)
    <2>1. images' = images /\ profile' = profile
      BY <1>10 DEF RequestDies
    <2>2. HeldBy(i, s) => i \in abandoned'
      BY <1>10 DEF HeldBy, RequestDies
    <2>3. i \in abandoned' => LeftBehind(i)'
      BY DEF LeftBehind
    <2> QED
      BY <1>2, <1>3, <1>4, <2>1, <2>2, <2>3
  <1> QED
    BY <1>5, <1>6, <1>7, <1>8, <1>9, <1>10 DEF Step

(* For every user, a picture nobody shows belongs to a request of that     *)
(* user on its way, or was left by a request that died, or was replaced by *)
(* a request that had read an older picture: the last only for a user who  *)
(* is logged in in several browsers.                                       *)
THEOREM UnusedAreExplained == Spec => []UnusedImagesAreTransient
  <1>1. Init => ReadsAreCurrent /\ UnusedImagesAreTransient
    BY DEF Init, ReadsAreCurrent, UnusedImagesAreTransient
  <1>2. IInv /\ ReadsAreCurrent /\ UnusedImagesAreTransient /\ [Next]_vars =>
          ReadsAreCurrent' /\ UnusedImagesAreTransient'
    <2> SUFFICES ASSUME IInv, ReadsAreCurrent, UnusedImagesAreTransient,
                        [Next]_vars
                 PROVE  ReadsAreCurrent' /\ UnusedImagesAreTransient'
      OBVIOUS
    <2>1. ReadsAreCurrent'
      BY ReadsStep
    <2>2. CASE UNCHANGED vars
      BY <2>1, <2>2 DEF vars, UnusedImagesAreTransient
    <2>3. CASE \E s \in Sessions : Step(s)
      BY <2>1, <2>3, UnusedStep
    <2> QED
      BY <2>2, <2>3 DEF Next, Step
  <1> QED
    BY InitIInv, NextIInv, <1>1, <1>2, PTL DEF Spec

(* A view never gets a broken picture, except when another browser of the  *)
(* same user has meanwhile changed the picture to another one or to none.  *)
THEOREM ShownExists == Spec => []ShownImageExists
  <1>1. Init => ReadsAreCurrent
    BY DEF Init, ReadsAreCurrent
  <1>2. IInv /\ ReadsAreCurrent /\ [Next]_vars => ReadsAreCurrent'
    BY ReadsStep
  <1>3. IInv /\ ReadsAreCurrent => ShownImageExists
    BY ImageAssumption
       DEF IInv, ProfileImageExists, ReadsAreCurrent, ShownImageExists
  <1> QED
    BY InitIInv, NextIInv, <1>1, <1>2, <1>3, PTL DEF Spec
=============================================================================
