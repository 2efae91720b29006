-------------------------- MODULE ProductImages_proofs --------------------------
(***************************************************************************)
(* No overlap, failure or stop of uploads and removals makes the row name  *)
(* a file that was deleted, unless an answer of the database was lost; and *)
(* at rest no other file is left than those the module calls stray, and no *)
(* temporary file than those it calls torn.                                *)
(*                                                                         *)
(* The file a request is about to delete is either the one it found, which *)
(* its own commit has taken from the row, or its own, which never reached  *)
(* the row.  A name that has left the row never returns to it, because a   *)
(* name is written once, by the request that drew it.                      *)
(***************************************************************************)
EXTENDS ProductImages, TLAPS

Running(h) == work[h] \in Requests

\* What a request holds at each point of its way.
WellFormed(h) ==
  /\ work[h].new \in used \cup {NoImage} /\ work[h].old \in used \cup {NoImage}
  /\ work[h].pc = "read" => work[h].new = NoImage
  /\ work[h].pc \in {"writing", "stored", "failed"} => Uploads(h) /\ work[h].new # NoImage
  /\ work[h].pc \in {"checked", "committed"} => (Uploads(h) <=> work[h].new # NoImage)

\* A name that is not committed yet is known to its request only, and on disk
\* once it is stored.
NewNameIsFresh(h) ==
  work[h].new # NoImage /\ work[h].pc \in {"writing", "stored", "checked"} =>
    /\ work[h].pc # "writing" => work[h].new \in disk
    /\ work[h].new # image
    /\ \A g \in Handlers : Running(g) => work[g].old # work[h].new

NewNamesDiffer(g, h) == work[g].new = work[h].new => work[g].new = NoImage \/ g = h

\* What a request is about to delete is not in the row.
DeletesNothingNamed(h) ==
  /\ work[h].pc = "committed" => work[h].old = NoImage \/ work[h].old # image
  /\ work[h].pc = "failed" => work[h].new \in lost \/ work[h].new # image

\* Every file is the row's, given up, or still to be cleared by a request.
Clears(h, f) == \/ work[h].pc \in {"stored", "checked", "failed"} /\ work[h].new = f
                \/ work[h].pc = "committed" /\ work[h].old = f

EveryFileHasAnOwner ==
  \A f \in disk : \/ f \in {image} \cup stray
                  \/ \E h \in Handlers : Running(h) /\ Clears(h, f)

\* Every temporary file is given up or about to be renamed.
EveryTemporaryHasAnOwner ==
  \A f \in temps : \/ f \in torn
                   \/ \E h \in Handlers : Running(h) /\ work[h].pc = "writing" /\ work[h].new = f

IInv ==
  /\ TypeOK
  /\ image \in used \cup {NoImage}
  /\ OnlyLostAnswersLoseFiles
  /\ EveryFileHasAnOwner
  /\ EveryTemporaryHasAnOwner
  /\ \A h \in Handlers : Running(h) => WellFormed(h) /\ NewNameIsFresh(h) /\ DeletesNothingNamed(h)
  /\ \A g, h \in Handlers : Running(g) /\ Running(h) => NewNamesDiffer(g, h)

\* No request runs and no file exists.
LEMMA Initially == Init => IInv
BY NoImageAssumption, BoundsAssumption
   DEF Init, IInv, TypeOK, OnlyLostAnswersLoseFiles, EveryFileHasAnOwner,
       EveryTemporaryHasAnOwner, Running, Requests, Idle

\* One step per action; for each, the requests other than its own hold other
\* names.
LEMMA Inductive == IInv /\ [Next]_vars => IInv'
<1> SUFFICES ASSUME IInv, [Next]_vars PROVE IInv'
  OBVIOUS
<1> USE NoImageAssumption, BoundsAssumption
<1>1. CASE UNCHANGED vars
  BY <1>1 DEF IInv, TypeOK, OnlyLostAnswersLoseFiles, Running, WellFormed, NewNameIsFresh,
              NewNamesDiffer, DeletesNothingNamed, EveryFileHasAnOwner, EveryTemporaryHasAnOwner, Clears,
              Uploads, history, vars
<1>2. CASE DeleteOrRestore
  BY <1>2 DEF IInv, TypeOK, OnlyLostAnswersLoseFiles, Running, WellFormed, NewNameIsFresh,
              NewNamesDiffer, DeletesNothingNamed, EveryFileHasAnOwner, EveryTemporaryHasAnOwner, Clears,
              Uploads, history, DeleteOrRestore
<1>3. ASSUME NEW h \in Handlers, Handle(h)
      PROVE  IInv'
  <2> USE DEF history, IInv, TypeOK, OnlyLostAnswersLoseFiles, Running, WellFormed, NewNameIsFresh,
              NewNamesDiffer, DeletesNothingNamed, EveryFileHasAnOwner, EveryTemporaryHasAnOwner, Clears,
              Uploads
  <2>1. ASSUME NEW kind \in {"upload", "remove"}, Begin(h, kind) PROVE IInv'
    BY <2>1 DEF Begin, Requests, Idle
  <2>2. CASE WriteTemporary(h)
    BY <2>2 DEF WriteTemporary, At, Requests, Idle
  <2>3. CASE Rename(h)
    BY <2>3 DEF Rename, At, Goto, Requests, Idle
  <2>4. CASE FailToStore(h)
    BY <2>4 DEF FailToStore, At, Finish, Requests, Idle
  <2>5. CASE Recheck(h)
    BY <2>5 DEF Recheck, Ready, At, Goto, Requests, Idle
  <2>6. CASE Fail(h)
    BY <2>6 DEF Fail, Goto, Finish, Requests, Idle
  <2>7. CASE CommitImage(h)
    <3> USE <2>7 DEF CommitImage, At, Goto
    <3>1. Running(h) /\ work'[h] = [work[h] EXCEPT !.pc = "committed"] /\ work'[h] \in Requests
      BY DEF Requests, Idle
    <3>2. \A g \in Handlers \ {h} : work'[g] = work[g]
      OBVIOUS
    <3>3. TypeOK' /\ image' \in used' \cup {NoImage} /\ OnlyLostAnswersLoseFiles'
      BY <3>1 DEF Requests, Idle
    <3>4. ASSUME NEW f \in disk
          PROVE  \/ f \in {image'} \cup stray'
                 \/ \E g \in Handlers : Running(g)' /\ Clears(g, f)'
      <4>1. CASE f \in stray
        BY <4>1
      <4>2. CASE f = image
        <5>1. CASE f \in {work[h].old, image'}
          BY <3>1, <4>2, <5>1 DEF Requests
        <5>2. CASE f \notin {work[h].old, image'}
          BY <4>2, <5>2
        <5>3. QED
          BY <5>1, <5>2
      <4>3. ASSUME NEW g \in Handlers, Running(g), Clears(g, f), g # h
            PROVE  Running(g)' /\ Clears(g, f)'
        BY <3>2, <4>3
      <4>4. CASE Clears(h, f)
        BY <3>1, <4>4
      <4>5. QED
        BY <4>1, <4>2, <4>3, <4>4
    <3>5. \A g \in Handlers : Running(g)' => /\ WellFormed(g)'
                                            /\ NewNameIsFresh(g)'
                                            /\ DeletesNothingNamed(g)'
      BY <3>1, <3>2 DEF Requests
    <3>6. \A g, k \in Handlers : Running(g)' /\ Running(k)' => NewNamesDiffer(g, k)'
      BY <3>1, <3>2 DEF Requests
    <3>7. EveryFileHasAnOwner'
      BY <3>4
    <3>8. EveryTemporaryHasAnOwner'
      BY <3>1, <3>2 DEF Requests
    <3> HIDE <2>7 DEF CommitImage, At, Goto, TypeOK, Running, WellFormed, NewNameIsFresh,
             NewNamesDiffer, DeletesNothingNamed, OnlyLostAnswersLoseFiles,
             EveryFileHasAnOwner, EveryTemporaryHasAnOwner
    <3>9. QED
      BY <3>3, <3>5, <3>6, <3>7, <3>8
  <2>8. CASE LoseAnswer(h)
    BY <2>8 DEF LoseAnswer, At, Goto, Finish, Requests, Idle
  <2>9. CASE Discard(h)
    BY <2>9 DEF Discard, At, Finish, Requests, Idle
  <2>10. CASE DeleteOld(h)
    BY <2>10 DEF DeleteOld, At, Finish, Requests, Idle
  <2>11. CASE Stop(h)
    <3> USE <2>11 DEF Stop, Finish, Left
    <3>1. Running(h) /\ ~Running(h)' /\ \A g \in Handlers \ {h} : work'[g] = work[g]
      BY DEF Requests, Idle
    <3>2. TypeOK'
      BY DEF Requests, At
    <3>3. ASSUME NEW f \in disk
          PROVE  \/ f \in {image'} \cup stray'
                 \/ \E g \in Handlers : Running(g)' /\ Clears(g, f)'
      <4>1. CASE Clears(h, f)
        BY <3>1, <4>1 DEF At, Requests
      <4>2. ASSUME NEW g \in Handlers, Running(g), Clears(g, f), g # h
            PROVE  Running(g)' /\ Clears(g, f)'
        BY <3>1, <4>2
      <4>3. QED
        BY <4>1, <4>2
    <3>4. EveryFileHasAnOwner'
      BY <3>3
    <3>5. EveryTemporaryHasAnOwner'
      BY <3>1 DEF At, Requests
    <3>6. QED
      BY <3>1, <3>2, <3>4, <3>5
  <2>12. QED
    BY <1>3, <2>1, <2>2, <2>3, <2>4, <2>5, <2>6, <2>7, <2>8, <2>9, <2>10, <2>11
       DEF Handle
<1>4. QED
  BY <1>1, <1>2, <1>3 DEF Next

\* The inductive invariant holds in every reachable state, for any number of
\* overlapping uploads and removals, with failures and stops.
THEOREM ImagesInvariance == Spec => []IInv
BY Initially, Inductive, PTL DEF Spec

\* Rows, files and requests in flight keep their types.
THEOREM ImagesTypeCorrect == Spec => []TypeOK
<1>1. IInv => TypeOK
  BY DEF IInv
<1>2. QED
  BY <1>1, ImagesInvariance, PTL

\* The row names no image or one that is on disk, unless the answer to the
\* upload's commit was lost: set_image, then delete_product_image.
THEOREM NamedFilesAreKept == Spec => []OnlyLostAnswersLoseFiles
<1>1. IInv => OnlyLostAnswersLoseFiles
  BY DEF IInv
<1>2. QED
  BY <1>1, ImagesInvariance, PTL

\* At rest the only images besides the row's are those taken from the row
\* unread and those of requests that were cut off or lost an answer, and the only
\* temporary files those of uploads whose storing failed or was cut off.
THEOREM OnlyStrayFilesStay == Spec => []NoOtherFileLeftBehind
<1>1. IInv => NoOtherFileLeftBehind
  <2> SUFFICES ASSUME IInv, \A h \in Handlers : work[h] = Idle
               PROVE  disk \subseteq {image} \cup stray /\ temps \subseteq torn
    BY DEF NoOtherFileLeftBehind
  <2>1. \A h \in Handlers : ~Running(h)
    BY DEF Running, Requests, Idle
  <2>2. QED
    BY <2>1 DEF IInv, EveryFileHasAnOwner, EveryTemporaryHasAnOwner
<1>2. QED
  BY <1>1, ImagesInvariance, PTL
=============================================================================
