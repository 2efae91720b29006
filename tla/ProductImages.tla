----------------------------- MODULE ProductImages -----------------------------
(***************************************************************************)
(* The picture of one product: a column of its row and a file beside the   *)
(* database, which no transaction covers (app/api/products.py,             *)
(* app/services/media.py).  Products share nothing, so one is enough.      *)
(*                                                                         *)
(* An upload stores a file under a new name, writes the name to the row    *)
(* and removes the file the row named when the upload began; a removal     *)
(* writes none and removes that file.  A file is stored by writing a       *)
(* temporary one and renaming it, outside the try whose handler clears     *)
(* away: an error there answers the request and leaves the temporary file. *)
(* Requests overlap at every await and between the two calls.              *)
(***************************************************************************)
EXTENDS Naturals, FiniteSets

CONSTANTS
  Handlers,    \* requests in progress at the same time
  Files,       \* bound: names uuid4 hands out in one behaviour
  NoImage,     \* image_url is NULL
  MaxRequests  \* bound: requests begun in one behaviour

ASSUME NoImageAssumption == NoImage \notin Files
ASSUME BoundsAssumption == MaxRequests \in Nat

VARIABLES
  image,   \* committed image_url
  live,    \* the product is not deleted
  disk,    \* images in media_root/products
  temps,   \* their temporary files there, .<name>.tmp
  work,    \* the request each handler runs
  used,    \* names handed out
  lost,    \* history: names whose commit succeeded without the answer arriving
  stray,   \* history: names a request knew last and did not clear away
  torn,    \* history: names whose storing failed or was cut off
  begun    \* requests begun so far

history == <<lost, stray, torn>>
vars == <<image, live, disk, temps, work, used, history, begun>>

Idle == [pc |-> "idle"]
Requests == [pc : {"read", "writing", "stored", "checked", "committed", "failed"},
             kind : {"upload", "remove"},
             old : Files \cup {NoImage}, new : Files \cup {NoImage}]

TypeOK == /\ image \in Files \cup {NoImage}
          /\ live \in BOOLEAN
          /\ used \subseteq Files
          /\ {disk, temps, lost, stray, torn} \subseteq SUBSET used
          /\ work \in [Handlers -> {Idle} \cup Requests]
          /\ begun \in 0 .. MaxRequests

Init == /\ image = NoImage /\ live = TRUE
        /\ disk = {} /\ temps = {} /\ used = {} /\ lost = {} /\ stray = {} /\ torn = {}
        /\ work = [h \in Handlers |-> Idle]
        /\ begun = 0

Uploads(h) == work[h].kind = "upload"
At(h, pc) == work[h].pc = pc
Finish(h) == work' = [work EXCEPT ![h] = Idle]
Goto(h, pc) == work' = [work EXCEPT ![h].pc = pc]

\* The handler's first read, which only finds a live product.
Begin(h, kind) ==
  /\ work[h] = Idle /\ live /\ begun < MaxRequests
  /\ begun' = begun + 1
  /\ work' = [work EXCEPT ![h] = [pc |-> "read", kind |-> kind,
                                  old |-> image, new |-> NoImage]]
  /\ UNCHANGED <<image, live, disk, temps, used, history>>

\* Mutant of WriteTemporary: the name is not kept.
WriteUnnamed(h) ==
  /\ At(h, "read") /\ Uploads(h)
  /\ \E f \in Files \ used :
       /\ temps' = temps \cup {f}
       /\ work' = [work EXCEPT ![h].pc = "writing", ![h].new = f]
  /\ UNCHANGED <<image, live, disk, used, history, begun>>

\* store_product_image up to write_bytes, whole or not.
WriteTemporary(h) ==
  /\ At(h, "read") /\ Uploads(h)
  /\ \E f \in Files \ used :
       /\ used' = used \cup {f}
       /\ temps' = temps \cup {f}
       /\ work' = [work EXCEPT ![h].pc = "writing", ![h].new = f]
  /\ UNCHANGED <<image, live, disk, history, begun>>

\* Mutant of Rename: the new file takes the old one's place before the row is
\* written.
RenameInPlace(h) ==
  /\ At(h, "writing")
  /\ temps' = temps \ {work[h].new}
  /\ disk' = (disk \ {work[h].old}) \cup {work[h].new}
  /\ Goto(h, "stored")
  /\ UNCHANGED <<image, live, used, history, begun>>

Rename(h) ==
  /\ At(h, "writing")
  /\ temps' = temps \ {work[h].new}
  /\ disk' = disk \cup {work[h].new}
  /\ Goto(h, "stored")
  /\ UNCHANGED <<image, live, used, history, begun>>

\* An OSError of write_bytes or replace: the caller's try has not begun.  (One
\* before there is a temporary file is a Fail.)
FailToStore(h) ==
  /\ At(h, "writing")
  /\ Finish(h)
  /\ torn' = torn \cup {work[h].new}
  /\ UNCHANGED <<image, live, disk, temps, used, lost, stray, begun>>

\* set_image reads the row again: only to see that it is still there, for the
\* session returns the copy it has.
Ready(h) == At(h, IF Uploads(h) THEN "stored" ELSE "read")

Recheck(h) ==
  /\ work[h] # Idle /\ Ready(h) /\ live
  /\ Goto(h, "checked")
  /\ UNCHANGED <<image, live, disk, temps, used, history, begun>>

\* PRODUCT_NOT_FOUND, or any exception up to the commit, an invalid image
\* included; only a stored file has something to undo.
Fail(h) ==
  /\ work[h] # Idle /\ work[h].pc \in {"read", "stored", "checked"}
  /\ IF work[h].new # NoImage THEN Goto(h, "failed") ELSE Finish(h)
  /\ UNCHANGED <<image, live, disk, temps, used, history, begun>>

\* A column is written when its new value differs from the one the session
\* loaded, which need not be the one the row has now.
CommitImage(h) ==
  /\ At(h, "checked")
  /\ image' = IF work[h].new # work[h].old THEN work[h].new ELSE image
  /\ Goto(h, "committed")
  /\ stray' = stray \cup ({image} \ {work[h].old, image', NoImage})
  /\ UNCHANGED <<live, disk, temps, used, lost, torn, begun>>

\* set_image raises after the commit has reached the database: the commit's
\* answer is lost, or refresh fails.
LoseAnswer(h) ==
  /\ At(h, "committed")
  /\ IF Uploads(h) THEN Goto(h, "failed") ELSE Finish(h)
  /\ lost' = lost \cup ({work[h].new} \ {NoImage})
  /\ stray' = stray \cup ({work[h].old} \ {NoImage})
  /\ UNCHANGED <<image, live, disk, temps, used, torn, begun>>

\* Mutant of Discard: the stored file of a failed upload is forgotten.
DiscardNothing(h) ==
  /\ At(h, "failed")
  /\ Finish(h)
  /\ UNCHANGED <<image, live, disk, temps, used, history, begun>>

Discard(h) ==
  /\ At(h, "failed")
  /\ disk' = disk \ {work[h].new}
  /\ Finish(h)
  /\ UNCHANGED <<image, live, temps, used, history, begun>>

DeleteOld(h) ==
  /\ At(h, "committed")
  /\ disk' = disk \ {work[h].old}
  /\ Finish(h)
  /\ UNCHANGED <<image, live, temps, used, history, begun>>

\* What a request leaves behind when it goes no further.
Left(h) == {IF At(h, "committed") THEN work[h].old ELSE work[h].new} \ {NoImage}

\* The server stops, the request is cancelled, or a file cannot be unlinked:
\* what was not committed is rolled back, what was stored stays.
Stop(h) ==
  /\ work[h] # Idle
  /\ Finish(h)
  /\ IF At(h, "writing")
     THEN torn' = torn \cup Left(h) /\ UNCHANGED stray
     ELSE stray' = stray \cup Left(h) /\ UNCHANGED torn
  /\ UNCHANGED <<image, live, disk, temps, used, lost, begun>>

\* DELETE /products/{id} and POST /products/{id}/restore, which keep the image.
DeleteOrRestore ==
  /\ live' = ~live
  /\ UNCHANGED <<image, disk, temps, work, used, history, begun>>

Handle(h) == \/ \E kind \in {"upload", "remove"} : Begin(h, kind)
             \/ WriteTemporary(h) \/ Rename(h) \/ FailToStore(h)
             \/ Recheck(h) \/ Fail(h) \/ CommitImage(h)
             \/ LoseAnswer(h) \/ Discard(h) \/ DeleteOld(h) \/ Stop(h)

Next == DeleteOrRestore \/ \E h \in Handlers : Handle(h)

Spec == Init /\ [][Next]_vars

(***************************************************************************)
(* Properties                                                              *)
(***************************************************************************)

\* The file a product names can be served, whatever requests overlap, fail or
\* stop half way, unless its upload lost an answer: overlapping uploads and
\* removals never delete a file another request has put in the row.
OnlyLostAnswersLoseFiles == image \in disk \cup lost \cup {NoImage}

\* "test_product_image_upload_and_remove" counts the files: one after an upload
\* or a replacement, none after a removal.  At rest, no image is left that the
\* row does not name, but for those that a commit took from the row without
\* having read them, and those of requests that were cut off or lost an answer;
\* and no temporary file but those of uploads whose storing failed or was cut
\* off, which nothing removes.
NoOtherFileLeftBehind ==
  (\A h \in Handlers : work[h] = Idle) =>
    disk \subseteq {image} \cup stray /\ temps \subseteq torn
=============================================================================
