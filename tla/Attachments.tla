----------------------------- MODULE Attachments -----------------------------
(***************************************************************************)
(* The photos and videos of a submission: which of them are accepted when  *)
(* it is saved, and how their rows and their assets in Cloudinary go when  *)
(* an attachment or the whole submission is removed from the dashboard.    *)
(*                                                                         *)
(* The visitor's browser uploads to Cloudinary first and then names the    *)
(* assets in the form.  A name that was made up fails its verification     *)
(* like one whose check fails, and is not told apart from it.  An asset    *)
(* is named by one submission only (cloudinaryPublicId is unique).  How    *)
(* the submission reaches ClickUp meanwhile is FeedbackDelivery's.         *)
(***************************************************************************)
EXTENDS Naturals, Sequences, FiniteSetsExt

CONSTANTS
    Submission,         \* submissions
    File,               \* what may be attached: [kind, allowed, bytes]
    Remover,            \* removals that may run at once
    NoSubmission,       \* no submission
    MAX_ATTACHMENTS,    \* 5 in the code
    MAX_IMAGE_BYTES,    \* 10 MB
    MAX_VIDEO_BYTES,    \* 50 MB
    MAX_TOTAL_BYTES,    \* 60 MB
    MAX_VIDEOS_PER_SUBMISSION,  \* 1
    MaxMediaFailures    \* bound: calls that fail, and restarts

ASSUME AttachmentAssumption ==
    /\ \A m \in File : /\ m.kind \in {"IMAGE", "VIDEO"}
                       /\ m.allowed \in BOOLEAN
                       /\ m.bytes \in Nat
    /\ NoSubmission \notin Submission
    /\ {MAX_ATTACHMENTS, MAX_IMAGE_BYTES, MAX_VIDEO_BYTES, MAX_TOTAL_BYTES,
        MAX_VIDEOS_PER_SUBMISSION, MaxMediaFailures} \subseteq Nat

VARIABLES
    form,       \* the attachments each form names, in order
    asset,      \* Cloudinary: <<submission, position>> of the assets there are
    request,    \* each submission's request between two awaits
    saved,      \* whether feedback_submissions has the submission's row
    media,      \* feedback_media: the status of each position that has a row
    answer,     \* the media of the response, each with whether a reason is shown
    discard,    \* removals between two awaits
    mediaFailures,  \* failures the environment has left
    spared,     \* auxiliary: assets whose destruction failed
    cutShort    \* auxiliary: attachments of a removal that did not get to its rows

attachmentVars == <<form, asset, request, saved, media, answer, discard,
                    mediaFailures, spared, cutShort>>

Position == 1 .. MAX_ATTACHMENTS
Place == Submission \X Position
Form == UNION {[1 .. n -> File] : n \in 0 .. MAX_ATTACHMENTS}
MediaStatus == {"VERIFIED", "REJECTED"}
Answered == [status : MediaStatus, reason : BOOLEAN]

NoRequest == [pc |-> "new", found |-> {}, verified |-> {}]
NoDiscard == [pc |-> "idle", what |-> "media", f |-> NoSubmission, items |-> {}, left |-> {}]

AttachmentTypeOK ==
    /\ form \in [Submission -> Form]
    /\ asset \subseteq Place
    /\ request \in [Submission -> [pc : {"new", "insert", "deliver", "ended"},
                                   found : SUBSET Position,
                                   verified : SUBSET Position]]
    /\ saved \in [Submission -> {"none", "stored", "removed"}]
    /\ DOMAIN media = Submission
    /\ \A f \in Submission :
          /\ DOMAIN media[f] \subseteq DOMAIN form[f]
          /\ \A i \in DOMAIN media[f] : media[f][i] \in MediaStatus
          /\ saved[f] # "stored" => media[f] = <<>>
    /\ answer \in [Submission -> Seq(Answered)]
    /\ discard \in [Remover -> [pc : {"idle", "destroy"}, what : {"media", "feedback"},
                                f : Submission \cup {NoSubmission},
                                items : SUBSET Position, left : SUBSET Position]]
    /\ mediaFailures \in 0 .. MaxMediaFailures
    /\ spared \subseteq Place
    /\ cutShort \subseteq Place

AttachmentInit ==
    /\ form \in [Submission -> Form]
    /\ asset = {p \in Place : p[2] \in DOMAIN form[p[1]]}
    /\ request = [f \in Submission |-> NoRequest]
    /\ saved = [f \in Submission |-> "none"]
    /\ media = [f \in Submission |-> <<>>]
    /\ answer = [f \in Submission |-> <<>>]
    /\ discard = [r \in Remover |-> NoDiscard]
    /\ mediaFailures = MaxMediaFailures
    /\ spared = {}
    /\ cutShort = {}

-----------------------------------------------------------------------------
(* Which attachments are accepted *)

MaxBytes(kind) == IF kind = "IMAGE" THEN MAX_IMAGE_BYTES ELSE MAX_VIDEO_BYTES

\* Mutant: one video too many.
Acceptable_OneMoreVideo(m, before) ==
    /\ m.allowed
    /\ m.bytes <= MaxBytes(m.kind)
    /\ m.kind = "VIDEO" => before.videos <= MAX_VIDEOS_PER_SUBMISSION
    /\ before.bytes + m.bytes <= MAX_TOTAL_BYTES

\* An attachment that was verified passes the checks, after what was accepted
\* before it.
Acceptable(m, before) ==
    /\ m.allowed
    /\ m.bytes <= MaxBytes(m.kind)
    /\ m.kind = "VIDEO" => before.videos < MAX_VIDEOS_PER_SUBMISSION
    /\ before.bytes + m.bytes <= MAX_TOTAL_BYTES

Counted(m, before) ==
    [bytes    |-> before.bytes + m.bytes,
     videos   |-> before.videos + (IF m.kind = "VIDEO" THEN 1 ELSE 0),
     verified |-> before.verified]

\* Mutant: what is refused counts, too.
Accepted_CountsRefused(files, found) ==
    LET count[n \in 0 .. Len(files)] ==
            IF n = 0 THEN [bytes |-> 0, videos |-> 0, verified |-> {}]
            ELSE LET before == count[n - 1]
                     after  == Counted(files[n], before)
                 IN  IF n \in found /\ Acceptable(files[n], before)
                     THEN [after EXCEPT !.verified = @ \cup {n}]
                     ELSE IF n \in found THEN after ELSE before
    IN  count[Len(files)].verified

\* The loop over the attachments in the form's order, with its two counters.
Accepted(files, found) ==
    LET count[n \in 0 .. Len(files)] ==
            IF n = 0 THEN [bytes |-> 0, videos |-> 0, verified |-> {}]
            ELSE LET before == count[n - 1] IN
                 IF n \in found /\ Acceptable(files[n], before)
                 THEN [Counted(files[n], before) EXCEPT !.verified = @ \cup {n}]
                 ELSE before
    IN  count[Len(files)].verified

-----------------------------------------------------------------------------
(* submit *)

MediaFails ==
    /\ mediaFailures > 0
    /\ mediaFailures' = mediaFailures - 1

\* Promise.all of verifyResource, which takes every error for "not there".
VerifyMedia(f) ==
    LET there == {i \in DOMAIN form[f] : <<f, i>> \in asset} IN
    /\ request[f].pc = "new"
    /\ \E found \in {there} \cup {there \ {i} : i \in there} :
          /\ request' = [request EXCEPT ![f] =
                [pc |-> "insert", found |-> found, verified |-> Accepted(form[f], found)]]
          /\ IF found = there THEN UNCHANGED mediaFailures ELSE MediaFails
    /\ UNCHANGED <<form, asset, saved, media, answer, discard, spared, cutShort>>

\* The row and its media are inserted together.
SaveSubmission(f) ==
    /\ request[f].pc = "insert"
    /\ request' = [request EXCEPT ![f].pc = "deliver"]
    /\ saved' = [saved EXCEPT ![f] = "stored"]
    /\ media' = [media EXCEPT ![f] = [i \in DOMAIN form[f] |->
                    IF i \in request[f].verified THEN "VERIFIED" ELSE "REJECTED"]]
    /\ UNCHANGED <<form, asset, answer, discard, mediaFailures, spared, cutShort>>

\* Mutant: a reason is pushed for refused attachments only.
Reasons_OfRefused(f) ==
    [n \in 1 .. Len(form[f]) |->
        n <= Cardinality(DOMAIN form[f] \ request[f].verified)]

\* rejectionReasons: whether the n-th attachment of the form was given one.
Reasons(f) == [n \in 1 .. Len(form[f]) |-> n \notin request[f].verified]

\* The n-th of the positions, in the order the nested create inserted them.
Nth(positions, n) ==
    CHOOSE i \in positions : Cardinality({j \in positions : j <= i}) = n

\* The delivery is over.  The rows are read again, and the n-th of them gets
\* the n-th reason; a submission removed meanwhile makes findUniqueOrThrow throw.
Respond(f) ==
    LET rows == DOMAIN media[f] IN
    /\ request[f].pc = "deliver"
    /\ request' = [request EXCEPT ![f].pc = "ended"]
    /\ \/ /\ saved[f] = "stored"
          /\ answer' = [answer EXCEPT ![f] =
                [n \in 1 .. Cardinality(rows) |->
                    [status |-> media[f][Nth(rows, n)], reason |-> Reasons(f)[n]]]]
       \/ saved[f] = "removed" /\ UNCHANGED answer
    /\ UNCHANGED <<form, asset, saved, media, discard, mediaFailures, spared, cutShort>>

\* The insert or createInitialJob throws.
RequestFails(f) ==
    /\ request[f].pc \in {"insert", "deliver"}
    /\ MediaFails
    /\ request' = [request EXCEPT ![f].pc = "ended"]
    /\ UNCHANGED <<form, asset, saved, media, answer, discard, spared, cutShort>>

-----------------------------------------------------------------------------
(* AdminMediaService.remove and AdminFeedbackService.remove *)

\* The attachment is found, whatever its status, or the request ends with 404.
FindMedia(r, f, i) ==
    /\ discard[r].pc = "idle"
    /\ i \in DOMAIN media[f]
    /\ discard' = [discard EXCEPT ![r] =
          [pc |-> "destroy", what |-> "media", f |-> f, items |-> {i}, left |-> {i}]]
    /\ UNCHANGED <<form, asset, request, saved, media, answer, mediaFailures, spared,
                   cutShort>>

\* Mutant: only what was accepted is read with the submission.
MediaOf_Verified(f) == {i \in DOMAIN media[f] : media[f][i] = "VERIFIED"}

\* include: { media: true }
MediaOf(f) == DOMAIN media[f]

\* The submission is found with its media.  (Its ticket is deleted first.)
FindSubmission(r, f) ==
    /\ discard[r].pc = "idle"
    /\ saved[f] = "stored"
    /\ discard' = [discard EXCEPT ![r] =
          [pc |-> "destroy", what |-> "feedback", f |-> f,
           items |-> MediaOf(f), left |-> MediaOf(f)]]
    /\ UNCHANGED <<form, asset, request, saved, media, answer, mediaFailures, spared,
                   cutShort>>

\* One after the other; a failure is only logged.
DestroyNext(r) ==
    LET i == CHOOSE n \in discard[r].left : \A j \in discard[r].left : n <= j
        p == <<discard[r].f, i>>
    IN
    /\ discard[r].pc = "destroy"
    /\ discard[r].left # {}
    /\ discard' = [discard EXCEPT ![r].left = @ \ {i}]
    /\ \/ /\ asset' = asset \ {p}
          /\ UNCHANGED <<mediaFailures, spared>>
       \/ /\ MediaFails
          /\ spared' = spared \cup {p}
          /\ UNCHANGED asset
    /\ UNCHANGED <<form, request, saved, media, answer, cutShort>>

ItemsOf(r) == {discard[r].f} \X discard[r].items

\* Mutant: the foreign key of media is not ON DELETE CASCADE.
CascadedTo_Nothing(f) == media[f]

\* The media rows a submission's deletion leaves.
CascadedTo(f) == <<>>

\* The attachment's row, or the submission's and with it all of its media's; a
\* row already gone makes delete throw.
DeleteRows(r) ==
    LET f == discard[r].f IN
    /\ discard[r].pc = "destroy"
    /\ discard[r].left = {}
    /\ discard' = [discard EXCEPT ![r] = NoDiscard]
    /\ \/ /\ discard[r].what = "media"
          /\ media' = [media EXCEPT ![f] =
                [i \in DOMAIN media[f] \ discard[r].items |-> media[f][i]]]
          /\ UNCHANGED <<saved, mediaFailures, cutShort>>
       \/ /\ discard[r].what = "feedback"
          /\ saved' = [saved EXCEPT ![f] = "removed"]
          /\ media' = [media EXCEPT ![f] = CascadedTo(f)]
          /\ UNCHANGED <<mediaFailures, cutShort>>
       \/ /\ MediaFails
          /\ cutShort' = cutShort \cup ItemsOf(r)
          /\ UNCHANGED <<saved, media>>
    /\ UNCHANGED <<form, asset, request, answer, spared>>

\* The process restarts.
RestartOfMedia ==
    /\ MediaFails
    /\ request' = [f \in Submission |->
          IF request[f].pc = "new" THEN request[f] ELSE [request[f] EXCEPT !.pc = "ended"]]
    /\ discard' = [r \in Remover |-> NoDiscard]
    /\ cutShort' = cutShort \cup UNION {ItemsOf(r) : r \in Remover}
    /\ UNCHANGED <<form, asset, saved, media, answer, spared>>

AttachmentNext ==
    \/ \E f \in Submission :
          VerifyMedia(f) \/ SaveSubmission(f) \/ Respond(f) \/ RequestFails(f)
    \/ \E r \in Remover :
          \/ \E f \in Submission : FindSubmission(r, f) \/ \E i \in Position : FindMedia(r, f, i)
          \/ DestroyNext(r) \/ DeleteRows(r)
    \/ RestartOfMedia

AttachmentSpec == AttachmentInit /\ [][AttachmentNext]_attachmentVars

-----------------------------------------------------------------------------
(* Safety *)

Verified(f) == {i \in DOMAIN media[f] : media[f][i] = "VERIFIED"}
BytesOf(f, positions) == MapThenSumSet(LAMBDA i : form[f][i].bytes, positions)
VideosOf(f, positions) == Cardinality({i \in positions : form[f][i].kind = "VIDEO"})

\* However the visitor orders the attachments and whatever is refused before,
\* what is kept of a submission stays within the limits of media-limits.ts.
StoredWithinLimits ==
    \A f \in Submission :
        /\ BytesOf(f, Verified(f)) <= MAX_TOTAL_BYTES
        /\ VideosOf(f, Verified(f)) <= MAX_VIDEOS_PER_SUBMISSION
        /\ \A i \in Verified(f) : form[f][i].bytes <= MaxBytes(form[f][i].kind)

\* First come, first served: an attachment is refused only if its own check
\* failed or it does not fit beside those accepted before it, and what is
\* refused takes no room from those after it.
RefusedOnlyIfNoRoom ==
    \A f \in Submission : DOMAIN media[f] = DOMAIN form[f] =>
        \A i \in DOMAIN form[f] :
            LET m      == form[f][i]
                before == {j \in Verified(f) : j < i}
            IN
            i \in Verified(f) <=>
                /\ i \in request[f].found
                /\ m.allowed
                /\ m.bytes <= MaxBytes(m.kind)
                /\ m.kind = "VIDEO" => VideosOf(f, before) + 1 <= MAX_VIDEOS_PER_SUBMISSION
                /\ BytesOf(f, before \cup {i}) <= MAX_TOTAL_BYTES

\* The response shows a reason with exactly the attachments that were refused.
\* It pairs rows and reasons by their places in two lists read at different
\* times: this holds unless an attachment was removed during the delivery.
ReasonsFit ==
    \A f \in Submission : Len(answer[f]) = Len(form[f]) =>
        \A n \in DOMAIN answer[f] : answer[f][n].reason <=> answer[f][n].status = "REJECTED"

\* Rows and Cloudinary agree, through removals of the same attachments at once:
\* what has no row any more has no asset either, unless destroying it failed,
\* and a row without its asset is being removed, unless its removal failed or
\* was interrupted after the asset was destroyed.
RowsAndAssetsAgree ==
    \A f \in Submission, i \in Position :
        saved[f] # "none" /\ i \in DOMAIN form[f] =>
            /\ i \notin DOMAIN media[f] /\ <<f, i>> \in asset => <<f, i>> \in spared
            /\ i \in DOMAIN media[f] /\ <<f, i>> \notin asset =>
                  <<f, i>> \in cutShort \cup UNION {ItemsOf(r) : r \in Remover}

=============================================================================
