------------------------------- MODULE Captures -------------------------------
(***************************************************************************)
(* Snapshot capture (apps/snapshots/): screenshots are uploaded and staged *)
(* in the browser, a snapshot is created and claims them, and a task that  *)
(* is delivered once fills its sections in turn, folds the screenshots     *)
(* into the image section, which is all the AI is given images from, and   *)
(* says whether the snapshot is ready. The observer's captures are the     *)
(* same without screenshots.                                               *)
(***************************************************************************)
EXTENDS Naturals, FiniteSets

CONSTANTS
    Snapshots,     \* snapshots that may be created
    SectionKinds,         \* section kinds, among them the two below
    Vix, ImageKind,\* "vix", which is always captured, and "image"
    Screenshots,   \* client captures that may be uploaded
    Render,        \* the chart the image section renders
    Unclaimed      \* no snapshot

ASSUME CapturesAssumption ==
    /\ {Vix, ImageKind} \subseteq SectionKinds /\ Vix # ImageKind
    /\ Render \notin Screenshots /\ Unclaimed \notin Snapshots

VARIABLES
    uploaded,      \* screenshots with a row
    claimed,       \* SnapshotImage.snapshot
    snapshots,     \* Snapshot.status, or "none"
    includes,      \* what was asked for
    sections,      \* SnapshotSection.status, or "none"
    imageIds,      \* the image section's payload
    capturing      \* where each snapshot's task is

capturesVars == <<uploaded, claimed, snapshots, includes, sections, imageIds, capturing>>

CapturesInit ==
    /\ uploaded = {} /\ claimed = [i \in Screenshots |-> Unclaimed]
    /\ snapshots = [s \in Snapshots |-> "none"] /\ includes = [s \in Snapshots |-> {}]
    /\ sections = [s \in Snapshots |-> [k \in SectionKinds |-> "none"]]
    /\ imageIds = [s \in Snapshots |-> {}]
    /\ capturing = [s \in Snapshots |-> "none"]

\* images_collection: a staged upload.
Upload(i) ==
    /\ i \notin uploaded
    /\ uploaded' = uploaded \cup {i}
    /\ UNCHANGED <<claimed, snapshots, includes, sections, imageIds, capturing>>

\* Mutant: whoever names the screenshot gets it.
AllOf(ids) == ids \cap uploaded

\* filter(snapshot__isnull=True)
Free(ids) == {i \in ids \cap uploaded : claimed[i] = Unclaimed}

\* SnapshotViewSet.create: the row, then the claim in one update; two windows may
\* have staged the same ids.
CreateSnapshot(s, wanted) ==
    /\ snapshots[s] = "none"
    /\ snapshots' = [snapshots EXCEPT ![s] = "pending"]
    /\ includes' = [includes EXCEPT ![s] = wanted]
    /\ capturing' = [capturing EXCEPT ![s] = "claim"]
    /\ UNCHANGED <<uploaded, claimed, sections, imageIds>>

ClaimImages(s, ids) ==
    /\ capturing[s] = "claim"
    /\ claimed' = [i \in Screenshots |-> IF i \in Free(ids) THEN s ELSE claimed[i]]
    /\ capturing' = [capturing EXCEPT ![s] = "fetch"]
    /\ UNCHANGED <<uploaded, snapshots, includes, sections, imageIds>>

\* Vix is appended to what was asked for, if it is not there, and comes last then.
ToFetch(s) ==
    LET asked == {k \in includes[s] : sections[s][k] = "none"}
    IN  IF asked # {} THEN asked ELSE {k \in {Vix} : sections[s][k] = "none"}

\* The list is gone through in its order, one section at a time.
StartSection(s, k) ==
    /\ capturing[s] = "fetch" /\ ToFetch(s) # {} /\ k = CHOOSE x \in ToFetch(s) : TRUE
    /\ \A other \in SectionKinds : sections[s][other] # "pending"
    /\ sections' = [sections EXCEPT ![s][k] = "pending"]
    /\ UNCHANGED <<uploaded, claimed, snapshots, includes, imageIds, capturing>>

\* The fetcher returned or raised, or there is none: the others go on.
EndSection(s, k) ==
    /\ capturing[s] = "fetch" /\ sections[s][k] = "pending"
    /\ \/ /\ sections' = [sections EXCEPT ![s][k] = "done"]
          /\ imageIds' = [imageIds EXCEPT ![s] = IF k = ImageKind THEN @ \cup {Render} ELSE @]
       \/ sections' = [sections EXCEPT ![s][k] = "failed"] /\ UNCHANGED imageIds
    /\ UNCHANGED <<uploaded, claimed, snapshots, includes, capturing>>

ClientCaptures(s) == {i \in Screenshots : claimed[i] = s}

\* Mutant: vix counts like a section that was asked for.
AnySucceeded(s) == \E k \in SectionKinds : sections[s][k] = "done"

\* ok_count > 0
Succeeded(s) == \E k \in includes[s] : sections[s][k] = "done"

\* _attach_client_captures, in its own writes: an image section that was not asked
\* for is made, one that failed is done.
AttachImages(s) ==
    /\ capturing[s] = "fetch" /\ ToFetch(s) = {} /\ \A k \in SectionKinds : sections[s][k] # "pending"
    /\ capturing' = [capturing EXCEPT ![s] = IF Succeeded(s) \/ ClientCaptures(s) # {} THEN "ready" ELSE "failed"]
    /\ IF ClientCaptures(s) = {} THEN UNCHANGED <<sections, imageIds>>
       ELSE /\ sections' = [sections EXCEPT ![s][ImageKind] = "done"]
            /\ imageIds' = [imageIds EXCEPT ![s] = @ \cup ClientCaptures(s)]
    /\ UNCHANGED <<uploaded, claimed, snapshots, includes>>

FinishCapture(s) ==
    /\ capturing[s] \in {"ready", "failed"}
    /\ snapshots' = [snapshots EXCEPT ![s] = capturing[s]]
    /\ capturing' = [capturing EXCEPT ![s] = "over"]
    /\ UNCHANGED <<uploaded, claimed, includes, sections, imageIds>>

\* The request or its worker is lost, or a row cannot be written: nobody takes over.
LoseCapture(s) ==
    /\ capturing[s] \notin {"none", "over"}
    /\ capturing' = [capturing EXCEPT ![s] = "over"]
    /\ UNCHANGED <<uploaded, claimed, snapshots, includes, sections, imageIds>>

CapturesNext ==
    \/ \E i \in Screenshots : Upload(i)
    \/ \E s \in Snapshots :
        \/ \E wanted \in SUBSET SectionKinds : CreateSnapshot(s, wanted)
        \/ \E ids \in SUBSET Screenshots : ClaimImages(s, ids)
        \/ \E k \in SectionKinds : StartSection(s, k) \/ EndSection(s, k)
        \/ AttachImages(s) \/ FinishCapture(s) \/ LoseCapture(s)

CapturesSpec == CapturesInit /\ [][CapturesNext]_capturesVars

-----------------------------------------------------------------------------
(* Properties                                                              *)

CapturesTypeOK ==
    /\ uploaded \subseteq Screenshots /\ claimed \in [Screenshots -> Snapshots \cup {Unclaimed}]
    /\ snapshots \in [Snapshots -> {"none", "pending", "ready", "failed"}]
    /\ sections \in [Snapshots -> [SectionKinds -> {"none", "pending", "done", "failed"}]]
    /\ imageIds \in [Snapshots -> SUBSET (Screenshots \cup {Render})]

\* A snapshot that has its verdict gives the AI all the screenshots it claimed and
\* no one else's, however two windows compete for them; and it is ready just if it
\* has something of what was asked for: the volatility section that is always added
\* rescues nobody.
VerdictIsEarned ==
    \A s \in Snapshots : snapshots[s] \in {"ready", "failed"} =>
        /\ imageIds[s] \ {Render} = ClientCaptures(s)
        /\ snapshots[s] = "ready" <=>
            \/ ClientCaptures(s) # {}
            \/ \E k \in includes[s] : sections[s][k] = "done"
==============================================================================
