---------------------------- MODULE MediaLibrary ----------------------------
(***************************************************************************)
(* The media library (internal/media): the metadata rows in the database   *)
(* and the objects in the blob store, which no transaction covers both.    *)
(* An upload has an asset id of its own, so uploads never share a row.     *)
(***************************************************************************)
EXTENDS Naturals

CONSTANTS
    Assets,           \* asset ids
    Deleters,         \* concurrent deletions
    AmbiguousCommits, \* a commit may succeed and still report an error
    MaxMediaFaults    \* bound: crashes and failed calls

ASSUME MediaAssumption ==
    MaxMediaFaults \in Nat /\ AmbiguousCommits \in BOOLEAN /\ Assets # {}

VARIABLES
    assetRow,      \* ids in media_assets
    object,        \* ids whose object is in the store
    upload,        \* what each upload is doing
    deletion,      \* what each deletion is doing
    mediaFaults,   \* faults so far (bounded)
    misreported    \* history: rows whose commit reported an error

mediaVars == <<assetRow, object, upload, deletion, mediaFaults, misreported>>

-----------------------------------------------------------------------------
UploadSteps == {"new", "put", "add", "clean", "over"}
Deletions == [asset : Assets, at : {"idle", "row", "object"}]
NoDeletion == [asset |-> CHOOSE a \in Assets : TRUE, at |-> "idle"]

MediaInit ==
    /\ assetRow = {}
    /\ object = {}
    /\ upload = [a \in Assets |-> "new"]
    /\ deletion = [d \in Deleters |-> NoDeletion]
    /\ mediaFaults = 0
    /\ misreported = {}

Fault == mediaFaults < MaxMediaFaults /\ mediaFaults' = mediaFaults + 1

-----------------------------------------------------------------------------
(* UploadAssetHandler, once type and size have been accepted.              *)
UploadAsset(a) ==
    /\ upload[a] = "new"
    /\ upload' = [upload EXCEPT ![a] = "put"]
    /\ UNCHANGED <<assetRow, object, deletion, mediaFaults, misreported>>

(* S3BlobStore.Put: all of the object or nothing.                          *)
PutObject(a) ==
    /\ upload[a] = "put"
    /\ object' = object \cup {a}
    /\ upload' = [upload EXCEPT ![a] = "add"]
    /\ UNCHANGED <<assetRow, deletion, mediaFaults, misreported>>

(* Assets.Add.                                                             *)
AddAsset(a) ==
    /\ upload[a] = "add"
    /\ assetRow' = assetRow \cup {a}
    /\ upload' = [upload EXCEPT ![a] = "over"]
    /\ UNCHANGED <<object, deletion, mediaFaults, misreported>>

(* It reports an error: the row is not there, or its commit got through    *)
(* and the answer did not.                                                 *)
AddAssetFails(a) ==
    /\ upload[a] = "add"
    /\ Fault
    /\ upload' = [upload EXCEPT ![a] = "clean"]
    /\ \/ UNCHANGED <<assetRow, misreported>>
       \/ /\ AmbiguousCommits
          /\ assetRow' = assetRow \cup {a}
          /\ misreported' = misreported \cup {a}
    /\ UNCHANGED <<object, deletion>>

(* The object of the failed upload is deleted, if the store can be reached. *)
CleanObject(a) ==
    /\ upload[a] = "clean"
    /\ object' = object \ {a}
    /\ upload' = [upload EXCEPT ![a] = "over"]
    /\ UNCHANGED <<assetRow, deletion, mediaFaults, misreported>>

(* Put fails, the clean-up fails, or the process dies.                     *)
UploadFails(a) ==
    /\ upload[a] \in {"put", "add", "clean"}
    /\ Fault
    /\ upload' = [upload EXCEPT ![a] = "over"]
    /\ UNCHANGED <<assetRow, object, deletion, misreported>>

(* Mutant: the object is deleted before the row.                           *)
ObjectFirst(d, a) ==
    /\ deletion[d] = NoDeletion
    /\ a \in assetRow
    /\ deletion' = [deletion EXCEPT ![d] = [asset |-> a, at |-> "object"]]
    /\ UNCHANGED <<assetRow, object, upload, mediaFaults, misreported>>

(* DeleteAssetHandler: the row must be there.                              *)
DeleteAsset(d, a) ==
    /\ deletion[d] = NoDeletion
    /\ a \in assetRow
    /\ deletion' = [deletion EXCEPT ![d] = [asset |-> a, at |-> "row"]]
    /\ UNCHANGED <<assetRow, object, upload, mediaFaults, misreported>>

(* Assets.Delete: the second deletion finds no row and goes no further.    *)
DeleteRow(d) ==
    /\ deletion[d].at = "row"
    /\ assetRow' = assetRow \ {deletion[d].asset}
    /\ deletion' = [deletion EXCEPT ![d] =
                        IF deletion[d].asset \in assetRow THEN [@ EXCEPT !.at = "object"]
                        ELSE NoDeletion]
    /\ UNCHANGED <<object, upload, mediaFaults, misreported>>

(* S3BlobStore.Delete: an object that is gone is no error.                 *)
DeleteObject(d) ==
    /\ deletion[d].at = "object"
    /\ object' = object \ {deletion[d].asset}
    /\ deletion' = [deletion EXCEPT ![d] = NoDeletion]
    /\ UNCHANGED <<assetRow, upload, mediaFaults, misreported>>

DeletionFails(d) ==
    /\ deletion[d] # NoDeletion
    /\ Fault
    /\ deletion' = [deletion EXCEPT ![d] = NoDeletion]
    /\ UNCHANGED <<assetRow, object, upload, misreported>>

-----------------------------------------------------------------------------
MediaNext ==
    \/ \E a \in Assets : UploadAsset(a)
    \/ \E a \in Assets : PutObject(a)
    \/ \E a \in Assets : AddAsset(a)
    \/ \E a \in Assets : AddAssetFails(a)
    \/ \E a \in Assets : CleanObject(a)
    \/ \E a \in Assets : UploadFails(a)
    \/ \E d \in Deleters, a \in Assets : DeleteAsset(d, a)
    \/ \E d \in Deleters : DeleteRow(d)
    \/ \E d \in Deleters : DeleteObject(d)
    \/ \E d \in Deleters : DeletionFails(d)

MediaSpec == MediaInit /\ [][MediaNext]_mediaVars

-----------------------------------------------------------------------------
(* Properties.                                                             *)

(* Types of the rows and steps.                                            *)
MediaTypeOK ==
    /\ assetRow \subseteq Assets
    /\ object \subseteq Assets
    /\ upload \in [Assets -> UploadSteps]
    /\ deletion \in [Deleters -> Deletions]
    /\ misreported \subseteq Assets

(* FR-029: a listed asset has its object, wherever an upload or a deletion *)
(* stops; except that an upload whose row was committed, but reported as   *)
(* failed, cleans up the object of a listed asset.                         *)
ListedHasObject == assetRow \ misreported \subseteq object

=============================================================================
