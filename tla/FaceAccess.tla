----------------------------- MODULE FaceAccess -----------------------------
(* Photos of residents and their approval (media_service), the facial      *)
(* templates enrolled from them, and the readers that report faces         *)
(* (access_control_service).  The files behind the photos are StoredFiles' *)
(* subject.  Bounds: Photos (row ids), MaxKey (rotations of a device key). *)
EXTENDS Naturals, Requests

CONSTANTS Photos, People, Devices, MaxKey

VARIABLES
    present,    \* Resident.is_active
    photos,     \* MediaAsset: id -> row, NoPhoto or, once deleted, Gone
    template,   \* FacialTemplate: resident -> its photo, or NoPhoto
    devices,    \* AccessDevice: its key (how often rotated) and status, or NoDevice
    events      \* FacialAccessEvent: the grants, as <<device, key, resident>>

faces == <<present, photos, template, devices, events>>

NoPhoto == [status |-> "none"]
Gone == [status |-> "deleted"]
NoDevice == [status |-> "none"]
(* vetted is auxiliary: the photo has been APPROVED at some time.          *)
Photo == [status : {"PENDING_APPROVAL", "APPROVED", "REJECTED"},
          of : People, vetted : BOOLEAN]
Device == [key : 0 .. MaxKey, status : {"ONLINE", "OFFLINE", "MAINTENANCE"}]

Uploaded == {p \in Photos : photos[p] \notin {NoPhoto, Gone}}
Mounted == {d \in Devices : devices[d] # NoDevice}
Enrolled(r) == template[r] # NoPhoto

FaceInit ==
    /\ present = People
    /\ photos = [p \in Photos |-> NoPhoto]
    /\ template = [r \in People |-> NoPhoto]
    /\ devices = [d \in Devices |-> NoDevice]
    /\ events = {}

(* upload_photo: approved at once for uploads:auto_approve.                *)
Upload(w) ==
    /\ Free(w)
    /\ \E p \in Photos, r \in People, auto \in BOOLEAN :
          photos[p] = NoPhoto /\ photos' = [photos EXCEPT ![p] =
             [of |-> r, vetted |-> auto,
              status |-> IF auto THEN "APPROVED" ELSE "PENDING_APPROVAL"]]
    /\ UNCHANGED <<present, template, devices, events, req>>

(* approve_photo, reject_photo: of a photo in any status.                  *)
Approve(w) ==
    /\ Free(w)
    /\ \E p \in Uploaded : photos' =
          [photos EXCEPT ![p].status = "APPROVED", ![p].vetted = TRUE]
    /\ UNCHANGED <<present, template, devices, events, req>>

Reject(w) ==
    /\ Free(w)
    /\ \E p \in Uploaded : photos' = [photos EXCEPT ![p].status = "REJECTED"]
    /\ UNCHANGED <<present, template, devices, events, req>>

(* delete_photo: the templates of the photo go with it (ON DELETE CASCADE).*)
DeletePhoto(w) ==
    /\ Free(w)
    /\ \E p \in Uploaded :
          /\ photos' = [photos EXCEPT ![p] = Gone]
          /\ template' = [r \in People |->
                IF template[r] = p THEN NoPhoto ELSE template[r]]
    /\ UNCHANGED <<present, devices, events, req>>

(* deactivate_resident.                                                    *)
Leave(w) ==
    /\ Free(w)
    /\ \E r \in present : present' = present \ {r}
    /\ UNCHANGED <<photos, template, devices, events, req>>

(* A mistake: the latest photo is taken, approved or not.                  *)
SyncAny(w) ==
    /\ Free(w)
    /\ \E p \in Uploaded : Ask(w, [op |-> "sync", photo |-> p,
          had |-> Enrolled(photos[p].of)])
    /\ UNCHANGED faces

(* sync_facial_template: one of the approved photos of the resident (the   *)
(* latest), and whether there is a template to overwrite.                  *)
Sync(w) ==
    /\ Free(w)
    /\ \E p \in Uploaded :
          /\ photos[p].status = "APPROVED"
          /\ Ask(w, [op |-> "sync", photo |-> p, had |-> Enrolled(photos[p].of)])
    /\ UNCHANGED faces

(* Its commit fails if the photo or the template to update is gone, or the *)
(* template to insert is there (foreign key, unique resident).             *)
Synced(w) ==
    /\ Serving(w, "sync")
    /\ req[w].photo \in Uploaded
    /\ LET r == photos[req[w].photo].of IN
          /\ req[w].had = Enrolled(r)
          /\ template' = [template EXCEPT ![r] = req[w].photo]
    /\ Answer(w)
    /\ UNCHANGED <<present, photos, devices, events>>

(* create_device.                                                          *)
CreateDevice(w) ==
    /\ Free(w)
    /\ \E d \in Devices \ Mounted :
          devices' = [devices EXCEPT ![d] = [key |-> 0, status |-> "OFFLINE"]]
    /\ UNCHANGED <<present, photos, template, events, req>>

(* update_device_status and regenerate_device_key.                         *)
AdministerDevice(w) ==
    /\ Free(w)
    /\ \E d \in Mounted :
          \/ \E s \in {"ONLINE", "OFFLINE", "MAINTENANCE"} :
                devices' = [devices EXCEPT ![d].status = s]
          \/ /\ devices[d].key < MaxKey
             /\ devices' = [devices EXCEPT ![d].key = @ + 1]
    /\ UNCHANGED <<present, photos, template, events, req>>

(* process_verification_webhook: the device is found by its key; a known   *)
(* resident with a template is matched, and granted if active.             *)
Webhook(w) ==
    /\ Free(w)
    /\ \E d \in Mounted, r \in People : Ask(w,
          [op |-> "face", device |-> d, key |-> devices[d].key, resident |-> r,
           grant |-> Enrolled(r) /\ r \in present])
    /\ UNCHANGED faces

Reported(w) ==
    /\ Serving(w, "face")
    /\ devices' = [devices EXCEPT ![req[w].device].status = "ONLINE"]
    /\ events' = IF req[w].grant
          THEN events \cup {<<req[w].device, req[w].key, req[w].resident>>}
          ELSE events
    /\ Answer(w)
    /\ UNCHANGED <<present, photos, template>>

FaceCrash(w) == Dies(w) /\ UNCHANGED faces

FaceNext == \E w \in Workers :
    \/ Upload(w) \/ Approve(w) \/ Reject(w) \/ DeletePhoto(w) \/ Leave(w)
    \/ Sync(w) \/ Synced(w) \/ CreateDevice(w) \/ AdministerDevice(w) \/ Webhook(w)
    \/ Reported(w) \/ FaceCrash(w)

FaceSpec == FaceInit /\ NoRequest /\ [][FaceNext]_<<faces, req>>
-----------------------------------------------------------------------------
(* A template is of a photo that still exists, of that very resident, and  *)
(* that somebody approved - however approvals, deletions and syncs         *)
(* overlap.  (A rejection after the sync leaves the template in place.)    *)
EnrolledFromVetted ==
    \A r \in People : Enrolled(r) =>
        /\ template[r] \in Uploaded
        /\ photos[template[r]].of = r /\ photos[template[r]].vetted
=============================================================================
