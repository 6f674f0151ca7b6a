------------------------------- MODULE Banners -------------------------------
(***************************************************************************)
(* The champions banners of the driver app's home page: a list of at most  *)
(* MaxBanners file names in PlatformSettings and the files themselves.     *)
(* Uploading, deleting and replacing the list each touch both, one after   *)
(* the other.                                                              *)
(***************************************************************************)
EXTENDS Naturals, FiniteSets

CONSTANTS
  Files,        (* names of uploaded files: a bound                         *)
  MaxBanners,   (* 12                                                       *)
  Uploads       (* requests that may be in flight at once                   *)

ASSUME BannersAssumption == MaxBanners \in Nat \ {0}

VARIABLES
  banners,      (* championsHomeBannerPathsJson: its names, some perhaps    *)
                (* repeated, and its length                                 *)
  disk,         (* files in the upload directory                            *)
  doomed,       (* files whose unlink a patch started and did not wait for   *)
  banReq,       (* requests in flight                                       *)
  used,         (* history: names given to uploads                          *)
  foreign,      (* history: names a patch listed that the list it read did   *)
                (* not have, whether or not there ever was such a file       *)
  tangled       (* history: two requests overlapped, or one died            *)

bannerVars == <<banners, disk, doomed, banReq, used, foreign, tangled>>

NoList == [names |-> {}, size |-> 0]
NoUpload == [pc |-> "idle", file |-> {}, list |-> NoList]
BanAt(s, label) == banReq[s].pc = label
Busy == \E x \in Uploads : ~BanAt(x, "idle")

(* The lists of these names that are no longer than most.                   *)
Listings(names, most) ==
  {l \in [names : {names}, size : 0..most] :
     Cardinality(names) <= l.size /\ (names = {} => l.size = 0)}

(* The file is written first, under a new name.                             *)
UploadBanner(s) ==
  \E f \in Files \ used :
     /\ BanAt(s, "idle")
     /\ disk' = disk \cup {f}
     /\ used' = used \cup {f}
     /\ banReq' = [banReq EXCEPT ![s] = [pc |-> "read", file |-> {f}, list |-> NoList]]
     /\ tangled' = (tangled \/ Busy)
     /\ UNCHANGED <<banners, doomed, foreign>>

(* A full list refuses the name; the file stays behind.                     *)
UploadRead(s) ==
  /\ BanAt(s, "read")
  /\ banReq' = [banReq EXCEPT ![s] =
       IF banners.size >= MaxBanners THEN NoUpload
       ELSE [@ EXCEPT !.pc = "append", !.list = [names |-> banners.names \cup banReq[s].file,
                                                size |-> banners.size + 1]]]
  /\ UNCHANGED <<banners, disk, doomed, used, foreign, tangled>>

UploadWrite(s) ==
  /\ BanAt(s, "append")
  /\ banners' = banReq[s].list
  /\ banReq' = [banReq EXCEPT ![s] = NoUpload]
  /\ UNCHANGED <<disk, doomed, used, foreign, tangled>>

(* Every copy of the name is taken off the list.                            *)
DeleteBanner(s) ==
  \E f \in banners.names : \E list \in Listings(banners.names \ {f}, banners.size - 1) :
     /\ BanAt(s, "idle")
     /\ banReq' = [banReq EXCEPT ![s] = [pc |-> "remove", file |-> {f}, list |-> list]]
     /\ tangled' = (tangled \/ Busy)
     /\ UNCHANGED <<banners, disk, doomed, used, foreign>>

DeleteWrite(s) ==
  /\ BanAt(s, "remove")
  /\ banners' = banReq[s].list
  /\ banReq' = [banReq EXCEPT ![s].pc = "unlink"]
  /\ UNCHANGED <<disk, doomed, used, foreign, tangled>>

(* unlinkChampionBannerFile; an error is ignored and leaves the file.       *)
DeleteUnlink(s) ==
  /\ BanAt(s, "unlink")
  /\ disk' \in {disk, disk \ banReq[s].file}
  /\ banReq' = [banReq EXCEPT ![s] = NoUpload]
  /\ UNCHANGED <<banners, doomed, used, foreign, tangled>>

(* patchPlatformChampions reads the list,                                   *)
PatchBanners(s) ==
  /\ BanAt(s, "idle")
  /\ banReq' = [banReq EXCEPT ![s] = [pc |-> "change", file |-> {}, list |-> banners]]
  /\ tangled' = (tangled \/ Busy)
  /\ UNCHANGED <<banners, disk, doomed, used, foreign>>

(* lets go of the files that drop out of it, whatever names it was sent,    *)
PatchDrops(s) ==
  \E names \in SUBSET Files : \E list \in Listings(names, MaxBanners) :
     /\ BanAt(s, "change")
     /\ doomed' = doomed \cup (banReq[s].list.names \ names)
     /\ foreign' = foreign \cup (names \ banReq[s].list.names)
     /\ banReq' = [banReq EXCEPT ![s] = [pc |-> "patch", file |-> {}, list |-> list]]
     /\ UNCHANGED <<banners, disk, used, tangled>>

(* and writes the new one.                                                  *)
PatchBannersWrite(s) ==
  /\ BanAt(s, "patch")
  /\ banners' = banReq[s].list
  /\ banReq' = [banReq EXCEPT ![s] = NoUpload]
  /\ UNCHANGED <<disk, doomed, used, foreign, tangled>>

(* An unlink of a patch ends some time later, or fails.                     *)
PatchUnlink(f) ==
  /\ f \in doomed
  /\ doomed' = doomed \ {f}
  /\ disk' \in {disk, disk \ {f}}
  /\ UNCHANGED <<banners, banReq, used, foreign, tangled>>

BannerRequestDies(s) ==
  /\ ~BanAt(s, "idle")
  /\ banReq' = [banReq EXCEPT ![s] = NoUpload]
  /\ tangled' = TRUE
  /\ UNCHANGED <<banners, disk, doomed, used, foreign>>

BannersInit ==
  /\ banners = NoList /\ disk = {} /\ doomed = {} /\ used = {} /\ foreign = {}
  /\ banReq = [s \in Uploads |-> NoUpload]
  /\ tangled = FALSE

BannersNext ==
  \/ \E s \in Uploads :
       \/ UploadBanner(s) \/ UploadRead(s) \/ UploadWrite(s)
       \/ DeleteBanner(s) \/ DeleteWrite(s) \/ DeleteUnlink(s)
       \/ PatchBanners(s) \/ PatchDrops(s) \/ PatchBannersWrite(s) \/ BannerRequestDies(s)
  \/ \E f \in Files : PatchUnlink(f)

BannersSpec == BannersInit /\ [][BannersNext]_bannerVars

-----------------------------------------------------------------------------
(* Properties.                                                             *)

(* However uploads race, and whatever lists they are patched with, the     *)
(* list is never longer than the app shows: each writes one it measured.   *)
BannersBounded == banners.size <= MaxBanners

(* The app is not sent to an uploaded file that has gone, though a patch     *)
(* unlinks before it writes its list and does not wait for it: a name that  *)
(* has been on the list since its upload has its file, unless two requests  *)
(* overlapped or one died, or a patch has yet to write.  Names a patch puts *)
(* on the list itself, new to it or long deleted, are checked by nobody.    *)
BannersOnDisk ==
  tangled \/ (\E s \in Uploads : BanAt(s, "patch")) \/ banners.names \ foreign \subseteq disk
=============================================================================
