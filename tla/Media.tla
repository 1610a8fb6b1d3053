-------------------------------- MODULE Media -------------------------------
(***************************************************************************)
(* Uploaded files of one user: intents and assets (uploads.service.ts),    *)
(* the places that use them (avatar and portfolio in profiles.service.ts,  *)
(* messages, evidence of reports in trust.service.ts) and the job that     *)
(* removes orphans (outbox.processor.ts).  Three stores go apart: the      *)
(* object in R2, the rows, and attached_at, which only two of the users    *)
(* of an asset set.                                                        *)
(***************************************************************************)
EXTENDS Naturals, FiniteSets

CONSTANTS
  Files,    \* bound: upload intents, each with the asset it may become
  Ops,      \* bound: requests in flight at once
  Uploads,  \* bound: what the files are uploaded for and whether they are at first
  Take,     \* assets one run of the cleanup reads, 100 in the code
  NoFile

VARIABLES
  file,
  avatar,   \* avatar_asset_id of the profile
  op,       \* requests in flight
  batch,    \* what the run of the cleanup has still to look at
  removing, \* the asset whose object it has removed last
  doomed    \* history: files taken into use after the cleanup had found them

vars == <<file, avatar, op, batch, removing, doomed>>

-----------------------------------------------------------------------------
Purposes == {"AVATAR", "PORTFOLIO", "CHAT", "REPORT_EVIDENCE"}

\* age: the upload can be completed; the asset is kept; the retention of its
\* purpose, counted from created_at, is over.  used: by a message, a report or
\* a portfolio item, "past" once the item is deleted.
File == [purpose: Purposes, intent: {"none", "PENDING", "COMPLETED", "REJECTED"},
         object: {"none", "right", "wrong"}, asset: {"none", "USABLE", "REMOVED"},
         attached: BOOLEAN, used: {"no", "yes", "past"}, age: {"new", "kept", "old"}]
NewFile(purpose) == [purpose |-> purpose, intent |-> "none", object |-> "none", asset |-> "none",
            attached |-> FALSE, used |-> "no", age |-> "new"]
ReadyFile(purpose) ==
  [NewFile(purpose) EXCEPT !.intent = "COMPLETED", !.object = "right", !.asset = "USABLE"]

Op == [pc: {"idle", "head", "reject", "create", "attach", "swap", "use", "delete"},
       on: Files \cup {NoFile}, from: Files \cup {NoFile}]
Idle == [pc |-> "idle", on |-> NoFile, from |-> NoFile]

TypeOK ==
  /\ file \in [Files -> File]
  /\ avatar \in Files \cup {NoFile}
  /\ op \in [Ops -> Op]
  /\ batch \subseteq Files
  /\ removing \in Files \cup {NoFile}
  /\ doomed \subseteq Files

Init ==
  /\ \E upload \in Uploads : file = [f \in Files |->
       IF upload[f].ready THEN ReadyFile(upload[f].purpose) ELSE NewFile(upload[f].purpose)]
  /\ avatar = NoFile
  /\ op = [o \in Ops |-> Idle]
  /\ batch = {} /\ removing = NoFile /\ doomed = {}

-----------------------------------------------------------------------------
Usable(f) == file[f].asset = "USABLE"

\* What accessUrl signs or builds a link for, when its owner asks.
Readable(f) == Usable(f)

Begin(o, pc, f, from) ==
  op[o].pc = "idle" /\ op' = [op EXCEPT ![o] = [pc |-> pc, on |-> f, from |-> from]]
GoTo(o, pc) == op' = [op EXCEPT ![o].pc = pc]
Finish(o) == op' = [op EXCEPT ![o] = Idle]
At(o, pc) == op[o].pc = pc
On(o) == op[o].on
OnlyOps == UNCHANGED <<file, avatar, batch, removing, doomed>>

-----------------------------------------------------------------------------
(* Uploading                                                               *)

Presign(f) ==
  /\ file[f].intent = "none"
  /\ file' = [file EXCEPT ![f].intent = "PENDING"]
  /\ UNCHANGED <<avatar, op, batch, removing, doomed>>

\* The client writes the object, as often as it likes while the URL is valid;
\* what it writes over an asset is left out, nothing looks at it again.
Put(f, object) ==
  /\ file[f].intent # "none" /\ file[f].asset = "none" /\ file[f].age = "new"
  /\ file' = [file EXCEPT ![f].object = object]
  /\ UNCHANGED <<avatar, op, batch, removing, doomed>>

CompleteRead(o, f) ==
  /\ file[f].asset = "none" /\ file[f].intent = "PENDING" /\ file[f].age = "new"
  /\ Begin(o, "head", f, NoFile)
  /\ OnlyOps

\* Mutant of Head: an object the store does not know is taken for uploaded.
HeadMissing(o) ==
  /\ At(o, "head")
  /\ GoTo(o, IF file[On(o)].object = "wrong" THEN "reject" ELSE "create")
  /\ OnlyOps

\* What the store says of the object; a missing one ends the request.
Head(o) ==
  /\ At(o, "head")
  /\ CASE file[On(o)].object = "none" -> Finish(o)
       [] file[On(o)].object = "wrong" -> GoTo(o, "reject")
       [] file[On(o)].object = "right" -> GoTo(o, "create")
  /\ OnlyOps

\* By the id of the intent, also one that another request has completed.
CompleteReject(o) ==
  /\ At(o, "reject")
  /\ file' = [file EXCEPT ![On(o)].intent = "REJECTED"]
  /\ Finish(o)
  /\ UNCHANGED <<avatar, batch, removing, doomed>>

\* upload_intent_id is unique: the second of two requests rolls back.
CompleteCommit(o) ==
  /\ At(o, "create") /\ file[On(o)].asset = "none"
  /\ file' = [file EXCEPT ![On(o)].intent = "COMPLETED", ![On(o)].asset = "USABLE"]
  /\ Finish(o)
  /\ UNCHANGED <<avatar, batch, removing, doomed>>

-----------------------------------------------------------------------------
(* Using an asset: assertUsableOwnedAsset, then the statements             *)

\* The cleanup got hold of the file before it was taken into use.
Found(f) == f \in batch \/ removing = f \/ file[f].object = "none"
Doom(f) == doomed' = IF Found(f) THEN doomed \cup {f} ELSE doomed

CheckUsable(o, f) ==
  /\ Usable(f)
  /\ Begin(o, IF file[f].purpose = "AVATAR" THEN "attach" ELSE "use", f, NoFile)
  /\ OnlyOps

\* attachAvatar reads the profile in its transaction, without a lock,
AvatarRead(o) ==
  /\ At(o, "attach")
  /\ op' = [op EXCEPT ![o] = [pc |-> "swap", on |-> On(o), from |-> avatar]]
  /\ OnlyOps

DeleteAvatarRead(o) == Begin(o, "swap", NoFile, avatar) /\ OnlyOps

\* Mutant of AvatarCommit: the avatar replaced is detached last, also when it
\* is the one attached.
AvatarCommitDetachLast(o) ==
  /\ At(o, "swap")
  /\ LET new == On(o)
         old == op[o].from IN
     /\ avatar' = new
     /\ file' = [f \in Files |->
          IF f = old THEN [file[f] EXCEPT !.attached = FALSE]
          ELSE IF f = new THEN [file[f] EXCEPT !.attached = TRUE] ELSE file[f]]
     /\ IF new = NoFile THEN UNCHANGED doomed ELSE Doom(new)
  /\ Finish(o)
  /\ UNCHANGED <<batch, removing>>

\* ... and with what it read detaches the avatar it replaces.  deleteAvatar
\* does the same, with no new one.
AvatarCommit(o) ==
  /\ At(o, "swap")
  /\ LET new == On(o)
         old == op[o].from IN
     /\ avatar' = new
     /\ file' = [f \in Files |->
          IF f = new THEN [file[f] EXCEPT !.attached = TRUE]
          ELSE IF f = old THEN [file[f] EXCEPT !.attached = FALSE] ELSE file[f]]
     /\ IF new = NoFile THEN UNCHANGED doomed ELSE Doom(new)
  /\ Finish(o)
  /\ UNCHANGED <<batch, removing>>

\* createPortfolio; asset_id is unique, also among deleted items.
PortfolioCommit(o) ==
  /\ At(o, "use") /\ file[On(o)].purpose = "PORTFOLIO" /\ file[On(o)].used = "no"
  /\ file' = [file EXCEPT ![On(o)].used = "yes", ![On(o)].attached = TRUE]
  /\ Doom(On(o))
  /\ Finish(o)
  /\ UNCHANGED <<avatar, batch, removing>>

DeletePortfolioRead(o, f) ==
  /\ file[f].purpose = "PORTFOLIO" /\ file[f].used = "yes"
  /\ Begin(o, "delete", f, NoFile)
  /\ OnlyOps

DeletePortfolioCommit(o) ==
  /\ At(o, "delete")
  /\ file' = [file EXCEPT ![On(o)].used = "past", ![On(o)].attached = FALSE]
  /\ Finish(o)
  /\ UNCHANGED <<avatar, batch, removing, doomed>>

\* A message or a report keeps the id of the asset and leaves attached_at.
ReferenceCommit(o) ==
  /\ At(o, "use") /\ file[On(o)].purpose \in {"CHAT", "REPORT_EVIDENCE"}
  /\ file' = [file EXCEPT ![On(o)].used = "yes"]
  /\ Finish(o)
  /\ UNCHANGED <<avatar, batch, removing, doomed>>

-----------------------------------------------------------------------------
(* cleanOrphanMedia                                                        *)

\* Mutant of Orphans: attached_at is not asked for.
OrphansAll == {f \in Files : Usable(f)}

Orphans == {f \in Files : Usable(f) /\ ~ file[f].attached}

\* The oldest ones; which they are is left open.
CleanFind ==
  /\ batch = {} /\ removing = NoFile
  /\ batch' \in SUBSET Orphans \ {{}}
  /\ Cardinality(batch') = IF Cardinality(Orphans) < Take THEN Cardinality(Orphans) ELSE Take
  /\ UNCHANGED <<file, avatar, op, removing, doomed>>

CleanSkip(f) ==
  /\ f \in batch /\ removing = NoFile /\ file[f].age # "old"
  /\ batch' = batch \ {f}
  /\ UNCHANGED <<file, avatar, op, removing, doomed>>

\* Mutant of CleanObject: the row before the object.
CleanObjectAfter(f) ==
  /\ f \in batch /\ removing = NoFile /\ file[f].age = "old"
  /\ file' = [file EXCEPT ![f].asset = "REMOVED"]
  /\ batch' = batch \ {f} /\ removing' = f
  /\ UNCHANGED <<avatar, op, doomed>>

CleanObject(f) ==
  /\ f \in batch /\ removing = NoFile /\ file[f].age = "old"
  /\ file' = [file EXCEPT ![f].object = "none"]
  /\ batch' = batch \ {f} /\ removing' = f
  /\ UNCHANGED <<avatar, op, doomed>>

CleanMark ==
  /\ removing # NoFile
  /\ file' = [file EXCEPT ![removing].asset = "REMOVED"]
  /\ removing' = NoFile
  /\ UNCHANGED <<avatar, op, batch, doomed>>

\* A file the store or the database fails for is left for another run.
CleanFail ==
  /\ removing' = NoFile
  /\ IF removing # NoFile THEN UNCHANGED batch ELSE \E f \in batch : batch' = batch \ {f}
  /\ UNCHANGED <<file, avatar, op, doomed>>

CleanCrash ==
  /\ batch # {} \/ removing # NoFile
  /\ batch' = {} /\ removing' = NoFile
  /\ UNCHANGED <<file, avatar, op, doomed>>

-----------------------------------------------------------------------------
\* The URL expires, then, of an asset, the retention.
Pass(f) ==
  /\ \/ file[f].intent # "none" /\ file[f].age = "new" /\ file' = [file EXCEPT ![f].age = "kept"]
     \/ file[f].asset # "none" /\ file[f].age = "kept" /\ file' = [file EXCEPT ![f].age = "old"]
  /\ UNCHANGED <<avatar, op, batch, removing, doomed>>

\* A request is refused by its last statement or dies.
Abort(o) == op[o].pc # "idle" /\ Finish(o) /\ OnlyOps

Next ==
  \/ \E f \in Files :
       \/ Presign(f)
       \/ Put(f, "right") \/ Put(f, "wrong")
       \/ CleanSkip(f) \/ CleanObject(f) \/ Pass(f)
  \/ \E o \in Ops :
       \/ \E f \in Files : CompleteRead(o, f) \/ CheckUsable(o, f) \/ DeletePortfolioRead(o, f)
       \/ Head(o) \/ CompleteReject(o) \/ CompleteCommit(o)
       \/ AvatarRead(o) \/ DeleteAvatarRead(o) \/ AvatarCommit(o)
       \/ PortfolioCommit(o) \/ DeletePortfolioCommit(o) \/ ReferenceCommit(o) \/ Abort(o)
  \/ CleanFind \/ CleanMark \/ CleanFail \/ CleanCrash

Spec == Init /\ [][Next]_vars

-----------------------------------------------------------------------------
(* Properties                                                              *)

\* "Storage deletion succeeds before the database asset is marked REMOVED",
\* "only ... older than the purpose retention window"
\* (docs/operations-runbook.md:32), wherever the cleanup dies; and a link that
\* accessUrl hands out leads to an object until the cleanup is due.
StoreFollowsRows ==
  \A f \in Files :
    /\ file[f].asset = "REMOVED" => file[f].object = "none" /\ file[f].age = "old"
    /\ Readable(f) /\ file[f].object = "none" => file[f].age = "old"

\* However attaching, replacing and deleting race, the avatar and the items of
\* the portfolio are attached and keep their asset and object, unless the
\* cleanup had already found them when they were taken into use.
InUseIsKept ==
  \A f \in Files :
    avatar = f \/ (file[f].purpose = "PORTFOLIO" /\ file[f].used = "yes") =>
      /\ file[f].attached
      /\ f \notin doomed => Usable(f) /\ file[f].object # "none"

-----------------------------------------------------------------------------
(* Inductive invariant                                                   *)

Exists(f) == file[f].asset # "none"
IsAvatar(f) == file[f].purpose = "AVATAR" /\ Exists(f)

\* What a request in flight has found of its files still holds.
OpsKnow ==
  \A o \in Ops :
    /\ op[o].pc \notin {"idle", "swap"} => On(o) \in Files
    /\ op[o].pc = "create" => Exists(On(o)) \/ file[On(o)].object # "none"
    /\ op[o].pc = "attach" => IsAvatar(On(o))
    /\ op[o].pc = "swap" => \A f \in {On(o), op[o].from} \ {NoFile} : IsAvatar(f)
    /\ op[o].pc = "use" => Exists(On(o))
    /\ op[o].pc = "delete" => file[On(o)].purpose = "PORTFOLIO"

\* The cleanup works on assets, whose object goes first.
CleanupKnows ==
  /\ \A f \in batch : Exists(f)
  /\ removing # NoFile =>
       /\ removing \notin batch /\ Exists(removing)
       /\ file[removing].object = "none" /\ file[removing].age = "old"

\* What is in use was never found by the cleanup, unless it is doomed.
KeptUnlessDoomed ==
  /\ avatar # NoFile => IsAvatar(avatar)
  /\ \A f \in Files \ doomed :
       avatar = f \/ (file[f].purpose = "PORTFOLIO" /\ file[f].used = "yes") => f \notin batch /\ removing # f

IInv ==
  /\ TypeOK /\ OpsKnow /\ CleanupKnows /\ KeptUnlessDoomed
  /\ StoreFollowsRows /\ InUseIsKept
=============================================================================
