----------------------------- MODULE CaptureDir -----------------------------
(***************************************************************************)
(* CaptureDir (writer.go): a file is created at out, a Writer fills it,    *)
(* and it is closed; on failure it is removed.  Every call of the file     *)
(* system may fail: what Close had left to write is lost with it.  The     *)
(* process may be killed at any moment, and the capture run again over     *)
(* what it left.  out may lie inside the captured directory, where         *)
(* creating it comes before the walk.                                      *)
(***************************************************************************)
EXTENDS RoundTrip

CONSTANTS
  OutEntry,   \* the entry of the captured tree that out is, or 0
  Empty,      \* the content of an empty file
  MaxRuns     \* bound: the calls of CaptureDir

ASSUME CaptureDirAssumption ==
  OutEntry \in File \union {0} /\ Empty \in Content /\ Size[Empty] = 0
  /\ MaxRuns \in Nat

VARIABLES
  phase,    \* "create", "capture", "adding", "close", "closing", "fclose",
            \* "drop", "remove", "over"
  out,      \* what is at out: "none", "old" from before the call, or "new"
  result,   \* what CaptureDir returned: "none" yet, "ok", "error", or "killed"
  lost,     \* some of what was written never reached the file
  kept,     \* os.Remove failed
  runs      \* the calls made

ownVars == <<phase, out, result, lost, kept, runs>>
cdVars == <<vars, ownVars>>

Over(r) == phase' = "over" /\ result' = r

Init ==
  /\ WriterInit
  /\ phase = "create" /\ out \in {"none", "old"} /\ result = "none"
  /\ lost = FALSE /\ kept = FALSE /\ runs = 1

-----------------------------------------------------------------------------
(* Bug: an existing file is overwritten, not truncated.                    *)
CreateOver ==
  /\ phase = "create" /\ phase' = "capture" /\ out' = "new"
  /\ at' = 0
  /\ UNCHANGED <<captureVars, stateVars, callVars, header, extents, result, lost, kept, runs>>

(* os.Create: whatever was there is empty now.                             *)
Create ==
  /\ phase = "create" /\ phase' = "capture" /\ out' = "new"
  /\ disk' = [f \in File |-> IF f = OutEntry THEN Empty ELSE disk[f]]
  /\ at' = 0 /\ header' = [kind |-> "none", says |-> Zeros] /\ extents' = {}
  /\ UNCHANGED <<edits, cancelled, policy, step, walkVars, stateVars, callVars, result, lost,
                 kept, runs>>

CreateFails ==
  /\ phase = "create" /\ Over("error")
  /\ UNCHANGED <<vars, out, lost, kept, runs>>

(* Capture: AddImage and, if it returns no error, Close.                   *)
Add ==
  /\ phase = "capture" /\ phase' = "adding"
  /\ \E info \in Infos : AddImage(info) \/ RefuseImage(info)
  /\ UNCHANGED <<out, result, lost, kept, runs>>

WriterWorks ==
  /\ phase \in {"adding", "closing"} /\ step # "idle"
  /\ Working /\ UNCHANGED ownVars

Added ==
  /\ phase = "adding" /\ step = "idle"
  /\ phase' = IF ret = "ok" THEN "close" ELSE "drop"
  /\ UNCHANGED <<vars, out, result, lost, kept, runs>>

Finish ==
  /\ phase = "close" /\ phase' = "closing"
  /\ Close \/ RefuseClose
  /\ UNCHANGED <<out, result, lost, kept, runs>>

Finished ==
  /\ phase = "closing" /\ step = "idle"
  /\ phase' = IF ret = "ok" THEN "fclose" ELSE "drop"
  /\ UNCHANGED <<vars, out, result, lost, kept, runs>>

(* Bug: the error of the file's own Close is ignored.                      *)
CloseFileUnchecked ==
  /\ phase = "fclose" /\ Over("ok") /\ lost' = TRUE
  /\ UNCHANGED <<vars, out, kept, runs>>

CloseFile ==
  /\ phase = "fclose" /\ Over("ok")
  /\ UNCHANGED <<vars, out, lost, kept, runs>>

CloseFileFails ==
  /\ phase = "fclose" /\ phase' = "remove" /\ lost' = TRUE
  /\ UNCHANGED <<vars, out, result, kept, runs>>

(* f.Close of a file that is given up: its error is ignored.               *)
DropFile ==
  /\ phase = "drop" /\ phase' = "remove"
  /\ lost' \in BOOLEAN
  /\ UNCHANGED <<vars, out, result, kept, runs>>

(* Bug: the file is left behind.                                           *)
RemoveForgotten ==
  /\ phase = "remove" /\ Over("error")
  /\ UNCHANGED <<vars, out, lost, kept, runs>>

Remove ==
  /\ phase = "remove" /\ Over("error") /\ out' = "none"
  /\ UNCHANGED <<vars, lost, kept, runs>>

(* os.Remove fails, and its error is dropped.                              *)
RemoveFails ==
  /\ phase = "remove" /\ Over("error") /\ kept' = TRUE
  /\ UNCHANGED <<vars, out, lost, runs>>

(* The tree changes, or the context is cancelled; out is left alone.       *)
Elsewhere ==
  /\ Environment /\ (OutEntry # 0 => disk'[OutEntry] = disk[OutEntry])
  /\ UNCHANGED <<writerVars, ownVars>>

Killed == phase # "over" /\ Over("killed") /\ UNCHANGED <<vars, out, lost, kept, runs>>

(* The next call, with a Writer of its own, over what is at out now.       *)
Again ==
  /\ phase = "over" /\ runs < MaxRuns /\ runs' = runs + 1
  /\ phase' = "create" /\ result' = "none" /\ lost' = FALSE /\ kept' = FALSE
  /\ out' = IF out = "none" THEN "none" ELSE "old"
  /\ \E c \in Content : disk' = [f \in File |-> IF f = OutEntry THEN c ELSE disk[f]]
  /\ step' = "idle" /\ cursor' = 1 /\ listed' = {}
  /\ nodes' = <<>> /\ security' = <<>> /\ found' = <<>>
  /\ started' = FALSE /\ closed' = FALSE /\ err' = FALSE /\ pos' = 0
  /\ blobs' = <<>> /\ images' = <<>>
  /\ adding' = NoInfo /\ turn' = 1 /\ order' = <<>>
  /\ tableRes' = NoRes /\ xmlRes' = NoRes /\ captures' = 0 /\ ret' = "none"
  /\ UNCHANGED <<edits, cancelled, policy, opts, dstVars>>

Progress ==
  \/ Create \/ CreateFails \/ Add \/ WriterWorks \/ Added \/ Finish \/ Finished
  \/ CloseFile \/ CloseFileFails \/ DropFile \/ Remove \/ RemoveFails

CaptureDirNext == Progress \/ Elsewhere \/ Killed \/ Again

CaptureDirSpec == Init /\ [][CaptureDirNext]_cdVars

-----------------------------------------------------------------------------
(* Properties.                                                             *)

(* No error means that the WIM is there, to the last byte, with the one    *)
(* image that was captured; an error means that there is no file, or the   *)
(* one that was there before, unless it could not be removed.              *)
ResultTellsTheFile ==
  /\ result = "ok" => out = "new" /\ ~lost /\ Sealed /\ Len(images) = 1 /\ SealedFileReadsBack
  /\ result = "error" => out # "new" \/ kept

(* Whenever the process is killed, and whatever fails, a file that it      *)
(* leaves behind and that opens, also on top of an earlier WIM, is the one *)
(* image that was captured: nothing of the file before it is left, and the *)
(* header is written last.  Half a header may be enough to open it, but    *)
(* only the mark that the image is bootable is lost with the other half;   *)
(* Boot finds it without.                                                  *)
OnlyTheCaptureOpens ==
  out = "new" /\ ~lost /\ Reader!Opens(Output) =>
    Len(images) = 1 /\ ContentsReadBack /\ Reader!BootImage(Output) = 1

(* A WIM written into the directory that it captures records itself, as    *)
(* the empty file it was when the walk came by, and stores nothing of      *)
(* itself or of the file that it replaces.                                 *)
SelfIsEmpty ==
  /\ \A i \in DOMAIN found : found[i].path # OutEntry
  /\ \A i \in DOMAIN images : \A n \in Elems(images[i].meta.nodes) :
       n.entry = OutEntry => n.size = 0 /\ n.hash = ZeroHash
=============================================================================
