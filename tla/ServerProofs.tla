------------------------------ MODULE ServerProofs ------------------------------
(***************************************************************************)
(* For any number of requests, file names and restarts, the server runs    *)
(* texada on the texts of the request it answers, and leaves no file       *)
(* behind without a reason.                                                *)
(***************************************************************************)
EXTENDS Server, TLAPS

\* Where a handler's variables name the upload, the log file and the args file.
UploadStages == {"copy", "read", "unlink"}
ArgsStages   == {"write_args", "texada", "texada_args", "texada_log"}
LogStages    == {"write_log", "args_file"} \cup ArgsStages

UploadKept(r) ==
  /\ pc[r] \notin UploadStages => local[r].upload_name = 0
  /\ pc[r] \in UploadStages =>
       /\ local[r].upload_name \in 1 .. drawn
       /\ Owns(uploads, local[r].upload_name, r)
       /\ pc[r] = "copy" => uploads[local[r].upload_name].text = {}
       /\ pc[r] # "copy" => uploads[local[r].upload_name].text = body[r].log

LogKept(r) ==
  /\ pc[r] \in {"unlink", "log_file"} \cup LogStages => local[r].log = body[r].log
  /\ pc[r] \notin LogStages => local[r].log_file = NoName
  /\ pc[r] \in LogStages =>
       /\ local[r].log_file \in TmpNames
       /\ Owns(tmp, local[r].log_file, r)
       /\ pc[r] # "write_log" => tmp[local[r].log_file].text = body[r].log

ArgsKept(r) ==
  /\ pc[r] \notin ArgsStages => local[r].args_file = NoName
  /\ pc[r] \in ArgsStages =>
       /\ local[r].args_file \in TmpNames
       /\ local[r].args_file # local[r].log_file
       /\ Owns(tmp, local[r].args_file, r)
       /\ pc[r] # "write_args" => tmp[local[r].args_file].text = body[r].args

GivenRight(r) ==
  /\ pc[r] \in {"texada_args", "texada_log"} => local[r].given.args = body[r].args
  /\ pc[r] = "texada_log" => local[r].given.log = body[r].log

\* What a handler has written is still there, and is its own.
Kept(r) == UploadKept(r) /\ LogKept(r) /\ ArgsKept(r) /\ GivenRight(r)

IInv == /\ VariablesTyped
        /\ \A r \in Requests : Kept(r)
        /\ LeftFilesHaveAReason

-----------------------------------------------------------------------------
TmpReason(r)    == fault[r] \cap {"crash", "write_log", "remove"} # {}
UploadReason(r) == fault[r] \cap {"crash", "copy", "read", "unlink"} # {}

\* LeftFilesHaveAReason, file by file and owner by owner.
LEMMA FilesHaveOwners ==
  ASSUME VariablesTyped'
  PROVE  LeftFilesHaveAReason' <=>
           /\ \A n \in TmpNames, o \in Requests :
                Owns(tmp, n, o)' => n \in TmpFiles(o)' \/ TmpReason(o)'
           /\ \A n \in RandNames, o \in Requests :
                Owns(uploads, n, o)' => n = local'[o].upload_name \/ UploadReason(o)'
<1>1. ASSUME NEW n \in TmpNames, tmp'[n] # NoFile PROVE tmp'[n].owner \in Requests
  BY <1>1 DEF VariablesTyped, Files
<1>2. ASSUME NEW n \in RandNames, uploads'[n] # NoFile PROVE uploads'[n].owner \in Requests
  BY <1>2 DEF VariablesTyped, Files
<1> QED BY <1>1, <1>2 DEF LeftFilesHaveAReason, Owns, TmpReason, UploadReason, TmpFiles

\* A step of request r that touches no file but its own and new ones, and that leaves
\* none of them unaccounted for, keeps the invariant.
LEMMA StepOfOne ==
  ASSUME NEW r \in Requests, IInv, VariablesTyped', Kept(r)',
         body' = body, drawn <= drawn',
         \A s \in Requests : s # r => pc'[s] = pc[s] /\ local'[s] = local[s],
         \A s \in Requests : fault[s] \subseteq fault'[s],
         \A n \in TmpNames : tmp'[n] # tmp[n] =>
           (tmp[n] = NoFile \/ tmp[n].owner = r) /\ (tmp'[n] = NoFile \/ tmp'[n].owner = r),
         \A n \in RandNames : uploads'[n] # uploads[n] =>
           /\ uploads[n] = NoFile \/ uploads[n].owner = r \/ n > drawn
           /\ uploads'[n] = NoFile \/ uploads'[n].owner = r,
         \A n \in TmpNames : Owns(tmp, n, r)' => n \in TmpFiles(r)' \/ TmpReason(r)',
         \A n \in RandNames : Owns(uploads, n, r)' =>
           n = local'[r].upload_name \/ UploadReason(r)'
  PROVE  IInv'
<1>1. ASSUME NEW s \in Requests PROVE Kept(s)'
  <2>1. CASE s = r
    BY <2>1
  <2>2. CASE s # r
    <3>1. pc'[s] = pc[s] /\ local'[s] = local[s] /\ Kept(s)
      BY <2>2 DEF IInv
    <3>2. ASSUME NEW n \in TmpNames, Owns(tmp, n, s) PROVE tmp'[n] = tmp[n]
      BY <2>2, <3>2 DEF Owns
    <3>3. ASSUME NEW n \in 1 .. drawn, Owns(uploads, n, s) PROVE uploads'[n] = uploads[n]
      <4>1. n \in RandNames /\ ~ (n > drawn)
        <5>1. drawn \in 0 .. MaxUploads
          BY DEF IInv, VariablesTyped
        <5> QED BY ONLY <5>1, BoundsAssumption, n \in 1 .. drawn DEF RandNames
      <4> QED BY <2>2, <3>3, <4>1 DEF Owns
    <3>4. UploadKept(s)'
      <4>1. ASSUME NEW n \in 1 .. drawn PROVE n \in 1 .. drawn'
        BY DEF IInv, VariablesTyped
      <4> QED BY <3>1, <3>3, <4>1 DEF Kept, UploadKept, Owns
    <3>5. LogKept(s)' /\ ArgsKept(s)'
      BY <3>1, <3>2 DEF Kept, LogKept, ArgsKept, Owns, LogStages, ArgsStages
    <3>6. GivenRight(s)'
      BY <3>1 DEF Kept, GivenRight
    <3> QED BY <3>4, <3>5, <3>6 DEF Kept
  <2> QED BY <2>1, <2>2
<1>2. ASSUME NEW n \in TmpNames, NEW o \in Requests, Owns(tmp, n, o)'
      PROVE  n \in TmpFiles(o)' \/ TmpReason(o)'
  <2>1. CASE o = r
    BY <1>2, <2>1
  <2>2. CASE o # r
    <3>1. tmp'[n] = tmp[n]
      BY <1>2, <2>2 DEF Owns
    <3>2. n \in TmpFiles(o) \/ TmpReason(o)
      BY <1>2, <3>1 DEF IInv, LeftFilesHaveAReason, TmpReason, Owns
    <3>3. local'[o] = local[o] /\ fault[o] \subseteq fault'[o]
      BY <2>2
    <3>4. (n \in TmpFiles(o) => n \in TmpFiles(o)') /\ (TmpReason(o) => TmpReason(o)')
      BY ONLY <3>3 DEF TmpFiles, TmpReason
    <3> QED BY <3>2, <3>4
  <2> QED BY <2>1, <2>2
<1>3. ASSUME NEW n \in RandNames, NEW o \in Requests, Owns(uploads, n, o)'
      PROVE  n = local'[o].upload_name \/ UploadReason(o)'
  <2>1. CASE o = r
    BY <1>3, <2>1
  <2>2. CASE o # r
    <3>1. uploads'[n] = uploads[n]
      BY <1>3, <2>2 DEF Owns
    <3>2. n = local[o].upload_name \/ UploadReason(o)
      BY <1>3, <3>1 DEF IInv, LeftFilesHaveAReason, UploadReason, Owns
    <3>3. local'[o] = local[o] /\ fault[o] \subseteq fault'[o]
      BY <2>2
    <3>4. UploadReason(o) => UploadReason(o)'
      BY ONLY <3>3 DEF UploadReason
    <3> QED BY <3>2, <3>3, <3>4
  <2> QED BY <2>1, <2>2
<1>4. LeftFilesHaveAReason'
  BY <1>2, <1>3, FilesHaveOwners
<1> QED BY <1>1, <1>4 DEF IInv

\* So does a handler that ends: what it removed is gone, and for what it leaves there
\* is a reason.
LEMMA EndOfOne ==
  ASSUME NEW r \in Requests, NEW answer \in Ended, NEW faults \in SUBSET Faults,
         IInv, End(r, answer, faults),
         tmp' \in [TmpNames -> Files \cup {NoFile}],
         uploads' \in [RandNames -> Files \cup {NoFile}],
         drawn' \in 0 .. MaxUploads, drawn <= drawn',
         \A n \in TmpNames : tmp'[n] # tmp[n] =>
           Owns(tmp, n, r) /\ (tmp'[n] = NoFile \/ tmp'[n].owner = r),
         \A n \in RandNames : uploads'[n] # uploads[n] =>
           Owns(uploads, n, r) /\ (uploads'[n] = NoFile \/ uploads'[n].owner = r),
         \A n \in TmpFiles(r) :
           tmp'[n] = NoFile \/ faults \cap {"crash", "write_log", "remove"} # {},
         \/ local[r].upload_name = 0
         \/ faults \cap {"crash", "copy", "read", "unlink"} # {}
  PROVE  IInv'
<1>1. /\ local' = [local EXCEPT ![r] = NoLocals]
      /\ fault' = [fault EXCEPT ![r] = @ \cup faults]
      /\ pc' = [pc EXCEPT ![r] = answer]
      /\ UNCHANGED <<handler, body, restarts>>
  BY DEF End, Goto, client
<1>2. /\ local \in [Requests -> Locals]
      /\ fault \in [Requests -> SUBSET Faults]
      /\ pc \in [Requests -> Stages \cup Ended]
  BY DEF IInv, VariablesTyped
<1>3. NoLocals \in Locals
  BY DEF NoLocals, Locals, Texts
<1>4. /\ local'[r] = NoLocals
      /\ fault'[r] = fault[r] \cup faults
      /\ pc'[r] = answer
  BY <1>1, <1>2
<1>5. VariablesTyped'
  <2>1. local' \in [Requests -> Locals]
    BY <1>1, <1>2, <1>3
  <2>2. fault' \in [Requests -> SUBSET Faults]
    BY <1>1, <1>2
  <2>3. pc' \in [Requests -> Stages \cup Ended]
    BY <1>1, <1>2
  <2>4. /\ handler' \in [Requests -> {"mine", "uploadMine"}]
        /\ body' \in [Requests -> [log : Texts, args : Texts]]
        /\ restarts' \in 0 .. MaxRestarts
    BY <1>1 DEF IInv, VariablesTyped
  <2> QED BY <2>1, <2>2, <2>3, <2>4 DEF VariablesTyped
<1>6. Kept(r)'
  BY <1>4 DEF Kept, UploadKept, LogKept, ArgsKept, GivenRight, NoLocals, Ended,
              UploadStages, LogStages, ArgsStages
<1>7. ASSUME NEW s \in Requests
      PROVE  /\ s # r => pc'[s] = pc[s] /\ local'[s] = local[s]
             /\ fault[s] \subseteq fault'[s]
  BY <1>1, <1>2
<1>8. ASSUME NEW n \in TmpNames, Owns(tmp, n, r)' PROVE TmpReason(r)'
  <2>1. Owns(tmp, n, r)
    BY <1>8 DEF Owns
  <2>2. n \in TmpFiles(r) \/ TmpReason(r)
    BY <2>1 DEF IInv, LeftFilesHaveAReason, Owns, TmpReason
  <2>3. CASE n \in TmpFiles(r)
    BY <1>4, <1>8, <2>3 DEF Owns, TmpReason
  <2>4. CASE TmpReason(r)
    BY <1>4, <2>4 DEF TmpReason
  <2> QED BY <2>2, <2>3, <2>4
<1>9. ASSUME NEW n \in RandNames, Owns(uploads, n, r)' PROVE UploadReason(r)'
  <2>1. Owns(uploads, n, r)
    BY <1>9 DEF Owns
  <2>2. n = local[r].upload_name \/ UploadReason(r)
    BY <2>1 DEF IInv, LeftFilesHaveAReason, Owns, UploadReason
  <2>3. n # 0
    BY BoundsAssumption DEF RandNames
  <2> QED BY <1>4, <2>2, <2>3 DEF UploadReason
<1> HIDE DEF IInv, Owns, TmpReason, UploadReason, TmpFiles, Kept, VariablesTyped
<1>10. /\ \A n \in TmpNames : tmp'[n] # tmp[n] =>
           (tmp[n] = NoFile \/ tmp[n].owner = r) /\ (tmp'[n] = NoFile \/ tmp'[n].owner = r)
       /\ \A n \in RandNames : uploads'[n] # uploads[n] =>
           /\ uploads[n] = NoFile \/ uploads[n].owner = r \/ n > drawn
           /\ uploads'[n] = NoFile \/ uploads'[n].owner = r
  BY DEF Owns
<1> QED BY <1>1, <1>5, <1>6, <1>7, <1>8, <1>9, <1>10, StepOfOne

\* So does a handler that goes on, if it forgets none of its files.
LEMMA GoingOn ==
  ASSUME NEW r \in Requests, NEW stage \in Stages, NEW l \in Locals,
         IInv, Goto(r, stage), UNCHANGED fault,
         local' = [local EXCEPT ![r] = l],
         tmp' \in [TmpNames -> Files \cup {NoFile}],
         uploads' \in [RandNames -> Files \cup {NoFile}],
         drawn' \in 0 .. MaxUploads, drawn <= drawn',
         \A n \in TmpNames : tmp'[n] # tmp[n] =>
           (tmp[n] = NoFile \/ tmp[n].owner = r) /\ (tmp'[n] = NoFile \/ tmp'[n].owner = r),
         \A n \in RandNames : uploads'[n] # uploads[n] =>
           /\ uploads[n] = NoFile \/ uploads[n].owner = r \/ n > drawn
           /\ uploads'[n] = NoFile \/ uploads'[n].owner = r,
         \A n \in TmpNames : Owns(tmp, n, r)' =>
           n \in {l.log_file, l.args_file} \ {NoName} \/ (Owns(tmp, n, r) /\ n \notin TmpFiles(r)),
         \A n \in RandNames : Owns(uploads, n, r)' =>
           n = l.upload_name \/ (Owns(uploads, n, r) /\ n # local[r].upload_name),
         Kept(r)'
  PROVE  IInv'
<1>1. /\ pc' = [pc EXCEPT ![r] = stage]
      /\ UNCHANGED <<handler, body, restarts, fault>>
  BY DEF Goto, client
<1>2. local \in [Requests -> Locals] /\ pc \in [Requests -> Stages \cup Ended]
  BY DEF IInv, VariablesTyped
<1>3. local'[r] = l
  BY <1>2
<1>4. VariablesTyped'
  <2>1. local' \in [Requests -> Locals]
    BY <1>2
  <2>2. pc' \in [Requests -> Stages \cup Ended]
    BY <1>1, <1>2
  <2>3. /\ handler' \in [Requests -> {"mine", "uploadMine"}]
        /\ body' \in [Requests -> [log : Texts, args : Texts]]
        /\ fault' \in [Requests -> SUBSET Faults]
        /\ restarts' \in 0 .. MaxRestarts
    BY <1>1 DEF IInv, VariablesTyped
  <2> QED BY <2>1, <2>2, <2>3 DEF VariablesTyped
<1>5. ASSUME NEW s \in Requests
      PROVE  /\ s # r => pc'[s] = pc[s] /\ local'[s] = local[s]
             /\ fault[s] \subseteq fault'[s]
  BY <1>1, <1>2
<1>6. ASSUME NEW n \in TmpNames, Owns(tmp, n, r)' PROVE n \in TmpFiles(r)' \/ TmpReason(r)'
  <2>1. CASE n \in {l.log_file, l.args_file} \ {NoName}
    BY <1>3, <2>1 DEF TmpFiles
  <2>2. CASE Owns(tmp, n, r) /\ n \notin TmpFiles(r)
    BY <1>1, <2>2 DEF IInv, LeftFilesHaveAReason, Owns, TmpReason
  <2> QED BY <1>6, <2>1, <2>2
<1>7. ASSUME NEW n \in RandNames, Owns(uploads, n, r)'
      PROVE  n = local'[r].upload_name \/ UploadReason(r)'
  <2>1. CASE n = l.upload_name
    BY <1>3, <2>1
  <2>2. CASE Owns(uploads, n, r) /\ n # local[r].upload_name
    BY <1>1, <2>2 DEF IInv, LeftFilesHaveAReason, Owns, UploadReason
  <2> QED BY <1>7, <2>1, <2>2
<1> HIDE DEF IInv, Owns, TmpReason, UploadReason, TmpFiles, Kept, VariablesTyped
<1> QED BY <1>1, <1>4, <1>5, <1>6, <1>7, StepOfOne

\* What the invariant says of the request a handler works for.
LEMMA Typed ==
  ASSUME NEW r \in Requests, IInv
  PROVE  /\ local \in [Requests -> Locals]
         /\ local[r] \in Locals
         /\ body[r] \in [log : Texts, args : Texts]
         /\ tmp \in [TmpNames -> Files \cup {NoFile}]
         /\ uploads \in [RandNames -> Files \cup {NoFile}]
         /\ drawn \in 0 .. MaxUploads /\ drawn <= drawn
         /\ pc \in [Requests -> Stages \cup Ended]
         /\ Kept(r)
BY BoundsAssumption DEF IInv, VariablesTyped

\* Removing its files in /tmp, a request leaves those that os.Remove failed for.
LEMMA CleanUpKeeps ==
  ASSUME NEW r \in Requests, NEW answer \in Ended, NEW faults \in SUBSET Faults,
         IInv, pc[r] \in LogStages, CleanUp(r, answer, faults), UNCHANGED <<uploads, drawn>>
  PROVE  IInv'
<1>1. PICK kept \in SUBSET TmpFiles(r) :
        Remove(TmpFiles(r), kept) /\ End(r, answer, faults \cup Failed(kept))
  BY DEF CleanUp
<1>2. local[r].upload_name = 0
  BY Typed DEF Kept, UploadKept, UploadStages, LogStages, ArgsStages
<1>3. faults \cup Failed(kept) \in SUBSET Faults
  BY DEF Failed, Faults
<1>4. \A n \in TmpFiles(r) : n \in TmpNames /\ Owns(tmp, n, r)
  BY Typed DEF Kept, LogKept, ArgsKept, TmpFiles
<1>5. /\ tmp' \in [TmpNames -> Files \cup {NoFile}]
      /\ \A n \in TmpNames : tmp'[n] # tmp[n] => n \in TmpFiles(r) /\ tmp'[n] = NoFile
      /\ \A n \in TmpFiles(r) : n \notin kept => tmp'[n] = NoFile
  BY <1>1, <1>4, Typed DEF Remove
<1>6. \A n \in TmpFiles(r) : tmp'[n] = NoFile
                          \/ (faults \cup Failed(kept)) \cap {"crash", "write_log", "remove"} # {}
  BY <1>5 DEF Failed
<1> HIDE DEF TmpFiles, Kept
<1> QED BY <1>1, <1>2, <1>3, <1>4, <1>5, <1>6, Typed, EndOfOne

\* The same for a step that touches no file.
LEMMA GoingOnAlone ==
  ASSUME NEW r \in Requests, NEW stage \in Stages, NEW l \in Locals,
         IInv, Goto(r, stage), UNCHANGED <<tmp, uploads, drawn, fault>>,
         local' = [local EXCEPT ![r] = l],
         l.log_file = local[r].log_file, l.args_file = local[r].args_file,
         l.upload_name = local[r].upload_name,
         Kept(r)'
  PROVE  IInv'
<1>1. /\ tmp' \in [TmpNames -> Files \cup {NoFile}]
      /\ uploads' \in [RandNames -> Files \cup {NoFile}]
      /\ drawn' \in 0 .. MaxUploads /\ drawn <= drawn'
  BY Typed
<1>2. \A n \in TmpNames : Owns(tmp, n, r)' =>
        n \in {l.log_file, l.args_file} \ {NoName} \/ (Owns(tmp, n, r) /\ n \notin TmpFiles(r))
  BY DEF Owns, TmpFiles
<1>3. \A n \in RandNames : Owns(uploads, n, r)' =>
        n = l.upload_name \/ (Owns(uploads, n, r) /\ n # local[r].upload_name)
  BY DEF Owns
<1> HIDE DEF Kept, Owns, TmpFiles, IInv, Goto
<1> QED BY <1>1, <1>2, <1>3, GoingOn

-----------------------------------------------------------------------------
(***************************************************************************)
(* One lemma for each action.                                              *)
(***************************************************************************)
LEMMA MineHandlerKeeps ==
  ASSUME NEW r \in Requests, IInv, MineHandler(r) PROVE IInv'
<1> DEFINE l == [local[r] EXCEPT !.log = body[r].log]
<1>1. l \in Locals /\ local' = [local EXCEPT ![r] = l]
  BY Typed DEF MineHandler, Locals
<1>2. Goto(r, "log_file") /\ pc[r] = "idle" /\ UNCHANGED <<tmp, uploads, drawn, fault>>
  BY DEF MineHandler, files
<1>3. Kept(r)'
  <2>1. local'[r] = l /\ pc'[r] = "log_file" /\ body' = body
    BY <1>1, <1>2, Typed DEF Goto, client
  <2> QED BY <1>2, <2>1, Typed DEF Kept, UploadKept, LogKept, ArgsKept, GivenRight, Locals,
                              UploadStages, LogStages, ArgsStages
<1>4. /\ l.log_file = local[r].log_file
      /\ l.args_file = local[r].args_file
      /\ l.upload_name = local[r].upload_name
  BY Typed DEF Locals
<1>5. "log_file" \in Stages
  BY DEF Stages
<1> HIDE DEF l, Kept, IInv, Goto, Stages
<1> QED BY <1>1, <1>2, <1>3, <1>4, <1>5, GoingOnAlone

LEMMA UploadMineHandlerKeeps ==
  ASSUME NEW r \in Requests, IInv, UploadMineHandler(r) PROVE IInv'
<1>1. /\ pc[r] = "idle"
      /\ UNCHANGED <<tmp, uploads, drawn>>
      /\ local[r].upload_name = 0
      /\ TmpFiles(r) = {}
  BY Typed DEF UploadMineHandler, files, Kept, UploadKept, LogKept, ArgsKept, TmpFiles,
               UploadStages, LogStages, ArgsStages
<1>2. CASE Goto(r, "create") /\ UNCHANGED <<local, fault>>
  <2>1. local' = [local EXCEPT ![r] = local[r]]
    BY <1>2, Typed
  <2>2. Kept(r)'
    <3>1. pc'[r] = "create" /\ body' = body
      BY <1>2, Typed DEF Goto, client
    <3> QED BY <1>1, <1>2, <3>1, Typed DEF Kept, UploadKept, LogKept, ArgsKept, GivenRight,
                                       UploadStages, LogStages, ArgsStages
  <2>3. "create" \in Stages /\ local[r] \in Locals
    BY Typed DEF Stages
  <2> HIDE DEF Kept, IInv, Goto
  <2> QED BY <1>1, <1>2, <2>1, <2>2, <2>3, GoingOnAlone
<1>3. CASE End(r, "error", {})
  <2> HIDE DEF TmpFiles, IInv
  <2> QED BY <1>1, <1>3, Typed, EndOfOne DEF Ended
<1> QED BY <1>2, <1>3 DEF UploadMineHandler

LEMMA ReadUploadKeeps ==
  ASSUME NEW r \in Requests, IInv, ReadUpload(r) PROVE IInv'
<1> DEFINE l == [local[r] EXCEPT !.log = uploads[local[r].upload_name].text]
<1>1. CASE Goto(r, "unlink") /\ local' = [local EXCEPT ![r] = l] /\ UNCHANGED fault
  <2>1. pc[r] = "read" /\ UNCHANGED <<tmp, uploads, drawn>>
    BY DEF ReadUpload, files
  <2>2. l \in Locals
    <3>1. uploads[local[r].upload_name].text \in Texts
      BY <2>1, Typed DEF Kept, UploadKept, UploadStages
    <3> QED BY <3>1, Typed DEF Locals
  <2>3. Kept(r)'
    <3>1. local'[r] = l /\ pc'[r] = "unlink" /\ body' = body
      BY <1>1, Typed DEF Goto, client
    <3> QED BY <2>1, <3>1, Typed DEF Kept, UploadKept, LogKept, ArgsKept, GivenRight, Locals,
                              UploadStages, LogStages, ArgsStages, Owns
  <2>4. /\ l.log_file = local[r].log_file
        /\ l.args_file = local[r].args_file
        /\ l.upload_name = local[r].upload_name
    BY Typed DEF Locals
  <2>5. "unlink" \in Stages
    BY DEF Stages
  <2> HIDE DEF l, Kept, IInv, Goto, Stages
  <2> QED BY <1>1, <2>1, <2>2, <2>3, <2>4, <2>5, GoingOnAlone
<1>2. CASE End(r, "error", {"read"})
  <2>1. UNCHANGED <<tmp, uploads, drawn>> /\ TmpFiles(r) = {}
    BY Typed DEF ReadUpload, files, Kept, LogKept, ArgsKept, TmpFiles, LogStages, ArgsStages
  <2>2. {"read"} \in SUBSET Faults /\ {"read"} \cap {"crash", "copy", "read", "unlink"} # {}
    BY DEF Faults
  <2> HIDE DEF TmpFiles, IInv, End
  <2> QED BY <1>2, <2>1, <2>2, Typed, EndOfOne DEF Ended
<1> QED BY <1>1, <1>2 DEF ReadUpload

LEMMA TexadaReadsArgsKeeps ==
  ASSUME NEW r \in Requests, IInv, TexadaReadsArgs(r) PROVE IInv'
<1> DEFINE l == [local[r] EXCEPT !.given.args = tmp[local[r].args_file].text]
<1>1. CASE Goto(r, "texada_args") /\ local' = [local EXCEPT ![r] = l] /\ UNCHANGED fault
  <2>1. pc[r] = "texada" /\ UNCHANGED <<tmp, uploads, drawn>>
    BY DEF TexadaReadsArgs, files
  <2>2. l \in Locals
    <3>1. tmp[local[r].args_file].text \in Texts
      BY <2>1, Typed DEF Kept, ArgsKept, ArgsStages
    <3> QED BY <3>1, Typed DEF Locals
  <2>3. Kept(r)'
    <3>1. local'[r] = l /\ pc'[r] = "texada_args" /\ body' = body
      BY <1>1, Typed DEF Goto, client
    <3> QED BY <2>1, <3>1, Typed DEF Kept, UploadKept, LogKept, ArgsKept, GivenRight, Locals,
                              UploadStages, LogStages, ArgsStages, Owns
  <2>4. /\ l.log_file = local[r].log_file
        /\ l.args_file = local[r].args_file
        /\ l.upload_name = local[r].upload_name
    BY Typed DEF Locals
  <2>5. "texada_args" \in Stages
    BY DEF Stages
  <2> HIDE DEF l, Kept, IInv, Goto, Stages
  <2> QED BY <1>1, <2>1, <2>2, <2>3, <2>4, <2>5, GoingOnAlone
<1> QED BY <1>1 DEF TexadaReadsArgs

LEMMA TexadaReadsLogKeeps ==
  ASSUME NEW r \in Requests, IInv, TexadaReadsLog(r) PROVE IInv'
<1> DEFINE l == [local[r] EXCEPT !.given.log = tmp[local[r].log_file].text]
<1>1. CASE Goto(r, "texada_log") /\ local' = [local EXCEPT ![r] = l] /\ UNCHANGED fault
  <2>1. pc[r] = "texada_args" /\ UNCHANGED <<tmp, uploads, drawn>>
    BY DEF TexadaReadsLog, files
  <2>2. l \in Locals
    <3>1. tmp[local[r].log_file].text \in Texts
      BY <2>1, Typed DEF Kept, LogKept, LogStages, ArgsStages
    <3> QED BY <3>1, Typed DEF Locals
  <2>3. Kept(r)'
    <3>1. local'[r] = l /\ pc'[r] = "texada_log" /\ body' = body
      BY <1>1, Typed DEF Goto, client
    <3> QED BY <2>1, <3>1, Typed DEF Kept, UploadKept, LogKept, ArgsKept, GivenRight, Locals,
                              UploadStages, LogStages, ArgsStages, Owns
  <2>4. /\ l.log_file = local[r].log_file
        /\ l.args_file = local[r].args_file
        /\ l.upload_name = local[r].upload_name
    BY Typed DEF Locals
  <2>5. "texada_log" \in Stages
    BY DEF Stages
  <2> HIDE DEF l, Kept, IInv, Goto, Stages
  <2> QED BY <1>1, <2>1, <2>2, <2>3, <2>4, <2>5, GoingOnAlone
<1> QED BY <1>1 DEF TexadaReadsLog

LEMMA TexadaFailsKeeps ==
  ASSUME NEW r \in Requests, IInv, TexadaFails(r) PROVE IInv'
<1>1. pc[r] \in LogStages /\ CleanUp(r, "error", {}) /\ UNCHANGED <<uploads, drawn>>
  BY DEF TexadaFails, LogStages, ArgsStages
<1> HIDE DEF IInv, CleanUp
<1> QED BY <1>1, CleanUpKeeps DEF Ended

LEMMA AnswerKeeps ==
  ASSUME NEW r \in Requests, IInv, Answer(r) PROVE IInv'
<1>1. pc[r] \in LogStages /\ CleanUp(r, "ok", {}) /\ UNCHANGED <<uploads, drawn>>
  BY DEF Answer, LogStages, ArgsStages
<1> HIDE DEF IInv, CleanUp
<1> QED BY <1>1, CleanUpKeeps DEF Ended

LEMMA CreateUploadKeeps ==
  ASSUME NEW r \in Requests, IInv, CreateUpload(r) PROVE IInv'
<1> DEFINE l    == [local[r] EXCEPT !.upload_name = drawn + 1]
           file == [owner |-> r, text |-> {}]
<1>1. /\ pc[r] = "create" /\ drawn' = drawn + 1 /\ UNCHANGED tmp
      /\ drawn + 1 \in RandNames /\ drawn + 1 \in 1 .. drawn' /\ drawn' \in 0 .. MaxUploads
      /\ drawn <= drawn' /\ drawn + 1 > drawn
  BY BoundsAssumption, Typed DEF CreateUpload, RandNames
<1>2. local[r].upload_name = 0 /\ TmpFiles(r) = {}
  BY <1>1, Typed DEF Kept, UploadKept, LogKept, ArgsKept, TmpFiles, UploadStages, LogStages, ArgsStages
<1>3. CASE /\ local' = [local EXCEPT ![r] = l]
           /\ uploads' = [uploads EXCEPT ![drawn + 1] = file]
           /\ Goto(r, "copy") /\ UNCHANGED fault
  <2>1. l \in Locals /\ "copy" \in Stages
    BY <1>1, Typed DEF Locals, Stages
  <2>2. /\ uploads' \in [RandNames -> Files \cup {NoFile}]
        /\ \A n \in RandNames : n # drawn + 1 => uploads'[n] = uploads[n]
        /\ uploads'[drawn + 1] = file /\ file # NoFile
    BY <1>1, <1>3, Typed, NoFileAssumption DEF Files, Texts
  <2>3. Kept(r)'
    <3>1. local'[r] = l /\ pc'[r] = "copy" /\ body' = body
      BY <1>3, Typed DEF Goto, client
    <3> QED BY <1>1, <2>2, <3>1, Typed DEF Kept, UploadKept, LogKept, ArgsKept, GivenRight, Locals,
                                       UploadStages, LogStages, ArgsStages, Owns
  <2>4. \A n \in RandNames : uploads'[n] # uploads[n] =>
          /\ uploads[n] = NoFile \/ uploads[n].owner = r \/ n > drawn
          /\ uploads'[n] = NoFile \/ uploads'[n].owner = r
    BY <1>1, <2>2
  <2>5. \A n \in TmpNames : Owns(tmp, n, r)' =>
          n \in {l.log_file, l.args_file} \ {NoName} \/ (Owns(tmp, n, r) /\ n \notin TmpFiles(r))
    BY <1>1, <1>2 DEF Owns
  <2>6. \A n \in RandNames : Owns(uploads, n, r)' =>
          n = l.upload_name \/ (Owns(uploads, n, r) /\ n # local[r].upload_name)
    <3>1. l.upload_name = drawn + 1
      BY Typed DEF Locals
    <3>2. 0 \notin RandNames
      BY BoundsAssumption DEF RandNames
    <3> QED BY <1>2, <2>2, <3>1, <3>2 DEF Owns
  <2> HIDE DEF l, file, Kept, IInv, Goto, Stages, TmpFiles, Owns
  <2> QED BY <1>1, <1>3, <2>1, <2>2, <2>3, <2>4, <2>5, <2>6, Typed, GoingOn
<1>4. CASE End(r, "error", {}) /\ UNCHANGED uploads
  <2> HIDE DEF TmpFiles, IInv, End
  <2> QED BY <1>1, <1>2, <1>4, Typed, EndOfOne DEF Ended
<1> QED BY <1>1, <1>3, <1>4 DEF CreateUpload, Created

LEMMA CopyUploadKeeps ==
  ASSUME NEW r \in Requests, IInv, CopyUpload(r) PROVE IInv'
<1> DEFINE name == local[r].upload_name
<1>1. /\ pc[r] = "copy" /\ UNCHANGED <<tmp, drawn>>
      /\ name \in RandNames /\ name # 0 /\ name \in 1 .. drawn
      /\ Owns(uploads, name, r) /\ uploads[name].text = {} /\ uploads[name] \in Files
  BY BoundsAssumption, Typed DEF CopyUpload, RandNames, Kept, UploadKept, UploadStages, Owns
<1>2. TmpFiles(r) = {}
  BY <1>1, Typed DEF Kept, LogKept, ArgsKept, TmpFiles, LogStages, ArgsStages
<1>3. ASSUME NEW part \in SUBSET body[r].log,
             uploads' = [uploads EXCEPT ![name].text = @ \cup part]
      PROVE  /\ uploads' \in [RandNames -> Files \cup {NoFile}]
             /\ \A n \in RandNames : n # name => uploads'[n] = uploads[n]
             /\ uploads'[name].text = part /\ uploads'[name] \in Files /\ uploads'[name].owner = r
  <2>1. [uploads[name] EXCEPT !.text = @ \cup part] \in Files
    BY <1>1, Typed DEF Files, Texts
  <2>2. /\ [uploads[name] EXCEPT !.text = @ \cup part].text = part
        /\ [uploads[name] EXCEPT !.text = @ \cup part].owner = r
    BY <1>1 DEF Files, Owns
  <2> QED BY <1>1, <1>3, <2>1, <2>2, Typed
<1>4. CASE /\ uploads' = [uploads EXCEPT ![name].text = @ \cup body[r].log]
           /\ Goto(r, "read") /\ UNCHANGED <<local, fault>>
  <2>1. /\ uploads' \in [RandNames -> Files \cup {NoFile}]
        /\ \A n \in RandNames : n # name => uploads'[n] = uploads[n]
        /\ uploads'[name].text = body[r].log /\ uploads'[name] # NoFile /\ uploads'[name].owner = r
    BY <1>3, <1>4, NoFileAssumption
  <2>2. local' = [local EXCEPT ![r] = local[r]] /\ local[r] \in Locals /\ "read" \in Stages
    BY <1>4, Typed DEF Stages
  <2>3. Kept(r)'
    <3>1. local'[r] = local[r] /\ pc'[r] = "read" /\ body' = body
      BY <1>4, Typed DEF Goto, client
    <3> QED BY <1>1, <2>1, <3>1, Typed DEF Kept, UploadKept, LogKept, ArgsKept, GivenRight, Locals,
                                       UploadStages, LogStages, ArgsStages, Owns
  <2>4. \A n \in RandNames : uploads'[n] # uploads[n] =>
          /\ uploads[n] = NoFile \/ uploads[n].owner = r \/ n > drawn
          /\ uploads'[n] = NoFile \/ uploads'[n].owner = r
    BY <1>1, <2>1 DEF Owns
  <2>5. \A n \in TmpNames : Owns(tmp, n, r)' => Owns(tmp, n, r) /\ n \notin TmpFiles(r)
    BY <1>1, <1>2 DEF Owns
  <2>6. \A n \in RandNames : Owns(uploads, n, r)' =>
          n = local[r].upload_name \/ (Owns(uploads, n, r) /\ n # local[r].upload_name)
    BY <2>1 DEF Owns
  <2> HIDE DEF name, Kept, IInv, Goto, Stages, TmpFiles, Owns
  <2> QED BY <1>1, <1>4, <2>1, <2>2, <2>3, <2>4, <2>5, <2>6, Typed, GoingOn
<1>5. CASE \E part \in SUBSET body[r].log :
             /\ uploads' = [uploads EXCEPT ![name].text = @ \cup part]
             /\ End(r, "error", {"copy"})
  <2>1. {"copy"} \in SUBSET Faults /\ {"copy"} \cap {"crash", "copy", "read", "unlink"} # {}
    BY DEF Faults
  <2>2. /\ uploads' \in [RandNames -> Files \cup {NoFile}]
        /\ \A n \in RandNames : uploads'[n] # uploads[n] =>
             Owns(uploads, n, r) /\ uploads'[n].owner = r
    BY <1>1, <1>3, <1>5
  <2> HIDE DEF name, TmpFiles, IInv, End, Owns
  <2> QED BY <1>1, <1>2, <1>5, <2>1, <2>2, Typed, EndOfOne DEF Ended
<1> QED BY <1>1, <1>4, <1>5 DEF CopyUpload

LEMMA RemoveUploadKeeps ==
  ASSUME NEW r \in Requests, IInv, RemoveUpload(r) PROVE IInv'
<1> DEFINE l    == [local[r] EXCEPT !.upload_name = 0]
           name == local[r].upload_name
<1>1. /\ pc[r] = "unlink" /\ UNCHANGED <<tmp, drawn>>
      /\ name \in RandNames /\ name # 0 /\ name \in 1 .. drawn /\ Owns(uploads, name, r)
  BY BoundsAssumption, Typed DEF RemoveUpload, RandNames, Kept, UploadKept, UploadStages
<1>2. TmpFiles(r) = {} /\ local[r].log_file = NoName /\ local[r].args_file = NoName
  BY <1>1, Typed DEF Kept, LogKept, ArgsKept, TmpFiles, LogStages, ArgsStages
<1>3. CASE /\ uploads' = [uploads EXCEPT ![name] = NoFile]
           /\ local' = [local EXCEPT ![r] = l]
           /\ Goto(r, "log_file") /\ UNCHANGED fault
  <2>1. l \in Locals /\ l.upload_name = 0 /\ "log_file" \in Stages
    BY Typed DEF Locals, Stages
  <2>2. /\ uploads' \in [RandNames -> Files \cup {NoFile}]
        /\ \A n \in RandNames : n # name => uploads'[n] = uploads[n]
        /\ uploads'[name] = NoFile
    BY <1>1, <1>3, Typed
  <2>3. Kept(r)'
    <3>1. local'[r] = l /\ pc'[r] = "log_file" /\ body' = body
      BY <1>3, Typed DEF Goto, client
    <3> QED BY <1>1, <1>2, <3>1, Typed DEF Kept, UploadKept, LogKept, ArgsKept, GivenRight, Locals,
                                       UploadStages, LogStages, ArgsStages, Owns
  <2>4. \A n \in RandNames : uploads'[n] # uploads[n] =>
          /\ uploads[n] = NoFile \/ uploads[n].owner = r \/ n > drawn
          /\ uploads'[n] = NoFile \/ uploads'[n].owner = r
    BY <1>1, <2>2 DEF Owns
  <2>5. \A n \in TmpNames : Owns(tmp, n, r)' => Owns(tmp, n, r) /\ n \notin TmpFiles(r)
    BY <1>1, <1>2 DEF Owns
  <2>6. \A n \in RandNames : Owns(uploads, n, r)' =>
          n = l.upload_name \/ (Owns(uploads, n, r) /\ n # local[r].upload_name)
    BY <2>2 DEF Owns
  <2> HIDE DEF l, name, Kept, IInv, Goto, Stages, TmpFiles, Owns
  <2> QED BY <1>1, <1>3, <2>1, <2>2, <2>3, <2>4, <2>5, <2>6, Typed, GoingOn
<1>4. CASE End(r, "error", {"unlink"}) /\ UNCHANGED uploads
  <2>1. {"unlink"} \in SUBSET Faults /\ {"unlink"} \cap {"crash", "copy", "read", "unlink"} # {}
    BY DEF Faults
  <2> HIDE DEF name, TmpFiles, IInv, End
  <2> QED BY <1>1, <1>2, <1>4, <2>1, Typed, EndOfOne DEF Ended
<1> QED BY <1>3, <1>4 DEF RemoveUpload

LEMMA MakeLogFileKeeps ==
  ASSUME NEW r \in Requests, IInv, MakeLogFile(r) PROVE IInv'
<1>1. /\ pc[r] = "log_file" /\ UNCHANGED <<uploads, drawn>>
      /\ TmpFiles(r) = {} /\ local[r].upload_name = 0 /\ local[r].args_file = NoName
  BY Typed DEF MakeLogFile, Kept, UploadKept, LogKept, ArgsKept, TmpFiles,
               UploadStages, LogStages, ArgsStages
<1>2. ASSUME NEW n \in TmpNames, FreeName(n),
             local' = [local EXCEPT ![r].log_file = n],
             tmp' = [tmp EXCEPT ![n] = [owner |-> r, text |-> {}]],
             Goto(r, "write_log"), UNCHANGED fault
      PROVE  IInv'
  <2> DEFINE l    == [local[r] EXCEPT !.log_file = n]
             file == [owner |-> r, text |-> {}]
  <2>1. l \in Locals /\ l.log_file = n /\ l.args_file = NoName /\ "write_log" \in Stages
    BY <1>1, Typed DEF Locals, Stages
  <2>2. /\ tmp' \in [TmpNames -> Files \cup {NoFile}]
        /\ \A m \in TmpNames : m # n => tmp'[m] = tmp[m]
        /\ tmp'[n] = file /\ file # NoFile /\ tmp[n] = NoFile
    BY <1>2, Typed, NoFileAssumption DEF Files, Texts, FreeName
  <2>3. Kept(r)'
    <3>1. local'[r] = l /\ pc'[r] = "write_log" /\ body' = body
      BY <1>2, Typed DEF Goto, client
    <3> QED BY <1>1, <2>1, <2>2, <3>1, Typed DEF Kept, UploadKept, LogKept, ArgsKept, GivenRight, Locals,
                                       UploadStages, LogStages, ArgsStages, Owns
  <2>4. \A m \in TmpNames : tmp'[m] # tmp[m] =>
          (tmp[m] = NoFile \/ tmp[m].owner = r) /\ (tmp'[m] = NoFile \/ tmp'[m].owner = r)
    BY <2>2
  <2>5. \A m \in TmpNames : Owns(tmp, m, r)' =>
          m \in {l.log_file, l.args_file} \ {NoName} \/ (Owns(tmp, m, r) /\ m \notin TmpFiles(r))
    BY <1>1, <2>1, <2>2, NamesAssumption DEF Owns
  <2>6. \A m \in RandNames : Owns(uploads, m, r)' => Owns(uploads, m, r) /\ m # local[r].upload_name
    BY <1>1, BoundsAssumption DEF Owns, RandNames
  <2>7. local' = [local EXCEPT ![r] = l]
    BY <1>2
  <2> HIDE DEF l, file, Kept, IInv, Goto, Stages, TmpFiles, Owns
  <2> QED BY <1>1, <1>2, <2>1, <2>2, <2>3, <2>4, <2>5, <2>6, <2>7, Typed, GoingOn
<1>3. CASE End(r, "error", {}) /\ UNCHANGED tmp
  <2> HIDE DEF TmpFiles, IInv, End
  <2> QED BY <1>1, <1>3, Typed, EndOfOne DEF Ended
<1> QED BY <1>2, <1>3 DEF MakeLogFile

LEMMA WriteLogKeeps ==
  ASSUME NEW r \in Requests, IInv, WriteLog(r) PROVE IInv'
<1> DEFINE name == local[r].log_file
<1>1. /\ pc[r] = "write_log" /\ UNCHANGED <<uploads, drawn>>
      /\ name \in TmpNames /\ Owns(tmp, name, r) /\ tmp[name] \in Files
      /\ TmpFiles(r) = {name} /\ local[r].upload_name = 0 /\ local[r].args_file = NoName
      /\ local[r].log = body[r].log
  BY NamesAssumption, Typed DEF WriteLog, Kept, UploadKept, LogKept, ArgsKept, TmpFiles,
                                UploadStages, LogStages, ArgsStages, Owns
<1>2. ASSUME NEW text \in SUBSET local[r].log, tmp' = [tmp EXCEPT ![name].text = text]
      PROVE  /\ tmp' \in [TmpNames -> Files \cup {NoFile}]
             /\ \A n \in TmpNames : n # name => tmp'[n] = tmp[n]
             /\ tmp'[name].text = text /\ tmp'[name] \in Files /\ tmp'[name].owner = r
  <2>1. [tmp[name] EXCEPT !.text = text] \in Files
    BY <1>1, Typed DEF Files, Texts
  <2>2. /\ [tmp[name] EXCEPT !.text = text].text = text
        /\ [tmp[name] EXCEPT !.text = text].owner = r
    BY <1>1 DEF Files, Owns
  <2> QED BY <1>1, <1>2, <2>1, <2>2, Typed
<1>3. CASE /\ tmp' = [tmp EXCEPT ![name].text = local[r].log]
           /\ Goto(r, "args_file") /\ UNCHANGED <<local, fault>>
  <2>1. /\ tmp' \in [TmpNames -> Files \cup {NoFile}]
        /\ \A n \in TmpNames : n # name => tmp'[n] = tmp[n]
        /\ tmp'[name].text = body[r].log /\ tmp'[name] # NoFile /\ tmp'[name].owner = r
    BY <1>1, <1>2, <1>3, NoFileAssumption
  <2>2. local' = [local EXCEPT ![r] = local[r]] /\ local[r] \in Locals /\ "args_file" \in Stages
    BY <1>3, Typed DEF Stages
  <2>3. Kept(r)'
    <3>1. local'[r] = local[r] /\ pc'[r] = "args_file" /\ body' = body
      BY <1>3, Typed DEF Goto, client
    <3> QED BY <1>1, <2>1, <3>1, Typed DEF Kept, UploadKept, LogKept, ArgsKept, GivenRight, Locals,
                                       UploadStages, LogStages, ArgsStages, Owns
  <2>4. \A n \in TmpNames : tmp'[n] # tmp[n] =>
          (tmp[n] = NoFile \/ tmp[n].owner = r) /\ (tmp'[n] = NoFile \/ tmp'[n].owner = r)
    BY <1>1, <2>1 DEF Owns
  <2>5. \A n \in TmpNames : Owns(tmp, n, r)' =>
          n \in {local[r].log_file, local[r].args_file} \ {NoName}
          \/ (Owns(tmp, n, r) /\ n \notin TmpFiles(r))
    BY <1>1, <2>1, NamesAssumption DEF Owns
  <2>6. \A n \in RandNames : Owns(uploads, n, r)' => Owns(uploads, n, r) /\ n # local[r].upload_name
    BY <1>1, BoundsAssumption DEF Owns, RandNames
  <2> HIDE DEF name, Kept, IInv, Goto, Stages, TmpFiles, Owns
  <2> QED BY <1>1, <1>3, <2>1, <2>2, <2>3, <2>4, <2>5, <2>6, Typed, GoingOn
<1>4. CASE \E part \in SUBSET local[r].log :
             /\ tmp' = [tmp EXCEPT ![name].text = part]
             /\ End(r, "dropped", {"write_log"})
  <2>1. {"write_log"} \in SUBSET Faults /\ {"write_log"} \cap {"crash", "write_log", "remove"} # {}
    BY DEF Faults
  <2>2. /\ tmp' \in [TmpNames -> Files \cup {NoFile}]
        /\ \A n \in TmpNames : tmp'[n] # tmp[n] => Owns(tmp, n, r) /\ tmp'[n].owner = r
    BY <1>1, <1>2, <1>4
  <2> HIDE DEF name, TmpFiles, IInv, End, Owns
  <2> QED BY <1>1, <1>4, <2>1, <2>2, Typed, EndOfOne DEF Ended
<1> QED BY <1>3, <1>4 DEF WriteLog

LEMMA MakeArgsFileKeeps ==
  ASSUME NEW r \in Requests, IInv, MakeArgsFile(r) PROVE IInv'
<1> DEFINE name == local[r].log_file
<1>1. /\ pc[r] = "args_file" /\ UNCHANGED <<uploads, drawn>>
      /\ name \in TmpNames /\ Owns(tmp, name, r) /\ tmp[name].text = body[r].log
      /\ TmpFiles(r) = {name} /\ local[r].upload_name = 0 /\ local[r].log = body[r].log
  BY NamesAssumption, Typed DEF MakeArgsFile, Kept, UploadKept, LogKept, ArgsKept, TmpFiles,
                                UploadStages, LogStages, ArgsStages
<1>2. ASSUME NEW n \in TmpNames, FreeName(n),
             local' = [local EXCEPT ![r].args_file = n],
             tmp' = [tmp EXCEPT ![n] = [owner |-> r, text |-> {}]],
             Goto(r, "write_args"), UNCHANGED fault
      PROVE  IInv'
  <2> DEFINE l    == [local[r] EXCEPT !.args_file = n]
             file == [owner |-> r, text |-> {}]
  <2>1. l \in Locals /\ l.log_file = name /\ l.args_file = n /\ "write_args" \in Stages
    BY Typed DEF Locals, Stages
  <2>2. /\ tmp' \in [TmpNames -> Files \cup {NoFile}]
        /\ \A m \in TmpNames : m # n => tmp'[m] = tmp[m]
        /\ tmp'[n] = file /\ file # NoFile /\ tmp[n] = NoFile /\ n # name
    BY <1>1, <1>2, Typed, NoFileAssumption DEF Files, Texts, FreeName, Owns
  <2>3. Kept(r)'
    <3>1. local'[r] = l /\ pc'[r] = "write_args" /\ body' = body
      BY <1>2, Typed DEF Goto, client
    <3> QED BY <1>1, <2>1, <2>2, <3>1, Typed DEF Kept, UploadKept, LogKept, ArgsKept, GivenRight, Locals,
                                       UploadStages, LogStages, ArgsStages, Owns
  <2>4. \A m \in TmpNames : tmp'[m] # tmp[m] =>
          (tmp[m] = NoFile \/ tmp[m].owner = r) /\ (tmp'[m] = NoFile \/ tmp'[m].owner = r)
    BY <2>2
  <2>5. \A m \in TmpNames : Owns(tmp, m, r)' =>
          m \in {l.log_file, l.args_file} \ {NoName} \/ (Owns(tmp, m, r) /\ m \notin TmpFiles(r))
    BY <1>1, <2>1, <2>2, NamesAssumption DEF Owns
  <2>6. \A m \in RandNames : Owns(uploads, m, r)' => Owns(uploads, m, r) /\ m # local[r].upload_name
    BY <1>1, BoundsAssumption DEF Owns, RandNames
  <2>7. local' = [local EXCEPT ![r] = l]
    BY <1>2
  <2> HIDE DEF l, name, file, Kept, IInv, Goto, Stages, TmpFiles, Owns
  <2> QED BY <1>1, <1>2, <2>1, <2>2, <2>3, <2>4, <2>5, <2>6, <2>7, Typed, GoingOn
<1>3. CASE CleanUp(r, "error", {})
  <2>1. pc[r] \in LogStages
    BY <1>1 DEF LogStages
  <2> HIDE DEF IInv, CleanUp
  <2> QED BY <1>1, <1>3, <2>1, CleanUpKeeps DEF Ended
<1> QED BY <1>2, <1>3 DEF MakeArgsFile

LEMMA WriteArgsKeeps ==
  ASSUME NEW r \in Requests, IInv, WriteArgs(r) PROVE IInv'
<1> DEFINE name == local[r].args_file
<1>1. /\ pc[r] = "write_args" /\ UNCHANGED <<uploads, drawn>>
      /\ name \in TmpNames /\ Owns(tmp, name, r) /\ tmp[name] \in Files
      /\ local[r].log_file # name /\ local[r].upload_name = 0
  BY Typed DEF WriteArgs, Kept, UploadKept, LogKept, ArgsKept, UploadStages, LogStages,
               ArgsStages, Owns
<1>2. CASE /\ tmp' = [tmp EXCEPT ![name].text = body[r].args]
           /\ Goto(r, "texada") /\ UNCHANGED <<local, fault>>
  <2>1. /\ tmp' \in [TmpNames -> Files \cup {NoFile}]
        /\ \A n \in TmpNames : n # name => tmp'[n] = tmp[n]
        /\ tmp'[name].text = body[r].args /\ tmp'[name] # NoFile /\ tmp'[name].owner = r
    <3>1. [tmp[name] EXCEPT !.text = body[r].args] \in Files
      BY <1>1, Typed DEF Files, Texts
    <3>2. /\ [tmp[name] EXCEPT !.text = body[r].args].text = body[r].args
          /\ [tmp[name] EXCEPT !.text = body[r].args].owner = r
      BY <1>1 DEF Files, Owns
    <3> QED BY <1>1, <1>2, <3>1, <3>2, Typed, NoFileAssumption
  <2>2. local' = [local EXCEPT ![r] = local[r]] /\ local[r] \in Locals /\ "texada" \in Stages
    BY <1>2, Typed DEF Stages
  <2>3. Kept(r)'
    <3>1. local'[r] = local[r] /\ pc'[r] = "texada" /\ body' = body
      BY <1>2, Typed DEF Goto, client
    <3> QED BY <1>1, <2>1, <3>1, Typed DEF Kept, UploadKept, LogKept, ArgsKept, GivenRight, Locals,
                                       UploadStages, LogStages, ArgsStages, Owns
  <2>4. \A n \in TmpNames : tmp'[n] # tmp[n] =>
          (tmp[n] = NoFile \/ tmp[n].owner = r) /\ (tmp'[n] = NoFile \/ tmp'[n].owner = r)
    BY <1>1, <2>1 DEF Owns
  <2>5. \A n \in TmpNames : Owns(tmp, n, r)' =>
          n \in {local[r].log_file, local[r].args_file} \ {NoName}
          \/ (Owns(tmp, n, r) /\ n \notin TmpFiles(r))
    BY <1>1, <2>1, NamesAssumption DEF Owns, TmpFiles
  <2>6. \A n \in RandNames : Owns(uploads, n, r)' => Owns(uploads, n, r) /\ n # local[r].upload_name
    BY <1>1, BoundsAssumption DEF Owns, RandNames
  <2> HIDE DEF name, Kept, IInv, Goto, Stages, TmpFiles, Owns
  <2> QED BY <1>1, <1>2, <2>1, <2>2, <2>3, <2>4, <2>5, <2>6, Typed, GoingOn
<1>3. CASE CleanUp(r, "dropped", {"write_args"})
  <2>1. pc[r] \in LogStages /\ {"write_args"} \in SUBSET Faults
    BY <1>1 DEF LogStages, ArgsStages, Faults
  <2> HIDE DEF IInv, CleanUp
  <2> QED BY <1>1, <1>3, <2>1, CleanUpKeeps DEF Ended
<1> QED BY <1>2, <1>3 DEF WriteArgs

LEMMA RestartKeeps ==
  ASSUME IInv, Restart PROVE IInv'
<1>1. /\ local' = [r \in Requests |-> NoLocals]
      /\ fault' = [r \in Requests |-> IF r \in Serving THEN fault[r] \cup {"crash"} ELSE fault[r]]
      /\ pc' = [r \in Requests |-> IF r \in Serving THEN "dropped" ELSE pc[r]]
      /\ drawn' = 0 /\ restarts' = restarts + 1 /\ restarts < MaxRestarts
      /\ UNCHANGED <<handler, body, tmp, uploads>>
  BY DEF Restart, client
<1>2. VariablesTyped'
  <2>1. NoLocals \in Locals
    BY DEF NoLocals, Locals, Texts
  <2>2. fault' \in [Requests -> SUBSET Faults]
    BY <1>1 DEF IInv, VariablesTyped, Faults
  <2>3. pc' \in [Requests -> Stages \cup Ended]
    BY <1>1 DEF IInv, VariablesTyped, Ended
  <2>4. drawn' \in 0 .. MaxUploads /\ restarts' \in 0 .. MaxRestarts
    BY <1>1, BoundsAssumption DEF IInv, VariablesTyped
  <2> QED BY <1>1, <2>1, <2>2, <2>3, <2>4 DEF IInv, VariablesTyped
<1>3. ASSUME NEW r \in Requests PROVE Kept(r)'
  <2>1. pc'[r] \in {"idle"} \cup Ended /\ local'[r] = NoLocals
    BY <1>1, Typed DEF Serving, Ended
  <2> QED BY <2>1 DEF Kept, UploadKept, LogKept, ArgsKept, GivenRight, NoLocals, Ended,
                      UploadStages, LogStages, ArgsStages
<1>4. ASSUME NEW r \in Requests
      PROVE  /\ TmpFiles(r) # {} => "crash" \in fault'[r]
             /\ local[r].upload_name # 0 => "crash" \in fault'[r]
             /\ fault[r] \subseteq fault'[r]
  <2>1. TmpFiles(r) # {} \/ local[r].upload_name # 0 => r \in Serving
    BY Typed DEF Kept, UploadKept, LogKept, ArgsKept, TmpFiles, Serving, Ended,
                 UploadStages, LogStages, ArgsStages
  <2> QED BY <1>1, <2>1
<1>5. ASSUME NEW n \in TmpNames, NEW o \in Requests, Owns(tmp, n, o)' PROVE TmpReason(o)'
  <2>1. n \in TmpFiles(o) \/ TmpReason(o)
    BY <1>1, <1>5 DEF IInv, LeftFilesHaveAReason, Owns, TmpReason
  <2> QED BY <1>4, <2>1 DEF TmpReason
<1>6. ASSUME NEW n \in RandNames, NEW o \in Requests, Owns(uploads, n, o)' PROVE UploadReason(o)'
  <2>1. n = local[o].upload_name \/ UploadReason(o)
    BY <1>1, <1>6 DEF IInv, LeftFilesHaveAReason, Owns, UploadReason
  <2>2. n # 0
    BY BoundsAssumption DEF RandNames
  <2> QED BY <1>4, <2>1, <2>2 DEF UploadReason
<1> QED BY <1>2, <1>3, <1>5, <1>6, FilesHaveOwners DEF IInv

-----------------------------------------------------------------------------
LEMMA InitHolds == Init => IInv
<1> SUFFICES ASSUME Init PROVE IInv
  OBVIOUS
<1>1. VariablesTyped
  <2>1. body \in [Requests -> [log : Texts, args : Texts]]
    <3>1. PICK parts \in [Requests -> Bodies] : body = [r \in Requests |-> TextsOf(r, parts[r])]
      BY DEF Init
    <3>2. ASSUME NEW r \in Requests PROVE TextsOf(r, parts[r]) \in [log : Texts, args : Texts]
      BY DEF TextsOf, Texts, Pieces
    <3> QED BY <3>1, <3>2
  <2>2. NoLocals \in Locals
    BY DEF NoLocals, Locals, Texts
  <2> QED BY <2>1, <2>2, BoundsAssumption DEF Init, VariablesTyped, Stages
<1>2. ASSUME NEW r \in Requests PROVE Kept(r)
  BY DEF Init, NoLocals, Kept, UploadKept, LogKept, ArgsKept, GivenRight,
         UploadStages, LogStages, ArgsStages
<1>3. LeftFilesHaveAReason
  BY DEF Init, LeftFilesHaveAReason
<1> QED BY <1>1, <1>2, <1>3 DEF IInv

LEMMA NextKeeps == IInv /\ [Next]_vars => IInv'
<1> SUFFICES ASSUME IInv, [Next]_vars PROVE IInv'
  OBVIOUS
<1>1. ASSUME NEW r \in Requests, Accept(r) PROVE IInv'
  BY <1>1, MineHandlerKeeps, UploadMineHandlerKeeps DEF Accept
<1>2. ASSUME NEW r \in Requests, Upload(r) PROVE IInv'
  BY <1>2, CreateUploadKeeps, CopyUploadKeeps, ReadUploadKeeps, RemoveUploadKeeps DEF Upload
<1>3. ASSUME NEW r \in Requests, Save(r) PROVE IInv'
  BY <1>3, MakeLogFileKeeps, WriteLogKeeps, MakeArgsFileKeeps, WriteArgsKeeps DEF Save
<1>4. ASSUME NEW r \in Requests, Run(r) PROVE IInv'
  BY <1>4, TexadaReadsArgsKeeps, TexadaReadsLogKeeps, TexadaFailsKeeps, AnswerKeeps DEF Run
<1>5. CASE Restart
  BY <1>5, RestartKeeps
<1>6. CASE UNCHANGED vars
  BY <1>6 DEF vars, client, files, IInv, VariablesTyped, LeftFilesHaveAReason, TmpFiles,
              Kept, UploadKept, LogKept, ArgsKept, GivenRight, Owns
<1> QED BY <1>1, <1>2, <1>3, <1>4, <1>5, <1>6 DEF Next, Serve

\* The invariant: what a handler has saved is where its variables say, is its own, and
\* holds the request's texts; every other file has a reason to be there.
THEOREM Invariant == Spec => []IInv
<1>1. Init => IInv
  BY InitHolds
<1>2. IInv /\ [Next]_vars => IInv'
  BY NextKeeps
<1> QED BY <1>1, <1>2, PTL DEF Spec

\* Types, and that every file a handler has a name for exists and is its own.
THEOREM TypeCorrect == Spec => []TypeOK
<1>1. IInv => TypeOK
  BY DEF IInv, TypeOK, Kept, UploadKept, LogKept, ArgsKept, TmpFiles
<1> QED BY <1>1, Invariant, PTL

\* However requests are interleaved and whatever is left in the directories, texada
\* reads the log and the options of the request it is started for (lines 57 to 105 and
\* 125 to 186 of server.go).
THEOREM OwnRequest == Spec => []MinesItsOwnRequest
<1>1. IInv => MinesItsOwnRequest
  <2> SUFFICES ASSUME IInv, NEW r \in Requests, pc[r] = "texada_log"
               PROVE  local[r].given = body[r]
    BY DEF MinesItsOwnRequest
  <2>1. local[r].given \in [log : Texts, args : Texts] /\ body[r] \in [log : Texts, args : Texts]
    BY Typed DEF Locals
  <2>2. local[r].given.log = body[r].log /\ local[r].given.args = body[r].args
    BY Typed DEF Kept, GivenRight
  <2> QED BY <2>1, <2>2
<1> QED BY <1>1, Invariant, PTL

\* Files are not shared, although uploads are named by a generator that starts again
\* with the server.
THEOREM UnsharedFiles == Spec => []NoFileIsShared
<1>1. IInv => NoFileIsShared
  <2> SUFFICES ASSUME IInv PROVE NoFileIsShared
    OBVIOUS
  <2>1. ASSUME NEW r \in Requests PROVE Kept(r)
    BY DEF IInv
  <2>2. ASSUME NEW r \in Requests, NEW n \in TmpFiles(r) PROVE Owns(tmp, n, r)
    BY <2>1 DEF Kept, LogKept, ArgsKept, TmpFiles
  <2>3. ASSUME NEW r \in Requests, local[r].upload_name # 0 PROVE Owns(uploads, local[r].upload_name, r)
    BY <2>1, <2>3 DEF Kept, UploadKept
  <2>4. ASSUME NEW r \in Requests, local[r].log_file = local[r].args_file
        PROVE  local[r].log_file = NoName
    BY <2>1, <2>4 DEF Kept, LogKept, ArgsKept
  <2> QED BY <2>2, <2>3, <2>4 DEF NoFileIsShared, Owns, Serving
<1> QED BY <1>1, Invariant, PTL

\* Each way out of the handlers removes what it has to, but for the failures named.
THEOREM LeftFiles == Spec => []LeftFilesHaveAReason
<1>1. IInv => LeftFilesHaveAReason
  BY DEF IInv
<1> QED BY <1>1, Invariant, PTL
=============================================================================
