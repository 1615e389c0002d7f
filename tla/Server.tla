--------------------------------- MODULE Server ---------------------------------
(***************************************************************************)
(* www/server.go: the web server that runs texada for its clients.  Each   *)
(* request is served by a goroutine of its own; they meet in two           *)
(* directories, /tmp with the log and args files that texada is started on *)
(* and the working directory with the uploaded files.  Any call to the     *)
(* operating system may fail, and the server may die and be restarted,     *)
(* which leaves the files as they are.                                     *)
(*                                                                         *)
(* A text is the set of the pieces it is made of, so that a file which     *)
(* holds what two requests wrote is not a text of either.                  *)
(***************************************************************************)
EXTENDS Naturals, FiniteSets

CONSTANTS
  Requests,
  Bodies,       \* which of its two texts a request may bring
  TmpNames,     \* the names TempFile makes up
  NoName,       \* a variable that holds none of them yet
  NoFile,       \* no file has this name
  MaxUploads,   \* bound: names drawn in one life of the server
  MaxRestarts   \* bound

ASSUME NamesAssumption  == NoName \notin TmpNames
ASSUME BoundsAssumption == MaxUploads \in Nat /\ MaxRestarts \in Nat

Pieces == Requests \X {"log", "args"}
Texts  == SUBSET Pieces
Files  == [owner : Requests, text : Texts]  \* owner is history: who created it

ASSUME NoFileAssumption == NoFile \notin Files

\* math/rand is not seeded: the n-th name of RandStringBytes is always the same.
RandNames == 1 .. MaxUploads

VARIABLES
  handler,   \* which handler each request is for
  body,      \* the two texts it brings
  local,     \* the local variables of its goroutine
  tmp,       \* /tmp
  uploads,   \* the working directory
  drawn,     \* how many random names the server has drawn
  fault,     \* history: the failures that leave a file or drop the connection
  restarts,  \* history
  pc

client == <<handler, body>>
files  == <<tmp, uploads, drawn>>
vars   == <<client, local, files, fault, restarts, pc>>

-----------------------------------------------------------------------------
\* A text that is missing in the form, or that a JSON error keeps from being decoded,
\* is empty.
TextsOf(r, parts) == [log  |-> {<<r, "log">>} \cap ({r} \X parts),
                      args |-> {<<r, "args">>} \cap ({r} \X parts)]

\* log is the argument of mine, upload_name is randString, given what texada has read.
NoLocals == [log |-> {}, upload_name |-> 0, log_file |-> NoName, args_file |-> NoName,
             given |-> [log |-> {}, args |-> {}]]

Init == /\ handler \in [Requests -> {"mine", "uploadMine"}]
        /\ \E parts \in [Requests -> Bodies] : body = [r \in Requests |-> TextsOf(r, parts[r])]
        /\ local = [r \in Requests |-> NoLocals]
        /\ tmp = [n \in TmpNames |-> NoFile]
        /\ uploads = [n \in RandNames |-> NoFile]
        /\ drawn = 0
        /\ fault = [r \in Requests |-> {}]
        /\ restarts = 0
        /\ pc = [r \in Requests |-> "idle"]

\* The handler goes on to its next call.
Goto(r, next) == /\ pc' = [pc EXCEPT ![r] = next]
                 /\ UNCHANGED <<client, restarts>>

\* It returns or panics.
End(r, answer, faults) == /\ local' = [local EXCEPT ![r] = NoLocals]
                          /\ fault' = [fault EXCEPT ![r] = @ \cup faults]
                          /\ Goto(r, answer)

\* os.Remove of files in /tmp.  Nobody looks whether it failed and the file was kept.
Remove(names, kept) == tmp' = [n \in TmpNames |-> IF n \in names \ kept THEN NoFile ELSE tmp[n]]
Failed(kept)        == IF kept = {} THEN {} ELSE {"remove"}

-----------------------------------------------------------------------------
(***************************************************************************)
(* The handlers, up to the call of mine.                                   *)
(***************************************************************************)
MineHandler(r) ==
  /\ pc[r] = "idle"
  /\ handler[r] = "mine"
  /\ local' = [local EXCEPT ![r].log = body[r].log]
  /\ Goto(r, "log_file")
  /\ UNCHANGED <<files, fault>>

UploadMineHandler(r) ==
  /\ pc[r] = "idle"
  /\ handler[r] = "uploadMine"
  /\ \/ Goto(r, "create") /\ UNCHANGED <<local, fault>>
     \/ End(r, "error", {})
  /\ UNCHANGED files

\* A variant: a file that is there already is opened as it is.
CreatedUnlessThere(r, n) ==
  IF uploads[n] = NoFile THEN [owner |-> r, text |-> {}] ELSE uploads[n]

\* os.Create makes the file, or empties the one that is there.
Created(r, n) == [owner |-> r, text |-> {}]

CreateUpload(r) ==
  /\ pc[r] = "create"
  /\ drawn < MaxUploads
  /\ drawn' = drawn + 1
  /\ \/ /\ local' = [local EXCEPT ![r].upload_name = drawn']
        /\ uploads' = [uploads EXCEPT ![drawn'] = Created(r, drawn')]
        /\ Goto(r, "copy")
        /\ UNCHANGED fault
     \/ End(r, "error", {}) /\ UNCHANGED uploads
  /\ UNCHANGED tmp

CopyUpload(r) ==
  /\ pc[r] = "copy"
  /\ \/ /\ uploads' = [uploads EXCEPT ![local[r].upload_name].text = @ \cup body[r].log]
        /\ Goto(r, "read")
        /\ UNCHANGED <<local, fault>>
     \/ \E part \in SUBSET body[r].log :
          /\ uploads' = [uploads EXCEPT ![local[r].upload_name].text = @ \cup part]
          /\ End(r, "error", {"copy"})
  /\ UNCHANGED <<tmp, drawn>>

ReadUpload(r) ==
  /\ pc[r] = "read"
  /\ \/ /\ local' = [local EXCEPT ![r].log = uploads[local[r].upload_name].text]
        /\ Goto(r, "unlink")
        /\ UNCHANGED fault
     \/ End(r, "error", {"read"})
  /\ UNCHANGED files

RemoveUpload(r) ==
  /\ pc[r] = "unlink"
  /\ \/ /\ uploads' = [uploads EXCEPT ![local[r].upload_name] = NoFile]
        /\ local' = [local EXCEPT ![r].upload_name = 0]
        /\ Goto(r, "log_file")
        /\ UNCHANGED fault
     \/ End(r, "error", {"unlink"}) /\ UNCHANGED uploads
  /\ UNCHANGED <<tmp, drawn>>

-----------------------------------------------------------------------------
(***************************************************************************)
(* mine.  When a WriteFile fails, it asks the error of the call before for *)
(* its text; that is nil, so it panics and net/http drops the connection.  *)
(***************************************************************************)

\* A variant: a name may be taken again.
AnyName(n) == TRUE

\* TempFile creates its file exclusively.
FreeName(n) == tmp[n] = NoFile

MakeLogFile(r) ==
  /\ pc[r] = "log_file"
  /\ \/ \E n \in TmpNames :
          /\ FreeName(n)
          /\ local' = [local EXCEPT ![r].log_file = n]
          /\ tmp' = [tmp EXCEPT ![n] = [owner |-> r, text |-> {}]]
          /\ Goto(r, "write_log")
          /\ UNCHANGED fault
     \/ End(r, "error", {}) /\ UNCHANGED tmp
  /\ UNCHANGED <<uploads, drawn>>

WriteLog(r) ==
  /\ pc[r] = "write_log"
  /\ \/ /\ tmp' = [tmp EXCEPT ![local[r].log_file].text = local[r].log]
        /\ Goto(r, "args_file")
        /\ UNCHANGED <<local, fault>>
     \/ \E part \in SUBSET local[r].log :
          /\ tmp' = [tmp EXCEPT ![local[r].log_file].text = part]
          /\ End(r, "dropped", {"write_log"})
  /\ UNCHANGED <<uploads, drawn>>

TmpFiles(r) == {local[r].log_file, local[r].args_file} \ {NoName}

\* Remove what there is in /tmp and answer.
CleanUp(r, answer, faults) ==
  \E kept \in SUBSET TmpFiles(r) :
    /\ Remove(TmpFiles(r), kept)
    /\ End(r, answer, faults \cup Failed(kept))

MakeArgsFile(r) ==
  /\ pc[r] = "args_file"
  /\ \/ \E n \in TmpNames :
          /\ FreeName(n)
          /\ local' = [local EXCEPT ![r].args_file = n]
          /\ tmp' = [tmp EXCEPT ![n] = [owner |-> r, text |-> {}]]
          /\ Goto(r, "write_args")
          /\ UNCHANGED fault
     \/ CleanUp(r, "error", {})
  /\ UNCHANGED <<uploads, drawn>>

WriteArgs(r) ==
  /\ pc[r] = "write_args"
  /\ \/ /\ tmp' = [tmp EXCEPT ![local[r].args_file].text = body[r].args]
        /\ Goto(r, "texada")
        /\ UNCHANGED <<local, fault>>
     \/ CleanUp(r, "dropped", {"write_args"})
  /\ UNCHANGED <<uploads, drawn>>

\* texada reads its options, then the log.
TexadaReadsArgs(r) ==
  /\ pc[r] = "texada"
  /\ local' = [local EXCEPT ![r].given.args = tmp[local[r].args_file].text]
  /\ Goto(r, "texada_args")
  /\ UNCHANGED <<files, fault>>

TexadaReadsLog(r) ==
  /\ pc[r] = "texada_args"
  /\ local' = [local EXCEPT ![r].given.log = tmp[local[r].log_file].text]
  /\ Goto(r, "texada_log")
  /\ UNCHANGED <<files, fault>>

\* Two variants: one that forgets the args file, one that asks the wrong error.
TexadaFailsKeepingArgs(r) ==
  /\ pc[r] \in {"texada", "texada_args", "texada_log"}
  /\ Remove({local[r].log_file}, {})
  /\ End(r, "error", {})
  /\ UNCHANGED <<uploads, drawn>>

TexadaFailsPanicking(r) ==
  /\ pc[r] \in {"texada", "texada_args", "texada_log"}
  /\ CleanUp(r, "dropped", {})
  /\ UNCHANGED <<uploads, drawn>>

\* texada cannot be started, or exits with an error.
TexadaFails(r) ==
  /\ pc[r] \in {"texada", "texada_args", "texada_log"}
  /\ CleanUp(r, "error", {})
  /\ UNCHANGED <<uploads, drawn>>

Answer(r) ==
  /\ pc[r] = "texada_log"
  /\ CleanUp(r, "ok", {})
  /\ UNCHANGED <<uploads, drawn>>

-----------------------------------------------------------------------------
Ended   == {"ok", "error", "dropped"}
Serving == {r \in Requests : pc[r] \notin Ended \cup {"idle"}}

\* The server dies with the requests it is serving, and is started again.
Restart ==
  /\ restarts < MaxRestarts
  /\ restarts' = restarts + 1
  /\ local' = [r \in Requests |-> NoLocals]
  /\ drawn' = 0
  /\ fault' = [r \in Requests |-> IF r \in Serving THEN fault[r] \cup {"crash"} ELSE fault[r]]
  /\ pc' = [r \in Requests |-> IF r \in Serving THEN "dropped" ELSE pc[r]]
  /\ UNCHANGED <<client, tmp, uploads>>

Accept(r) == MineHandler(r) \/ UploadMineHandler(r)
Upload(r) == CreateUpload(r) \/ CopyUpload(r) \/ ReadUpload(r) \/ RemoveUpload(r)
Save(r)   == MakeLogFile(r) \/ WriteLog(r) \/ MakeArgsFile(r) \/ WriteArgs(r)
Run(r)    == TexadaReadsArgs(r) \/ TexadaReadsLog(r) \/ TexadaFails(r) \/ Answer(r)

Serve(r) == Upload(r) \/ Save(r) \/ Run(r)

Next == \/ \E r \in Requests : Accept(r) \/ Serve(r)
        \/ Restart

\* Go runs every goroutine, the calls return and texada ends; that clients come or the
\* server dies is nothing to rely on.
Spec == Init /\ [][Next]_vars /\ \A r \in Requests : WF_vars(Serve(r))

-----------------------------------------------------------------------------
Locals == [log : Texts, upload_name : {0} \cup RandNames,
           log_file : TmpNames \cup {NoName}, args_file : TmpNames \cup {NoName},
           given : [log : Texts, args : Texts]]

Faults == {"copy", "read", "unlink", "write_log", "write_args", "remove", "crash"}

Stages == {"idle", "create", "copy", "read", "unlink", "log_file", "write_log", "args_file",
           "write_args", "texada", "texada_args", "texada_log"}

\* The file a request has under a name.
Owns(files_of, n, r) == files_of[n] # NoFile /\ files_of[n].owner = r

VariablesTyped ==
  /\ handler \in [Requests -> {"mine", "uploadMine"}]
  /\ body \in [Requests -> [log : Texts, args : Texts]]
  /\ local \in [Requests -> Locals]
  /\ tmp \in [TmpNames -> Files \cup {NoFile}]
  /\ uploads \in [RandNames -> Files \cup {NoFile}]
  /\ drawn \in 0 .. MaxUploads
  /\ fault \in [Requests -> SUBSET Faults]
  /\ restarts \in 0 .. MaxRestarts
  /\ pc \in [Requests -> Stages \cup Ended]

\* A handler whose variable names a file has that file.
TypeOK ==
  /\ VariablesTyped
  /\ \A r \in Requests : local[r].upload_name # 0 => Owns(uploads, local[r].upload_name, r)
  /\ \A r \in Requests : \A n \in TmpFiles(r) : Owns(tmp, n, r)

\* What texada reads for a request is the log and the options of that very request,
\* whatever other requests are served at the same time and whatever earlier ones, and
\* earlier lives of the server, left in the two directories.
MinesItsOwnRequest ==
  \A r \in Requests : pc[r] = "texada_log" => local[r].given = body[r]

\* No two requests being served, and no two files of one of them, have a name in common.
NoFileIsShared ==
  /\ \A r, s \in Serving : r # s =>
       /\ TmpFiles(r) \cap TmpFiles(s) = {}
       /\ local[r].upload_name = local[s].upload_name => local[r].upload_name = 0
  /\ \A r \in Serving : local[r].log_file = local[r].args_file => local[r].log_file = NoName

\* A file outlives its request only if the server died, the log could not be written,
\* the upload could not be copied, read back or removed, or os.Remove failed.
LeftFilesHaveAReason ==
  /\ \A n \in TmpNames : tmp[n] # NoFile =>
       \/ n \in TmpFiles(tmp[n].owner)
       \/ fault[tmp[n].owner] \cap {"crash", "write_log", "remove"} # {}
  /\ \A n \in RandNames : uploads[n] # NoFile =>
       \/ n = local[uploads[n].owner].upload_name
       \/ fault[uploads[n].owner] \cap {"crash", "copy", "read", "unlink"} # {}

\* Every request is answered, unless the server dies or one of the two files cannot be
\* written: then the client waits for nothing.
EveryRequestIsAnswered ==
  \A r \in Requests :
    r \in Serving ~> \/ pc[r] \in {"ok", "error"}
                     \/ pc[r] = "dropped" /\ fault[r] \cap {"crash", "write_log", "write_args"} # {}
=============================================================================
