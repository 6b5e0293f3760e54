---------------------------- MODULE Attachments ----------------------------
(***************************************************************************)
(* The attachments of a work item: the handlers that upload, serve and     *)
(* remove them, and the operators' client commands.                        *)
(*                                                                         *)
(* Get copies the stored item but not the array behind its slice of        *)
(* attachments: a handler works on the very records that the board holds   *)
(* until Update replaces the item.  A slice is an array and a length, and  *)
(* append writes in place as long as the array has room.                   *)
(*                                                                         *)
(* Abstracted: contents, types and sizes; a file is its path in the        *)
(* working directory, which is its name.                                   *)
(***************************************************************************)
EXTENDS Naturals, Sequences

CONSTANTS
  Clients,   \* operators, each with a client
  Names,     \* names of the files they upload
  None,      \* no name, no path; also a record that was never written
  MaxUploads \* bound on the files that are uploaded

VARIABLES
  workDir,   \* whether the item has a working directory
  arrays,    \* the arrays of attachments, by the order they were made in
  stored,    \* the slice in the board's item
  files,     \* the paths that exist
  request,   \* per client: the request that the server works on
  uploads,   \* number of attachments so far, which is also the last id
  reused     \* history: a name has been uploaded again

vars == <<workDir, arrays, stored, files, request, uploads, reused>>

Attachment == [id : 1 .. MaxUploads, name : Names, path : Names \cup {None}]
Slice == [array : Nat, len : Nat]
Nil == [array |-> 0, len |-> 0]

Phases == {"idle", "upload", "filter", "remove", "update"}
Idle == [phase |-> "idle", slice |-> Nil, id |-> 0, path |-> None]

TypeOK ==
  /\ workDir \in BOOLEAN
  /\ \A a \in DOMAIN arrays, k \in 1 .. MaxUploads :
        k \in DOMAIN arrays[a] => arrays[a][k] \in Attachment \cup {None}
  /\ stored \in Slice
  /\ files \subseteq Names
  /\ request \in [Clients -> [phase : Phases, slice : Slice, id : 0 .. MaxUploads,
                              path : Names \cup {None}]]
  /\ uploads \in 0 .. MaxUploads
  /\ reused \in BOOLEAN

Cap(s) == IF s.array = 0 THEN 0 ELSE Len(arrays[s.array])
Elements(s) == IF s.array = 0 THEN <<>> ELSE SubSeq(arrays[s.array], 1, s.len)

-----------------------------------------------------------------------------
(* append and the board's store *)

Padded(seq, n) == [k \in 1 .. n |-> IF k <= Len(seq) THEN seq[k] ELSE None]

\* The last of the elements is new; the array is replaced by a larger one when it is full.
Appended(s, attachment) ==
  LET elements == Append(Elements(s), attachment)
      room == IF Cap(s) = 0 THEN 1 ELSE 2 * Cap(s)
  IN IF s.len < Cap(s)
     THEN [arrays |-> [arrays EXCEPT ![s.array][s.len + 1] = attachment],
           slice |-> [s EXCEPT !.len = s.len + 1]]
     ELSE [arrays |-> Append(arrays, Padded(elements, room)),
           slice |-> [array |-> Len(arrays) + 1, len |-> s.len + 1]]

\* Get, the first thing each handler does.
Get(c, phase, id) ==
  /\ request[c] = Idle
  /\ request' = [request EXCEPT ![c] = [phase |-> phase, slice |-> stored, id |-> id, path |-> None]]
  /\ UNCHANGED <<workDir, arrays, stored, files, uploads, reused>>

Update(c) ==
  /\ stored' = request[c].slice
  /\ request' = [request EXCEPT ![c] = Idle]
  /\ UNCHANGED <<workDir, arrays, files, uploads, reused>>

-----------------------------------------------------------------------------
(* The handlers *)

Phase(c, phase) == request[c].phase = phase

\* One file of the request: it is written into the working directory, or goes into the record.
StoreFile(c) ==
  \E name \in Names :
     LET attachment == [id |-> uploads + 1, name |-> name, path |-> IF workDir THEN name ELSE None]
         appended == Appended(request[c].slice, attachment)
     IN /\ Phase(c, "upload")
        /\ uploads < MaxUploads
        /\ uploads' = uploads + 1
        /\ files' = IF workDir THEN files \cup {name} ELSE files
        /\ reused' = (reused \/ name \in files)
        /\ arrays' = appended.arrays
        /\ request' = [request EXCEPT ![c].slice = appended.slice]
        /\ UNCHANGED <<workDir, stored>>

\* A file that cannot be written ends the request; the files before it stay.
UploadFails(c) ==
  /\ Phase(c, "upload")
  /\ request' = [request EXCEPT ![c] = Idle]
  /\ UNCHANGED <<workDir, arrays, stored, files, uploads, reused>>

\* The client opens every file before it sends the request.
UploadCommand(c) == Get(c, "upload", 0)

handleBoardAttachmentUpload(c) ==
  \/ UploadCommand(c)
  \/ StoreFile(c)
  \/ UploadFails(c)
  \/ Phase(c, "upload") /\ Update(c)

\* The records that stay move to the front of the array they are in; what has been found is
\* the place of the record that goes, which another one has taken by now.
Filter(c) ==
  LET s == request[c].slice
      Stays(a) == a.id # request[c].id
      kept == SelectSeq(Elements(s), Stays)
      moved == [k \in DOMAIN arrays[s.array] |->
                  IF k <= Len(kept) THEN kept[k] ELSE arrays[s.array][k]]
      Found(k) == arrays[s.array][k].id = request[c].id
      place == CHOOSE k \in 1 .. s.len : Found(k) /\ \A l \in k + 1 .. s.len : ~Found(l)
  IN /\ Phase(c, "filter")
     /\ IF Len(kept) = s.len
        THEN request' = [request EXCEPT ![c] = Idle] /\ UNCHANGED arrays
        ELSE /\ arrays' = [arrays EXCEPT ![s.array] = moved]
             /\ request' = [request EXCEPT ![c].phase = "remove", ![c].slice.len = Len(kept),
                                           ![c].path = moved[place].path]
     /\ UNCHANGED <<workDir, stored, files, uploads, reused>>

\* Nothing is removed for an attachment without a file, or if the file has gone.
RemoveFile(c) ==
  /\ Phase(c, "remove")
  /\ files' = files \ {request[c].path}
  /\ request' = [request EXCEPT ![c].phase = "update"]
  /\ UNCHANGED <<workDir, arrays, stored, uploads, reused>>

DeleteCommand(c) == \E id \in 1 .. uploads : Get(c, "filter", id)

handleBoardAttachmentDelete(c) ==
  \/ DeleteCommand(c)
  \/ Filter(c)
  \/ RemoveFile(c)
  \/ Phase(c, "update") /\ Update(c)

-----------------------------------------------------------------------------
Init ==
  /\ workDir \in BOOLEAN
  /\ arrays = <<>>
  /\ stored = Nil
  /\ files = {}
  /\ request = [c \in Clients |-> Idle]
  /\ uploads = 0
  /\ reused = FALSE

Next == \E c \in Clients : handleBoardAttachmentUpload(c) \/ handleBoardAttachmentDelete(c)

Spec == Init /\ [][Next]_vars
-----------------------------------------------------------------------------
(* Properties *)

Listed == {Elements(stored)[k] : k \in 1 .. stored.len}

\* What handleBoardAttachmentGet answers: the record is listed, and its file is there.
Served(a) == a \in Listed /\ (a.path # None => a.path \in files)

\* "Remove an attachment from a work item" (boabotctl, board attachment-delete): the other
\* attachments, each with a file of its own, can still be fetched.
OthersAreServed ==
  ~reused /\ (\A c \in Clients : request[c] = Idle) => \A a \in Listed : Served(a)
=============================================================================
