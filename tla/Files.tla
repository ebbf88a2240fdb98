-------------------------------- MODULE Files --------------------------------
(***************************************************************************)
(* The file system in memory: ramfs.c under fs.c, the shell's upload of a  *)
(* file as a stream of hexadecimal digits, the file system calls of user   *)
(* tasks and the reading of whole images by the loader.  Nothing in it is  *)
(* locked: tasks on other CPUs open and read while the shell registers a   *)
(* file, so the parts of both are steps.                                   *)
(***************************************************************************)
EXTENDS Integers, Sequences, FiniteSets, FiniteSetsExt

CONSTANTS
  Paths,        \* the names of files
  Rooted,       \* those that begin with '/'
  Builtins,     \* the files linked into the kernel: a sequence of [path, bytes]
  NSlots,       \* RAMFS_FILES_MAX
  NBlocks,      \* blocks that the heap has for file contents
  MaxSize,      \* bound: bytes in an uploaded file
  MaxUploads,   \* bound: "receive" commands
  Digits,       \* the hexadecimal digits that are typed
  Tasks,        \* they open and read files, and have images loaded
  MaxFiles,     \* MAX_FILES_PER_TASK
  Chunk         \* sys_read()'s buffer

ASSUME FilesAssumption ==
  /\ Rooted \subseteq Paths /\ Digits \subseteq 0 .. 15
  /\ Len(Builtins) <= NSlots /\ Len(Builtins) <= NBlocks /\ Chunk > 0

Slots == 1 .. NSlots
Blocks == 1 .. NBlocks
Loader == MaxFiles + 1   \* the file of loader_load_process_image(), which takes no descriptor
Fds == 1 .. Loader
None == 0
Garbage == 256   \* what is read from memory that is not the file's
Free == <<Garbage>>

VARIABLES
  nodes,     \* ramfs_nodes, and as history how often the data or the size has been replaced
  heap,      \* the contents of each block of the heap, or Free
  upload,    \* shell_upload_*, and how far the registration is
  files,     \* the open files of each task, by descriptor
  job,       \* the read each task is in
  typed,     \* history: the digits typed since "receive"
  latest,    \* history: the contents last registered under each name
  uploads    \* the uploads started so far

vars == <<nodes, heap, upload, files, job, typed, latest, uploads>>

NoUpload == [at |-> "none", path |-> CHOOSE p \in Paths : TRUE, buf |-> None, size |-> 0,
             nibble |-> -1, slot |-> None, copy |-> None]
NoJob == [at |-> "idle", fd |-> None, left |-> 0, count |-> 0, part |-> 0]
NoFile == [slot |-> None, offset |-> 0, size |-> 0, version |-> 0, got |-> <<>>]

\* ramfs_init(): the built-in files, then empty nodes.
Init ==
  /\ nodes = [i \in Slots |->
       IF i <= Len(Builtins)
       THEN [used |-> TRUE, owns |-> FALSE, path |-> Builtins[i].path, data |-> i,
             size |-> Len(Builtins[i].bytes), version |-> 0]
       ELSE [used |-> FALSE, owns |-> FALSE, path |-> NoUpload.path, data |-> None,
             size |-> 0, version |-> 0]]
  /\ heap = [b \in Blocks |-> IF b <= Len(Builtins) THEN Builtins[b].bytes ELSE Free]
  /\ upload = NoUpload
  /\ files = [t \in Tasks |-> [d \in Fds |-> NoFile]]
  /\ job = [t \in Tasks |-> NoJob]
  /\ typed = <<>>
  /\ latest = [p \in Paths |->
       IF \E i \in DOMAIN Builtins : Builtins[i].path = p
       THEN Builtins[CHOOSE i \in DOMAIN Builtins : Builtins[i].path = p].bytes ELSE Free]
  /\ uploads = 0

\* ramfs_find_node() and the search for a node that is not in use: the first one, or None.
First(S) == IF S = {} THEN None ELSE Min(S)
FindNode(p) == First({i \in Slots : nodes[i].used /\ nodes[i].path = p})
FreeNode == First({i \in Slots : ~nodes[i].used})

\* vfs_lookup(): the one mount is at '/'.
Lookup(p) == IF p \in Rooted THEN FindNode(p) ELSE None

FreeBlocks == {b \in Blocks : heap[b] = Free}

-----------------------------------------------------------------------------
(* The shell's upload                                                      *)

\* shell_cmd_receive(): a buffer of the heap; refused without memory.
Receive ==
  /\ upload.at = "none" /\ uploads < MaxUploads
  /\ uploads' = uploads + 1
  /\ \E p \in Paths, n \in 1 .. MaxSize :
       IF FreeBlocks = {} THEN UNCHANGED <<upload, heap>>
       ELSE /\ upload' = [NoUpload EXCEPT !.at = "receive", !.path = p, !.size = n,
                                         !.buf = Min(FreeBlocks)]
            /\ heap' = [heap EXCEPT ![Min(FreeBlocks)] = <<>>]
  /\ typed' = <<>>
  /\ UNCHANGED <<nodes, files, job, latest>>

\* shell_finish_upload(): the buffer goes back.
Finish(h) ==
  /\ heap' = [h EXCEPT ![upload.buf] = Free]
  /\ upload' = NoUpload
  /\ typed' = <<>>

\* shell_poll() with a digit: the first of a byte is kept, the second completes the byte.
TypeDigit ==
  /\ upload.at = "receive"
  /\ \E v \in Digits :
       /\ typed' = Append(typed, v)
       /\ IF upload.nibble = -1
          THEN upload' = [upload EXCEPT !.nibble = v] /\ UNCHANGED heap
          ELSE /\ heap' = [heap EXCEPT ![upload.buf] = Append(@, 16 * upload.nibble + v)]
               /\ upload' = [upload EXCEPT !.nibble = -1,
                    !.at = IF Len(heap'[upload.buf]) = upload.size THEN "find" ELSE @]
  /\ UNCHANGED <<nodes, files, job, latest, uploads>>

\* shell_poll() with anything else but a space, which it skips.
TypeOther ==
  /\ upload.at = "receive"
  /\ Finish(heap)
  /\ UNCHANGED <<nodes, files, job, latest, uploads>>

\* ramfs_register_file(): the node and a copy of the bytes, or nothing at all.
RegisterFind ==
  LET n == FindNode(upload.path)
      i == IF n = None THEN FreeNode ELSE n
  IN /\ upload.at = "find"
     /\ IF i = None \/ FreeBlocks = {} THEN Finish(heap)
        ELSE /\ heap' = [heap EXCEPT ![Min(FreeBlocks)] = heap[upload.buf]]
             /\ upload' = [upload EXCEPT !.at = "free", !.slot = i, !.copy = Min(FreeBlocks)]
             /\ UNCHANGED typed
     /\ UNCHANGED <<nodes, files, job, latest, uploads>>

\* Mutant: the old copy stays.
FreeNever ==
  /\ upload.at = "free"
  /\ upload' = [upload EXCEPT !.at = "data"]
  /\ UNCHANGED <<nodes, heap, files, job, typed, latest, uploads>>

\* The old bytes are freed if they came from the heap,
RegisterFree ==
  LET n == nodes[upload.slot]
  IN /\ upload.at = "free"
     /\ heap' = IF n.used /\ n.owns THEN [heap EXCEPT ![n.data] = Free] ELSE heap
     /\ upload' = [upload EXCEPT !.at = "data"]
     /\ UNCHANGED <<nodes, files, job, typed, latest, uploads>>

\* the copy takes their place,
RegisterData ==
  /\ upload.at = "data"
  /\ nodes' = [nodes EXCEPT ![upload.slot] =
       [@ EXCEPT !.used = TRUE, !.owns = TRUE, !.path = upload.path, !.data = upload.copy,
                 !.version = @ + 1]]
  /\ upload' = [upload EXCEPT !.at = "size"]
  /\ UNCHANGED <<heap, files, job, typed, latest, uploads>>

\* and its size is stored last; the shell finishes the upload.
RegisterSize ==
  /\ upload.at = "size"
  /\ nodes' = [nodes EXCEPT ![upload.slot] = [@ EXCEPT !.size = upload.size, !.version = @ + 1]]
  /\ latest' = [latest EXCEPT ![upload.path] = heap[upload.copy]]
  /\ Finish(heap)
  /\ UNCHANGED <<files, job, uploads>>

-----------------------------------------------------------------------------
(* Files in use                                                            *)

\* A task in neither a read nor the loader.
IdleTask(t) == job[t].at = "idle" /\ files[t][Loader].slot = None
FreeFd(t) == First({d \in 1 .. MaxFiles : files[t][d].slot = None})

\* sys_open(), and the fs_open() of the loader; the size is copied into the file.
Open(t) ==
  /\ IdleTask(t)
  /\ \E p \in Paths, d \in {FreeFd(t), Loader} :
       /\ d # None /\ Lookup(p) # None
       /\ files' = [files EXCEPT ![t][d] =
            [NoFile EXCEPT !.slot = Lookup(p), !.size = nodes[Lookup(p)].size,
                           !.version = nodes[Lookup(p)].version]]
  /\ UNCHANGED <<nodes, heap, upload, job, typed, latest, uploads>>

\* sys_read() of len bytes, in parts of Chunk,
Read(t) ==
  /\ IdleTask(t)
  /\ \E d \in 1 .. MaxFiles, len \in 1 .. MaxSize + 1 :
       /\ files[t][d].slot # None
       /\ job' = [job EXCEPT ![t] = [NoJob EXCEPT !.at = "size", !.fd = d, !.left = len,
                                                 !.part = Min({len, Chunk})]]
  /\ UNCHANGED <<nodes, heap, upload, files, typed, latest, uploads>>

\* and the loader's fs_read() of the whole file at once.
LoadRead(t) ==
  LET f == files[t][Loader]
  IN /\ job[t].at = "idle" /\ f.slot # None /\ f.offset = 0 /\ f.size > 0
     /\ job' = [job EXCEPT ![t] = [NoJob EXCEPT !.at = "size", !.fd = Loader,
                                               !.left = f.size, !.part = f.size]]
     /\ UNCHANGED <<nodes, heap, upload, files, typed, latest, uploads>>

File(t) == files[t][job[t].fd]

\* ramfs_read() up to the loop: how much there is,
ReadSize(t) ==
  LET rest == nodes[File(t).slot].size - File(t).offset
  IN /\ job[t].at = "size"
     /\ job' = [job EXCEPT ![t] =
          IF rest <= 0 THEN NoJob
          ELSE [@ EXCEPT !.at = "copy", !.count = Min({job[t].part, rest})]]
     /\ UNCHANGED <<nodes, heap, upload, files, typed, latest, uploads>>

\* and the loop, from the node's data of now; sys_read() goes on with the next part unless
\* this one was short.
ByteAt(b, i) == IF heap[b] # Free /\ i \in DOMAIN heap[b] THEN heap[b][i] ELSE Garbage

\* Mutant: the loop begins with the second byte.
ReadCopyLate(t) ==
  LET f == File(t)
      j == job[t]
  IN /\ j.at = "copy"
     /\ files' = [files EXCEPT ![t][j.fd] =
          [@ EXCEPT !.offset = @ + j.count,
                    !.got = @ \o [i \in 1 .. j.count |-> ByteAt(nodes[f.slot].data, f.offset + i + 1)]]]
     /\ job' = [job EXCEPT ![t] = NoJob]
     /\ UNCHANGED <<nodes, heap, upload, typed, latest, uploads>>

ReadCopy(t) ==
  LET f == File(t)
      j == job[t]
      bytes == [i \in 1 .. j.count |-> ByteAt(nodes[f.slot].data, f.offset + i)]
      left == j.left - j.count
  IN /\ j.at = "copy"
     /\ files' = [files EXCEPT ![t][j.fd] =
          [@ EXCEPT !.offset = @ + j.count, !.got = @ \o bytes]]
     /\ job' = [job EXCEPT ![t] =
          IF left = 0 \/ j.count < j.part THEN NoJob
          ELSE [@ EXCEPT !.at = "size", !.left = left, !.part = Min({left, Chunk})]]
     /\ UNCHANGED <<nodes, heap, upload, typed, latest, uploads>>

\* The loader's fs_close(), after the read or without memory for it.
Close(t) ==
  /\ job[t].at = "idle" /\ files[t][Loader].slot # None
  /\ files' = [files EXCEPT ![t][Loader] = NoFile]
  /\ UNCHANGED <<nodes, heap, upload, job, typed, latest, uploads>>

-----------------------------------------------------------------------------
(* The specification                                                       *)

Shell ==
  \/ Receive \/ TypeDigit \/ TypeOther
  \/ RegisterFind \/ RegisterFree \/ RegisterData \/ RegisterSize

Next ==
  \/ Shell
  \/ \E t \in Tasks : Open(t) \/ Read(t) \/ LoadRead(t) \/ ReadSize(t) \/ ReadCopy(t) \/ Close(t)

Spec == Init /\ [][Next]_vars

-----------------------------------------------------------------------------
(* Properties                                                              *)

\* The nodes, the upload and the open files are well formed, and an upload never receives
\* more than its size.
TypeOK ==
  /\ \A i \in Slots : nodes[i].path \in Paths /\ nodes[i].data \in Blocks \cup {None}
  /\ upload.buf # None => Len(heap[upload.buf]) <= upload.size
  /\ \A t \in Tasks, d \in Fds :
       files[t][d].slot \in Slots \cup {None} /\ files[t][d].offset = Len(files[t][d].got)

\* The bytes of the upload: each pair of digits is one byte.
Decoded == [i \in 1 .. Len(typed) \div 2 |-> 16 * typed[2 * i - 1] + typed[2 * i]]

\* What is typed is what is buffered, and a name has one node with the bytes last
\* registered under it.
BytesExact ==
  /\ upload.at # "none" => heap[upload.buf] = Decoded
  /\ upload.at \notin {"data", "size"} =>
       \A p \in Paths :
         LET S == {i \in Slots : nodes[i].used /\ nodes[i].path = p}
         IN IF latest[p] = Free THEN S = {}
            ELSE \E i \in Slots :
                   /\ S = {i} /\ nodes[i].size = Len(latest[p])
                   /\ heap[nodes[i].data] = latest[p]

\* The blocks in use are the built-in files, the copies that nodes own, the buffer of the
\* upload and the copy on its way into a node.
BlocksExact ==
  LET owned == {nodes[i].data : i \in {k \in Slots : nodes[k].used /\ nodes[k].owns}}
      dropped == IF upload.at = "data" /\ nodes[upload.slot].owns
                 THEN {nodes[upload.slot].data} ELSE {}
  IN Blocks \ FreeBlocks =
       (1 .. Len(Builtins)) \cup (owned \ dropped)
         \cup ({upload.buf, upload.copy} \ {None})

\* ramfs_register_file(): an upload that is refused, broken off or still going on changes
\* no file, no copy is lost when a file is replaced, and none is freed that a node still has.
FilesExact == BytesExact /\ BlocksExact

\* A file that is not replaced while it is open is read in order and without gaps, however
\* the reads are cut into parts.
ReadExact ==
  \A t \in Tasks, d \in Fds :
    LET f == files[t][d]
        n == nodes[f.slot]
    IN /\ f.slot # None /\ f.version = n.version
       /\ ~(upload.slot = f.slot /\ upload.at \in {"free", "data", "size"})
       => \A i \in 1 .. f.offset : f.got[i] = ByteAt(n.data, i) /\ f.got[i] # Garbage
=============================================================================
