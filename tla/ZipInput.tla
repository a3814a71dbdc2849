------------------------------ MODULE ZipInput ------------------------------
(***************************************************************************)
(* DPL::ZipInput: the files of an archive, read by several threads at once *)
(* through minizip.  Every open file has a minizip handle and an offset of *)
(* its own into one mapping of the archive (the class Device).             *)
(***************************************************************************)
EXTENDS Naturals, Sequences

CONSTANTS
  Entries,            \* the entries of the archive: records of name, start and size
  ArchiveSize,        \* its bytes, those of the entries and of the directory
  ExtractBufferSize,  \* EXTRACT_BUFFER_SIZE
  UnzBufSize,         \* UNZ_BUFSIZE of minizip
  Readers             \* the threads that read, each one file at a time

ZipAssumption ==
  /\ Len(Entries) \in Nat /\ DOMAIN Entries = 1 .. Len(Entries)
  /\ {ArchiveSize, UnzBufSize} \subseteq Nat /\ ExtractBufferSize \in Nat \ {0}
  /\ \A e \in DOMAIN Entries :
       /\ Entries[e].start \in Nat /\ Entries[e].size \in Nat
       /\ Entries[e].start + Entries[e].size <= ArchiveSize

VARIABLES
  zip,          \* "closed", "reading" or "open"
  m_fileInfos,  \* the entries whose information was read
  file          \* file[r]: the File of a thread

vars == << zip, m_fileInfos, file >>

LeastOf(m, n) == IF m < n THEN m ELSE n

(* The mapping: here the byte at an offset is the offset. *)
Mapped(offset, size) ==
  [i \in 1 .. LeastOf(size, ArchiveSize - offset) |-> offset + i - 1]

Content(e) == Mapped(Entries[e].start, Entries[e].size)

NoFile == [at |-> "none"]

Init ==
  /\ zip = "closed"
  /\ m_fileInfos = <<>>
  /\ file = [r \in Readers |-> NoFile]

-----------------------------------------------------------------------------
(* The constructor maps the file, opens the master handle and reads the    *)
(* information of every entry; if anything fails it lets go of both.       *)

Open ==
  /\ zip = "closed"
  /\ zip' = "reading" /\ UNCHANGED << m_fileInfos, file >>

ReadInfo ==
  /\ zip = "reading" /\ Len(m_fileInfos) < Len(Entries)
  /\ m_fileInfos' = Append(m_fileInfos, Len(m_fileInfos) + 1)
  /\ zip' = IF Len(m_fileInfos') = Len(Entries) THEN "open" ELSE "reading"
  /\ UNCHANGED file

ReadInfoFails ==
  /\ zip = "reading"
  /\ zip' = "closed" /\ m_fileInfos' = <<>> /\ UNCHANGED file

(* The destructor, when nobody has a file open any more. *)
Close ==
  /\ zip = "open" /\ \A r \in Readers : file[r] = NoFile
  /\ zip' = "closed" /\ m_fileInfos' = <<>> /\ UNCHANGED file

-----------------------------------------------------------------------------
Set(r, f) == file' = [file EXCEPT ![r] = f] /\ UNCHANGED << zip, m_fileInfos >>

(* The first entry with the name (none: OpenFileFailed), in a handle of    *)
(* its own.                                                                *)
OpenFile(r, name) ==
  /\ zip = "open" /\ file[r] = NoFile
  /\ \E e \in 1 .. Len(m_fileInfos) :
       /\ Entries[e].name = name
       /\ \A before \in 1 .. e - 1 : Entries[before].name # name
       /\ Set(r, [at |-> "idle", entry |-> e, offset |-> 0,
                  pos_in_zipfile |-> Entries[e].start, rest |-> Entries[e].size,
                  avail_in |-> <<>>, avail_out |-> 0, got |-> <<>>, ended |-> FALSE])

CloseFile(r) == file[r].at = "idle" /\ Set(r, NoFile)

(* Read: no more than the buffer holds and the entry has. *)
BeginRead(r, size) ==
  LET f == file[r]
      wanted == LeastOf(LeastOf(size, ExtractBufferSize), f.rest + Len(f.avail_in))
  IN  /\ f.at = "idle" /\ ~ f.ended
      /\ Set(r, IF wanted = 0 THEN [f EXCEPT !.ended = TRUE]
                ELSE [f EXCEPT !.at = "fill", !.avail_out = wanted])

(* Mutant: the offset belongs to the device. *)
SeekShared(r) ==
  /\ file[r].at = "fill" /\ file[r].avail_in = <<>>
  /\ file' = [x \in Readers |->
       IF x = r THEN [file[r] EXCEPT !.at = "read", !.offset = file[r].pos_in_zipfile]
       ELSE IF file[x].at = "none" THEN file[x]
       ELSE [file[x] EXCEPT !.offset = file[r].pos_in_zipfile]]
  /\ UNCHANGED << zip, m_fileInfos >>

(* minizip's buffer is empty: it seeks to where it stopped ... *)
Seek(r) ==
  /\ file[r].at = "fill" /\ file[r].avail_in = <<>>
  /\ Set(r, [file[r] EXCEPT !.at = "read", !.offset = file[r].pos_in_zipfile])

(* ... and reads from there, as one callback each of the device. *)
ReadDevice(r) ==
  LET f    == file[r]
      this == LeastOf(UnzBufSize, f.rest)
  IN  /\ f.at = "read"
      /\ Set(r, [f EXCEPT !.at = "fill", !.avail_in = Mapped(f.offset, this),
                          !.offset = @ + this, !.pos_in_zipfile = @ + this, !.rest = @ - this])

(* A stored entry is copied; the read goes on until it has what it wanted. *)
CopyOut(r) ==
  LET f     == file[r]
      count == LeastOf(f.avail_out, Len(f.avail_in))
  IN  /\ f.at = "fill" /\ f.avail_in # <<>>
      /\ Set(r, [f EXCEPT !.got = @ \o SubSeq(f.avail_in, 1, count),
                          !.avail_in = SubSeq(@, count + 1, Len(@)),
                          !.avail_out = @ - count,
                          !.at = IF f.avail_out = count THEN "idle" ELSE "fill"])

Next ==
  \/ Open \/ ReadInfo \/ ReadInfoFails \/ Close
  \/ \E r \in Readers :
       \/ \E e \in 1 .. Len(Entries) : OpenFile(r, Entries[e].name)
       \/ \E size \in 1 .. ExtractBufferSize + 1 : BeginRead(r, size)
       \/ Seek(r) \/ ReadDevice(r) \/ CopyOut(r) \/ CloseFile(r)

Spec == Init /\ [][Next]_vars

-----------------------------------------------------------------------------
(* "Here is introduced seekable device which does have a context with seek *)
(* index for each file": whatever the other threads read meanwhile, a file *)
(* gives the bytes of its own entry in order, and an empty buffer only     *)
(* when it has given all of them.                                          *)
FilesReadTheirEntry ==
  \A r \in Readers : file[r].at # "none" =>
    LET f == file[r]
    IN  /\ f.got = SubSeq(Content(f.entry), 1, Len(f.got))
        /\ f.ended => f.got = Content(f.entry)
=============================================================================
