-------------------------------- MODULE S3FS --------------------------------
(***************************************************************************)
(* The file system on an object store that git repositories and archives   *)
(* live on (s3fs.go).                                                      *)
(*                                                                         *)
(* Nothing is atomic but a single request to the store.  A file that is    *)
(* opened is fetched whole, changed in memory and put back whole by Close; *)
(* Rename is a copy and a delete; a directory is listed page by page;      *)
(* locks do nothing.  An action is one request to the store, or one call   *)
(* on the file in memory.                                                  *)
(***************************************************************************)
EXTENDS Naturals, Sequences

CONSTANTS
  MaxName,  \* names are 1..MaxName, in the order of their keys
  Handles,  \* files that may be open at once
  Chunks,   \* what a client may write at once: sequences of bytes, the empty one too
  FlagSets, \* the sets of flags a client may open a file with
  MaxLen,   \* bound on the length of a file
  None      \* no object, no name

ASSUME BoundsAssumption == MaxName \in Nat /\ MaxLen \in Nat
ASSUME ChunksAssumption == Chunks \subseteq Seq(Nat)
ASSUME FlagsAssumption  == FlagSets \subseteq SUBSET {"create", "excl", "trunc", "append", "write"}
ASSUME NoneAssumption   == None \notin Seq(Nat) \cup Nat

VARIABLES
  objects,  \* the bucket: the content of each name, or None
  files,    \* the s3File values of clients: [pc, name, data, pos, dirty, mode, plain, calm]
  rename,   \* a Rename under way: [pc, from, to, content, calm]
  listing   \* a ReadDir under way: [pc, after, seen, steady]

\* History: mode is the access a file was opened for, which the code drops; plain is
\* what an ordinary file would hold after the same calls; content is what is being
\* renamed; calm says that nobody else has stored to or removed the names concerned
\* since, and that no call on the file was one an ordinary file would have answered
\* otherwise (Strays, StraysCut); steady has the names that existed all along.

vars == <<objects, files, rename, listing>>

Names   == 1..MaxName
Content == Seq(Nat)
Zeros(n) == [i \in 1..n |-> 0]

NoFile    == [pc |-> "none", name |-> None, data |-> << >>, pos |-> 0, dirty |-> FALSE,
              mode |-> "read", plain |-> << >>, calm |-> FALSE]
NoRename  == [pc |-> "none", from |-> None, to |-> None, content |-> << >>, calm |-> FALSE]
NoListing == [pc |-> "none", after |-> 0, seen |-> {}, steady |-> {}]

FileRec    == [pc : {"none", "open"}, name : Names \cup {None}, data : Content, pos : Nat,
               dirty : BOOLEAN, mode : {"read", "write", "append"}, plain : Content, calm : BOOLEAN]
RenameRec  == [pc : {"none", "copied"}, from : Names \cup {None}, to : Names \cup {None},
               content : Content, calm : BOOLEAN]
ListingRec == [pc : {"none", "pages", "listed"}, after : Nat, seen : SUBSET Names, steady : SUBSET Names]

TypeOK ==
  /\ objects \in [Names -> Content \cup {None}]
  /\ files \in [Handles -> FileRec]
  /\ rename \in RenameRec
  /\ listing \in ListingRec
  /\ \A h \in Handles : files[h].pc = "open" => files[h].name \in Names
  /\ rename.pc = "copied" => rename.from \in Names /\ rename.to \in Names

Init ==
  /\ objects = [n \in Names |-> None]
  /\ files = [h \in Handles |-> NoFile]
  /\ rename = NoRename
  /\ listing = NoListing

Existing == {n \in Names : objects[n] # None}
IsOpen(h) == files[h].pc = "open"

\* A file that is followed no more.
Lost(f) == [f EXCEPT !.calm = FALSE, !.plain = << >>, !.mode = "write"]

\* What others have to know when the objects called names are changed.
FilesDisturbed(names, others) == [g \in Handles |->
  IF g \in others /\ files[g].name \in names THEN Lost(files[g]) ELSE files[g]]
RenameDisturbed(names) ==
  IF rename.from \in names \/ rename.to \in names THEN [rename EXCEPT !.calm = FALSE] ELSE rename

-----------------------------------------------------------------------------
(* s3FS.OpenFile; Create and TempFile are OpenFile with create, trunc and  *)
(* write (O_RDWR), Open is OpenFile without flags (O_RDONLY).              *)

Mode(flags) ==
  IF "write" \notin flags THEN "read" ELSE IF "append" \in flags THEN "append" ELSE "write"

OpenFile(h, n, flags) ==
  LET missing == objects[n] = None
      new     == \/ {"create", "trunc"} \subseteq flags /\ "excl" \notin flags
                 \/ missing /\ "create" \in flags
      data    == IF new \/ "trunc" \in flags THEN << >> ELSE objects[n]
  IN  /\ ~IsOpen(h)
      /\ missing => new
      /\ ~missing => ~({"create", "excl"} \subseteq flags)
      /\ files' = [files EXCEPT ![h] =
           [pc |-> "open", name |-> n, data |-> data,
            pos |-> IF "append" \in flags THEN Len(data) ELSE 0,
            dirty |-> new \/ "trunc" \in flags, mode |-> Mode(flags),
            plain |-> IF missing \/ "trunc" \in flags THEN << >> ELSE objects[n], calm |-> TRUE]]
      /\ UNCHANGED <<objects, rename, listing>>

-----------------------------------------------------------------------------
(* s3File *)

\* What a plain file holds after a write at pos, or when it is cut or extended.  To
\* write no bytes does nothing.
PlainWrite(data, pos, bytes) ==
  LET end == IF bytes = << >> THEN 0 ELSE pos + Len(bytes)
  IN  [i \in 1..(IF end > Len(data) THEN end ELSE Len(data)) |->
         IF pos < i /\ i <= end THEN bytes[i - pos] ELSE IF i <= Len(data) THEN data[i] ELSE 0]
PlainTruncate(data, size) == [i \in 1..size |-> IF i <= Len(data) THEN data[i] ELSE 0]

\* Faulty variant of Written: the gap is not filled.
WrittenNoGap(data, pos, bytes) ==
  LET at == IF pos < Len(data) THEN pos ELSE Len(data)
  IN  SubSeq(data, 1, at) \o bytes \o SubSeq(data, at + Len(bytes) + 1, Len(data))

\* The gap up to pos is filled, and the bytes replace and extend what is there.
Written(data, pos, bytes) ==
  LET full == IF pos > Len(data) THEN data \o Zeros(pos - Len(data)) ELSE data
  IN  SubSeq(full, 1, pos) \o bytes \o SubSeq(full, pos + Len(bytes) + 1, Len(full))

\* Where the code departs from an ordinary file: a file opened for reading is
\* written, and cut, like any other; O_APPEND only sets the position, and the bytes
\* go where the file was sought; and to write no bytes beyond the end fills the gap.
Strays(f, bytes) ==
  \/ f.mode = "read"
  \/ f.mode = "append" /\ bytes # << >> /\ f.pos # Len(f.data)
  \/ bytes = << >> /\ f.pos > Len(f.data)
StraysCut(f) == f.mode = "read"

\* The file f after a call that leaves an ordinary file with plain.
Followed(f, strays, plain) == IF f.calm /\ ~strays THEN [f EXCEPT !.plain = plain] ELSE Lost(f)

PlainPos(f) == IF f.mode = "append" THEN Len(f.plain) ELSE f.pos

Write(h, bytes) ==
  LET f    == files[h]
      then == Followed(f, Strays(f, bytes), PlainWrite(f.plain, PlainPos(f), bytes))
  IN  /\ IsOpen(h)
      /\ f.pos + Len(bytes) <= MaxLen
      /\ files' = [files EXCEPT ![h] = [then EXCEPT
           !.data = Written(f.data, f.pos, bytes), !.pos = @ + Len(bytes), !.dirty = TRUE]]
      /\ UNCHANGED <<objects, rename, listing>>

\* Seek, and Read, which moves the position no further than the end.
Seek(h, pos) ==
  /\ IsOpen(h)
  /\ files' = [files EXCEPT ![h].pos = pos]
  /\ UNCHANGED <<objects, rename, listing>>

Truncated(data, size) ==
  IF size < Len(data) THEN SubSeq(data, 1, size) ELSE data \o Zeros(size - Len(data))

Truncate(h, size) ==
  LET f == files[h] IN
    /\ IsOpen(h)
    /\ files' = [files EXCEPT ![h] = [Followed(f, StraysCut(f), PlainTruncate(f.plain, size)) EXCEPT
         !.data = Truncated(f.data, size), !.dirty = TRUE]]
    /\ UNCHANGED <<objects, rename, listing>>

Stores(h) ==
  /\ objects' = [objects EXCEPT ![files[h].name] = files[h].data]
  /\ files' = [FilesDisturbed({files[h].name}, Handles \ {h}) EXCEPT ![h] = NoFile]
  /\ rename' = RenameDisturbed({files[h].name})

Leaves(h) ==
  /\ files' = [files EXCEPT ![h] = NoFile]
  /\ UNCHANGED <<objects, rename>>

\* Close answers nil.  A file that was not changed is not put.
Close(h) ==
  /\ IsOpen(h)
  /\ IF files[h].dirty THEN Stores(h) ELSE Leaves(h)
  /\ UNCHANGED listing

\* The request fails, or only its answer does.  The file counts as closed: a
\* second Close answers nil.
CloseFails(h) ==
  /\ IsOpen(h)
  /\ files[h].dirty
  /\ Stores(h) \/ Leaves(h)
  /\ UNCHANGED listing

-----------------------------------------------------------------------------
(* s3FS.Rename and s3FS.Remove *)

DropsFromListing(n) == [listing EXCEPT !.steady = @ \ {n}]

\* Faulty variant of Copy: a source that does not exist is not noticed.
CopyMissing(from, to) ==
  /\ rename.pc = "none"
  /\ from # to
  /\ objects' = [objects EXCEPT ![to] = objects[from]]
  /\ files' = FilesDisturbed({to}, Handles)
  /\ rename' = [pc |-> "copied", from |-> from, to |-> to, content |-> objects[from], calm |-> TRUE]
  /\ UNCHANGED listing

\* Faulty variant of Copy: a failure of the request is not noticed.
CopyUnchecked(from, to) ==
  /\ rename.pc = "none"
  /\ objects[from] # None /\ from # to
  /\ objects' \in {objects, [objects EXCEPT ![to] = objects[from]]}
  /\ files' = FilesDisturbed({to}, Handles)
  /\ rename' = [pc |-> "copied", from |-> from, to |-> to, content |-> objects[from], calm |-> TRUE]
  /\ UNCHANGED listing

\* CopyObject.  The store refuses to copy an object onto itself.
Copy(from, to) ==
  /\ rename.pc = "none"
  /\ objects[from] # None /\ from # to
  /\ objects' = [objects EXCEPT ![to] = objects[from]]
  /\ files' = FilesDisturbed({to}, Handles)
  /\ rename' = [pc |-> "copied", from |-> from, to |-> to, content |-> objects[from], calm |-> TRUE]
  /\ UNCHANGED listing

DeleteOld ==
  /\ rename.pc = "copied"
  /\ objects' = [objects EXCEPT ![rename.from] = None]
  /\ files' = FilesDisturbed({rename.from}, Handles)
  /\ rename' = NoRename
  /\ listing' = DropsFromListing(rename.from)

\* The delete fails, and both names stay.
RenameFails ==
  /\ rename.pc = "copied"
  /\ rename' = NoRename
  /\ UNCHANGED <<objects, files, listing>>

Remove(n) ==
  /\ objects' = [objects EXCEPT ![n] = None]
  /\ files' = FilesDisturbed({n}, Handles)
  /\ rename' = RenameDisturbed({n})
  /\ listing' = DropsFromListing(n)

-----------------------------------------------------------------------------
(* s3FS.ReadDir *)

StartListing ==
  /\ listing.pc # "pages"
  /\ listing' = [pc |-> "pages", after |-> 0, seen |-> {}, steady |-> Existing]
  /\ UNCHANGED <<objects, files, rename>>

\* The keys after the last one of the page before, up to and including last.
PageTo(last) == {n \in Existing : listing.after < n /\ n <= last}

\* Faulty variant of Page: the first page is all there is.
PageOnly(last) ==
  /\ listing.pc = "pages"
  /\ last \in Existing /\ listing.after < last
  /\ \E n \in Existing : last < n
  /\ listing' = [listing EXCEPT !.seen = @ \cup PageTo(last), !.pc = "listed"]
  /\ UNCHANGED <<objects, files, rename>>

\* One truncated answer; the store decides how many keys a page has.
Page(last) ==
  /\ listing.pc = "pages"
  /\ last \in Existing /\ listing.after < last
  /\ \E n \in Existing : last < n
  /\ listing' = [listing EXCEPT !.seen = @ \cup PageTo(last), !.after = last]
  /\ UNCHANGED <<objects, files, rename>>

LastPage ==
  /\ listing.pc = "pages"
  /\ listing' = [listing EXCEPT !.seen = @ \cup PageTo(MaxName), !.pc = "listed"]
  /\ UNCHANGED <<objects, files, rename>>

-----------------------------------------------------------------------------
\* The process stops at any point.
Crash ==
  /\ files' = [h \in Handles |-> NoFile]
  /\ rename' = NoRename
  /\ listing' = NoListing
  /\ UNCHANGED objects

FileStep(h) ==
  \/ \E n \in Names, flags \in FlagSets : OpenFile(h, n, flags)
  \/ \E bytes \in Chunks : Write(h, bytes)
  \/ \E n \in 0..MaxLen : Seek(h, n) \/ Truncate(h, n)
  \/ Close(h) \/ CloseFails(h)

Next ==
  \/ \E h \in Handles : FileStep(h)
  \/ \E from, to \in Names : Copy(from, to)
  \/ DeleteOld \/ RenameFails
  \/ \E n \in Names : Remove(n)
  \/ StartListing \/ LastPage
  \/ \E last \in Names : Page(last)
  \/ Crash

Spec == Init /\ [][Next]_vars

-----------------------------------------------------------------------------
(* Properties *)

\* A file holds, once Close has answered nil, the bytes an ordinary file would hold
\* after the same calls, however it was opened, sought, cut and written, provided
\* that nobody else stored to its name since it was opened and that no call was one
\* of those the code answers otherwise than an ordinary file: a write or a cut of a
\* file opened for reading, a write elsewhere than at the end of one opened with
\* O_APPEND, and a write of no bytes beyond the end (s3fs.go:106-138,341-355,402-429,439-450).
SessionIsPlain ==
  [][\A h \in Handles :
       Close(h) /\ files[h].calm => objects'[files[h].name] = files[h].plain]_vars

\* A rename moves the content or, where it breaks off, leaves it under both
\* names: there is no moment at which neither has it, provided that nobody else
\* stores to the two names meanwhile (s3fs.go:170-194).
RenameLosesNothing ==
  [][rename.pc = "copied" /\ rename.calm
     => /\ objects[rename.from] = rename.content
        /\ objects[rename.to] = rename.content
        /\ DeleteOld => objects'[rename.to] = rename.content]_vars

\* A listing has every name that existed all the while it was made, whatever
\* comes and goes between its pages (s3fs.go:220-248).
ListingIsComplete == listing.pc = "listed" => listing.steady \subseteq listing.seen

=============================================================================
