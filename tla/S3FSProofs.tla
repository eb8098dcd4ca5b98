----------------------------- MODULE S3FSProofs -----------------------------
(***************************************************************************)
(* Theorems about the file system on an object store (S3FS): a file that   *)
(* is closed holds what an ordinary file would, a rename loses nothing,    *)
(* and a listing misses nothing, for any number of names, files and bytes. *)
(***************************************************************************)
EXTENDS S3FS, SequenceTheorems, TLAPS

-----------------------------------------------------------------------------
(* The bytes *)

\* A gap is a sequence of as many zeros (s3fs.go:346,447).
LEMMA ZerosAreContent ==
  ASSUME NEW n \in Nat
  PROVE  Zeros(n) \in Content /\ Len(Zeros(n)) = n
BY DEF Zeros, Content

\* What a concatenation holds (s3fs.go:346,350).
LEMMA Joined ==
  ASSUME NEW s \in Content, NEW r \in Content
  PROVE  /\ s \o r \in Content /\ Len(s \o r) = Len(s) + Len(r)
         /\ Len(s) \in Nat /\ Len(r) \in Nat
         /\ \A i \in 1..(Len(s) + Len(r)) : (s \o r)[i] = IF i <= Len(s) THEN s[i] ELSE r[i - Len(s)]
BY DEF Content

\* What an ordinary file holds is bytes.
LEMMA PlainIsContent ==
  ASSUME NEW data \in Content, NEW pos \in Nat, NEW bytes \in Content
  PROVE  PlainWrite(data, pos, bytes) \in Content
<1> DEFINE end  == IF bytes = << >> THEN 0 ELSE pos + Len(bytes)
           size == IF end > Len(data) THEN end ELSE Len(data)
           at(i) == IF pos < i /\ i <= end THEN bytes[i - pos]
                    ELSE IF i <= Len(data) THEN data[i] ELSE 0
<1>1. Len(data) \in Nat /\ Len(bytes) \in Nat /\ end \in Nat /\ size \in Nat
  BY DEF Content
<1>2. \A i \in 1..size : at(i) \in Nat
  BY <1>1 DEF Content
<1>3. PlainWrite(data, pos, bytes) = [i \in 1..size |-> at(i)]
  BY DEF PlainWrite
<1> HIDE DEF at, size
<1>4. [i \in 1..size |-> at(i)] \in Seq(Nat)
  BY <1>1, <1>2
<1> QED
  BY <1>3, <1>4 DEF Content

\* What is written is bytes.
LEMMA WrittenIsContent ==
  ASSUME NEW data \in Content, NEW pos \in Nat, NEW bytes \in Content
  PROVE  Written(data, pos, bytes) \in Content
<1> DEFINE gap  == Zeros(pos - Len(data))
           full == IF pos > Len(data) THEN data \o gap ELSE data
<1>1. Len(data) \in Nat /\ Len(bytes) \in Nat
  BY DEF Content
<1>2. full \in Seq(Nat)
  <2>1. CASE pos > Len(data)
    <3>1. pos - Len(data) \in Nat
      BY <1>1, <2>1
    <3>2. gap \in Seq(Nat)
      BY <3>1, ZerosAreContent DEF Content
    <3> HIDE DEF gap
    <3> QED
      BY <2>1, <3>2 DEF Content
  <2>2. CASE ~(pos > Len(data))
    BY <2>2 DEF Content
  <2> QED
    BY <2>1, <2>2
<1>3. Written(data, pos, bytes) = SubSeq(full, 1, pos) \o bytes \o SubSeq(full, pos + Len(bytes) + 1, Len(full))
  BY DEF Written
<1> HIDE DEF full
<1>4. Len(full) \in Nat /\ (pos > Len(full) => FALSE)
  <2>1. CASE pos > Len(data)
    <3>1. pos - Len(data) \in Nat
      BY <1>1, <2>1
    <3>2. gap \in Seq(Nat) /\ Len(gap) = pos - Len(data)
      BY <3>1, ZerosAreContent DEF Content
    <3> HIDE DEF gap
    <3> QED
      BY <1>1, <2>1, <3>2 DEF full, Content
  <2>2. CASE ~(pos > Len(data))
    BY <1>1, <2>2 DEF full
  <2> QED
    BY <2>1, <2>2
<1>5. /\ SubSeq(full, 1, pos) \in Content
      /\ SubSeq(full, pos + Len(bytes) + 1, Len(full)) \in Content
  BY <1>1, <1>2, <1>4 DEF Content
<1> QED
  BY <1>3, <1>5, Joined

\* A write gives what an ordinary file would hold, but one of no bytes beyond the
\* end (s3fs.go:341-355).
LEMMA WrittenIsPlain ==
  ASSUME NEW data \in Content, NEW pos \in Nat, NEW bytes \in Content,
         bytes # << >> \/ pos <= Len(data)
  PROVE  Written(data, pos, bytes) = PlainWrite(data, pos, bytes)
<1> DEFINE gap   == Zeros(pos - Len(data))
           full  == IF pos > Len(data) THEN data \o gap ELSE data
           end   == pos + Len(bytes)
           front == SubSeq(full, 1, pos)
           tail  == SubSeq(full, end + 1, Len(full))
           plain == PlainWrite(data, pos, bytes)
           size  == IF end > Len(data) THEN end ELSE Len(data)
<1>0. Len(data) \in Nat /\ Len(bytes) \in Nat /\ end \in Nat /\ size \in Nat
  BY DEF Content
<1>1. /\ full \in Seq(Nat)
      /\ Len(full) = (IF pos > Len(data) THEN pos ELSE Len(data))
      /\ \A i \in 1..Len(full) : full[i] = IF i <= Len(data) THEN data[i] ELSE 0
  <2>1. CASE pos > Len(data)
    <3>1. pos - Len(data) \in Nat
      BY <1>0, <2>1
    <3>2. gap \in Seq(Nat) /\ Len(gap) = pos - Len(data)
      BY <3>1, ZerosAreContent DEF Content
    <3>3. \A i \in 1..Len(gap) : gap[i] = 0
      BY <3>1, <3>2 DEF Zeros
    <3>4. full = data \o gap
      BY <2>1
    <3> HIDE DEF gap, full
    <3> QED
      BY <1>0, <2>1, <3>2, <3>3, <3>4 DEF Content
  <2>2. CASE ~(pos > Len(data))
    BY <1>0, <2>2 DEF Content
  <2> QED
    BY <2>1, <2>2
<1> HIDE DEF full
<1>2. /\ front \in Seq(Nat) /\ Len(front) = pos
      /\ \A i \in 1..pos : front[i] = full[i]
  BY <1>0, <1>1
<1>3. /\ tail \in Seq(Nat)
      /\ Len(tail) = (IF end < Len(full) THEN Len(full) - end ELSE 0)
      /\ \A i \in 1..Len(tail) : tail[i] = full[end + i]
  BY <1>0, <1>1
<1> DEFINE written == front \o bytes \o tail
<1>4. Written(data, pos, bytes) = written
  BY DEF Written, full
<1> HIDE DEF front, tail
<1>5. /\ (front \o bytes) \in Seq(Nat) /\ Len(front \o bytes) = end
      /\ \A i \in 1..end : (front \o bytes)[i] = IF i <= pos THEN front[i] ELSE bytes[i - pos]
  BY <1>2, Joined DEF Content
<1> DEFINE head == front \o bytes
<1> HIDE DEF head
<1>6. head \in Seq(Nat) /\ Len(head) = end
  BY <1>5 DEF head
<1> DEFINE joined == head \o tail
<1> HIDE DEF written
<1>7. /\ joined \in Seq(Nat) /\ Len(joined) = size
      /\ \A i \in 1..size : joined[i] = IF i <= end THEN head[i] ELSE tail[i - end]
  <2> HIDE DEF end, size
  <2>1. pos <= end
    BY <1>0 DEF end, Content
  <2>2. size = IF end > Len(data) THEN end ELSE Len(data)
    BY DEF size
  <2>3. Len(tail) \in Nat
    BY <1>3
  <2>4. end + Len(tail) = size
    <3>1. CASE pos > Len(data)
      BY <1>0, <1>1, <1>3, <2>1, <2>2, <3>1
    <3>2. CASE ~(pos > Len(data))
      BY <1>0, <1>1, <1>3, <2>1, <2>2, <3>2
    <3> QED
      BY <3>1, <3>2
  <2>5. joined \in Seq(Nat) /\ Len(joined) = end + Len(tail)
    BY <1>3, <1>6, Joined DEF Content
  <2>6. \A i \in 1..(end + Len(tail)) : joined[i] = IF i <= end THEN head[i] ELSE tail[i - end]
    BY <1>3, <1>6, Joined DEF Content
  <2> QED
    BY <2>4, <2>5, <2>6
<1>a. written = joined
  BY DEF written, head
<1>8. plain = [i \in 1..size |-> IF pos < i /\ i <= end THEN bytes[i - pos]
                                 ELSE IF i <= Len(data) THEN data[i] ELSE 0]
  <2>1. CASE bytes # << >>
    BY <2>1 DEF PlainWrite
  <2>2. CASE bytes = << >>
    <3>1. end = pos /\ size = Len(data)
      BY <1>0, <2>2
    <3>2. \A i \in 1..size : ~(pos < i /\ i <= end) /\ ~(pos < i /\ i <= 0)
      BY <1>0, <3>1
    <3>3. plain = [i \in 1..Len(data) |-> IF pos < i /\ i <= 0 THEN bytes[i - pos]
                                          ELSE IF i <= Len(data) THEN data[i] ELSE 0]
      BY <1>0, <2>2 DEF PlainWrite
    <3> HIDE DEF plain, end, size
    <3> QED
      BY <3>1, <3>2, <3>3
  <2> QED
    BY <2>1, <2>2
<1> HIDE DEF joined, plain
<1>9. \A i \in 1..size : joined[i] = plain[i]
  <2> SUFFICES ASSUME NEW i \in 1..size PROVE joined[i] = plain[i]
    OBVIOUS
  <2>0. joined[i] = IF i <= end THEN head[i] ELSE tail[i - end]
    BY <1>7
  <2>a. plain[i] = IF pos < i /\ i <= end THEN bytes[i - pos]
                   ELSE IF i <= Len(data) THEN data[i] ELSE 0
    BY <1>8
  <2>b. i \in Nat /\ i >= 1 /\ i <= size /\ pos <= end
    BY <1>0 DEF Content
  <2> HIDE DEF end, size
  <2>1. CASE i <= pos
    <3>1. head[i] = full[i]
      BY <1>2, <1>5, <2>1, <2>b DEF head
    <3>2. i <= Len(full)
      BY <1>0, <1>1, <2>1, <2>b
    <3> QED
      <4>1. i <= end /\ ~(pos < i)
        BY <1>0, <2>1, <2>b
      <4>2. full[i] = IF i <= Len(data) THEN data[i] ELSE 0
        BY <1>1, <2>b, <3>2
      <4> QED
        BY <2>0, <2>a, <3>1, <4>1, <4>2
  <2>2. CASE pos < i /\ i <= end
    <3>1. head[i] = bytes[i - pos]
      <4>1. i \in 1..end /\ ~(i <= pos)
        BY <1>0, <2>2, <2>b
      <4> QED
        BY <1>5, <4>1 DEF head
    <3> QED
      BY <2>0, <2>a, <2>2, <3>1
  <2>3. CASE end < i
    <3>1. i <= Len(data) /\ Len(full) = Len(data)
      BY <1>0, <1>1, <2>3, <2>b DEF size
    <3>2. i - end \in 1..Len(tail) /\ end + (i - end) = i /\ i \in 1..Len(full)
      BY <1>0, <1>3, <2>3, <2>b, <3>1
    <3>3. tail[i - end] = full[end + (i - end)]
      BY <1>3, <3>2
    <3>4. full[i] = data[i]
      BY <1>1, <3>1, <3>2
    <3>5. ~(i <= end)
      BY <1>0, <2>3, <2>b
    <3> QED
      BY <2>0, <2>a, <3>1, <3>2, <3>3, <3>4, <3>5
  <2> QED
    BY <1>0, <2>1, <2>2, <2>3, <2>b
<1>10. joined = [i \in 1..size |-> joined[i]]
  BY <1>0, <1>7
<1>11. plain = [i \in 1..size |-> plain[i]]
  BY <1>8
<1>12. joined = plain
  BY <1>9, <1>10, <1>11
<1> QED
  BY <1>4, <1>a, <1>12 DEF plain

\* Truncate gives what an ordinary file would hold (s3fs.go:439-450).
LEMMA TruncatedIsPlain ==
  ASSUME NEW data \in Content, NEW size \in Nat
  PROVE  /\ Truncated(data, size) = PlainTruncate(data, size)
         /\ PlainTruncate(data, size) \in Content
<1> DEFINE cut == Truncated(data, size)
           plain == PlainTruncate(data, size)
<1>0. Len(data) \in Nat
  BY DEF Content
<1>1. /\ cut \in Seq(Nat) /\ Len(cut) = size
      /\ \A i \in 1..size : cut[i] = IF i <= Len(data) THEN data[i] ELSE 0
  <2>1. CASE size < Len(data)
    <3>1. cut = SubSeq(data, 1, size)
      BY <2>1 DEF Truncated
    <3> HIDE DEF cut
    <3> QED
      BY <1>0, <2>1, <3>1 DEF Content
  <2>2. CASE ~(size < Len(data))
    <3> DEFINE gap == Zeros(size - Len(data))
    <3>1. size - Len(data) \in Nat
      BY <1>0, <2>2
    <3>2. gap \in Seq(Nat) /\ Len(gap) = size - Len(data)
      BY <3>1, ZerosAreContent DEF Content
    <3>3. \A i \in 1..Len(gap) : gap[i] = 0
      BY <3>1, <3>2 DEF Zeros
    <3>4. cut = data \o gap
      BY <2>2 DEF Truncated
    <3> HIDE DEF gap, cut
    <3> QED
      BY <1>0, <2>2, <3>2, <3>3, <3>4 DEF Content
  <2> QED
    BY <2>1, <2>2
<1>2. plain = [i \in 1..size |-> IF i <= Len(data) THEN data[i] ELSE 0]
  BY DEF PlainTruncate
<1> HIDE DEF cut, plain
<1>3. cut = [i \in 1..size |-> cut[i]]
  BY <1>1
<1>4. cut = plain
  BY <1>1, <1>2, <1>3
<1> QED
  BY <1>1, <1>4 DEF cut, plain, Content

-----------------------------------------------------------------------------
(* Types *)

\* A file that is no longer followed, and one that may be, is still open as it was.
LEMMA LostShape ==
  ASSUME NEW f \in FileRec
  PROVE  LET g == Lost(f) IN g \in FileRec /\ g.pc = f.pc /\ g.name = f.name /\ ~g.calm
<1> DEFINE g == [f EXCEPT !.calm = FALSE, !.plain = << >>, !.mode = "write"]
<1>1. << >> \in Content
  BY DEF Content
<1>2. g \in FileRec /\ g.pc = f.pc /\ g.name = f.name /\ ~g.calm
  BY <1>1 DEF FileRec
<1> QED
  BY <1>2 DEF Lost

LEMMA FollowedShape ==
  ASSUME NEW f \in FileRec, NEW strays \in BOOLEAN, NEW plain \in Content
  PROVE  LET g == Followed(f, strays, plain) IN
           /\ g \in FileRec /\ g.pc = f.pc /\ g.name = f.name
           /\ g.calm => f.calm /\ ~strays /\ g.plain = plain
<1>1. CASE f.calm /\ ~strays
  <2>1. LET g == [f EXCEPT !.plain = plain] IN
          g \in FileRec /\ g.pc = f.pc /\ g.name = f.name /\ g.plain = plain
    BY DEF FileRec
  <2> QED
    BY <1>1, <2>1 DEF Followed
<1>2. CASE ~(f.calm /\ ~strays)
  BY <1>2, LostShape DEF Followed
<1> QED
  BY <1>1, <1>2

\* The records of the state have the fields and the values they should.
LEMMA TypeStep ==
  ASSUME TypeOK, Next
  PROVE  TypeOK'
<1> USE BoundsAssumption, ChunksAssumption
<1>0. << >> \in Content /\ Names \subseteq Nat
  BY DEF Content, Names
<1>1. NoFile \in FileRec /\ NoRename \in RenameRec /\ NoListing \in ListingRec
  BY <1>0 DEF NoFile, NoRename, NoListing, FileRec, RenameRec, ListingRec
<1>2. ASSUME NEW names, NEW others
      PROVE  /\ FilesDisturbed(names, others) \in [Handles -> FileRec]
             /\ \A h \in Handles : /\ FilesDisturbed(names, others)[h].pc = files[h].pc
                                   /\ FilesDisturbed(names, others)[h].name = files[h].name
  BY LostShape DEF FilesDisturbed, TypeOK
<1>3. ASSUME NEW names
      PROVE  /\ RenameDisturbed(names) \in RenameRec
             /\ RenameDisturbed(names).pc = rename.pc
             /\ RenameDisturbed(names).from = rename.from
             /\ RenameDisturbed(names).to = rename.to
  BY DEF RenameDisturbed, TypeOK, RenameRec
<1>4. ASSUME NEW n PROVE DropsFromListing(n) \in ListingRec
  BY DEF DropsFromListing, TypeOK, ListingRec
<1>5. ASSUME NEW h \in Handles, NEW n \in Names,
             NEW flags \in FlagSets, OpenFile(h, n, flags)
      PROVE  TypeOK'
  <2> DEFINE f == files'[h]
  <2>1. f \in FileRec /\ f.name \in Names
    BY <1>0, <1>5 DEF OpenFile, Mode, TypeOK, FileRec, Content
  <2>2. files' \in [Handles -> FileRec] /\ \A g \in Handles \ {h} : files'[g] = files[g]
    BY <1>5, <2>1 DEF OpenFile, TypeOK
  <2> QED
    BY <1>5, <2>1, <2>2 DEF OpenFile, TypeOK
<1>6. ASSUME NEW h \in Handles, NEW bytes \in Chunks, Write(h, bytes)
      PROVE  TypeOK'
  <2>1. files[h] \in FileRec /\ bytes \in Content /\ Len(bytes) \in Nat
    BY DEF TypeOK, Content
  <2>2. /\ Written(files[h].data, files[h].pos, bytes) \in Content
        /\ PlainWrite(files[h].plain, PlainPos(files[h]), bytes) \in Content
    <3>1. PlainPos(files[h]) \in Nat
      BY <2>1 DEF PlainPos, FileRec, Content
    <3> QED
      BY <2>1, <3>1, WrittenIsContent, PlainIsContent DEF FileRec
  <2>3. files'[h] \in FileRec /\ files'[h].pc = files[h].pc /\ files'[h].name = files[h].name
    <3> DEFINE f    == files[h]
               data == Written(f.data, f.pos, bytes)
               then == Followed(f, Strays(f, bytes), PlainWrite(f.plain, PlainPos(f), bytes))
    <3>1. files'[h] = [then EXCEPT !.data = data, !.pos = @ + Len(bytes), !.dirty = TRUE]
      BY <1>6 DEF Write, TypeOK
    <3>2. then \in FileRec /\ then.pc = f.pc /\ then.name = f.name
      <4>1. Strays(f, bytes) \in BOOLEAN
        BY DEF Strays
      <4> QED
        BY <2>1, <2>2, <4>1, FollowedShape
    <3>3. data \in Content
      BY <2>2
    <3>4. then.pos + Len(bytes) \in Nat
      BY <2>1, <3>2 DEF FileRec
    <3> DEFINE pos == then.pos + Len(bytes)
    <3>5. files'[h] = [then EXCEPT !.data = data, !.pos = pos, !.dirty = TRUE]
      BY <3>1
    <3> HIDE DEF data, then, pos
    <3>6. files'[h] \in FileRec /\ files'[h].pc = then.pc /\ files'[h].name = then.name
      BY <3>2, <3>3, <3>4, <3>5 DEF FileRec, pos
    <3> QED
      BY <3>2, <3>6
  <2>4. files' \in [Handles -> FileRec] /\ \A g \in Handles \ {h} : files'[g] = files[g]
    BY <1>6, <2>3 DEF Write, TypeOK
  <2> QED
    BY <1>6, <2>3, <2>4 DEF Write, TypeOK
<1>7. ASSUME NEW h \in Handles, NEW n \in 0..MaxLen, Seek(h, n)
      PROVE  TypeOK'
  BY <1>7 DEF Seek, TypeOK, FileRec
<1>8. ASSUME NEW h \in Handles, NEW n \in 0..MaxLen, Truncate(h, n)
      PROVE  TypeOK'
  <2>1. files[h] \in FileRec
    BY DEF TypeOK
  <2>2. /\ Truncated(files[h].data, n) \in Content
        /\ PlainTruncate(files[h].plain, n) \in Content
    BY <2>1, TruncatedIsPlain DEF FileRec
  <2>3. files'[h] \in FileRec /\ files'[h].pc = files[h].pc /\ files'[h].name = files[h].name
    <3> DEFINE f    == files[h]
               then == Followed(f, StraysCut(f), PlainTruncate(f.plain, n))
    <3>1. files'[h] = [then EXCEPT !.data = Truncated(f.data, n), !.dirty = TRUE]
      BY <1>8 DEF Truncate, TypeOK
    <3>2. then \in FileRec /\ then.pc = f.pc /\ then.name = f.name
      <4>1. StraysCut(f) \in BOOLEAN
        BY DEF StraysCut
      <4> QED
        BY <2>1, <2>2, <4>1, FollowedShape
    <3> HIDE DEF then
    <3> QED
      BY <2>2, <3>1, <3>2 DEF FileRec
  <2>4. files' \in [Handles -> FileRec] /\ \A g \in Handles \ {h} : files'[g] = files[g]
    BY <1>8, <2>3 DEF Truncate, TypeOK
  <2> QED
    BY <1>8, <2>3, <2>4 DEF Truncate, TypeOK
<1>9. ASSUME NEW h \in Handles, Close(h) \/ CloseFails(h)
      PROVE  TypeOK'
  <2>1. CASE Stores(h)
    <3>1. files[h].name \in Names /\ files[h].data \in Content
      BY <1>9 DEF Close, CloseFails, IsOpen, TypeOK, FileRec
    <3>2. objects' \in [Names -> Content \cup {None}]
      BY <2>1, <3>1 DEF Stores, TypeOK
    <3>3. /\ files' \in [Handles -> FileRec]
          /\ \A g \in Handles : files'[g].pc = "open" => files'[g].name \in Names
      BY <1>1, <1>2, <2>1 DEF Stores, TypeOK, NoFile
    <3>4. UNCHANGED listing
      BY <1>9 DEF Close, CloseFails
    <3> QED
      BY <1>3, <2>1, <3>2, <3>3, <3>4 DEF Stores, TypeOK
  <2>2. CASE Leaves(h)
    <3>1. UNCHANGED listing
      BY <1>9 DEF Close, CloseFails
    <3> QED
      BY <1>1, <2>2, <3>1 DEF Leaves, TypeOK, NoFile
  <2> QED
    BY <1>9, <2>1, <2>2 DEF Close, CloseFails
<1>10. ASSUME NEW from \in Names, NEW to \in Names, Copy(from, to)
       PROVE  TypeOK'
  <2>1. objects[from] \in Content
    BY <1>10 DEF Copy, TypeOK
  <2>2. rename' \in RenameRec /\ rename'.from \in Names /\ rename'.to \in Names
    BY <1>10, <2>1 DEF Copy, RenameRec
  <2>3. objects' \in [Names -> Content \cup {None}]
    BY <1>10, <2>1 DEF Copy, TypeOK
  <2> QED
    BY <1>2, <1>10, <2>2, <2>3 DEF Copy, TypeOK
<1>11. CASE DeleteOld
  BY <1>1, <1>2, <1>4, <1>11 DEF DeleteOld, TypeOK, NoRename
<1>12. CASE RenameFails
  BY <1>1, <1>12 DEF RenameFails, TypeOK, NoRename
<1>13. ASSUME NEW n \in Names, Remove(n)
       PROVE  TypeOK'
  BY <1>2, <1>3, <1>4, <1>13 DEF Remove, TypeOK
<1>14. CASE StartListing
  BY <1>14 DEF StartListing, TypeOK, ListingRec, Existing
<1>15. CASE LastPage
  BY <1>15 DEF LastPage, PageTo, Existing, TypeOK, ListingRec
<1>16. ASSUME NEW last \in Names, Page(last)
       PROVE  TypeOK'
  BY <1>0, <1>16 DEF Page, PageTo, Existing, TypeOK, ListingRec
<1>17. CASE Crash
  BY <1>1, <1>17 DEF Crash, TypeOK, NoFile, NoRename
<1> QED
  BY <1>5, <1>6, <1>7, <1>8, <1>9, <1>10, <1>11, <1>12, <1>13, <1>14, <1>15, <1>16, <1>17
  DEF Next, FileStep

-----------------------------------------------------------------------------
(* The inductive invariant *)

\* An open file that is still followed is what an
\* ordinary file would be, and one that will not be put is what is stored.
FileIsPlain(h) ==
  files[h].pc = "open" /\ files[h].calm
  => /\ files[h].data = files[h].plain
     /\ files[h].dirty \/ objects[files[h].name] = files[h].data

\* A rename half-way has its content under both names.
RenameHasBoth ==
  /\ rename.pc = "copied" => rename.from # rename.to
  /\ rename.pc = "copied" /\ rename.calm
     => objects[rename.from] = rename.content /\ objects[rename.to] = rename.content

\* The pages so far have what existed all along, up to the last key.
ListedSoFar ==
  listing.pc = "pages"
  => /\ listing.steady \subseteq Existing
     /\ \A n \in listing.steady : n <= listing.after => n \in listing.seen

IInv ==
  /\ TypeOK
  /\ \A h \in Handles : FileIsPlain(h)
  /\ RenameHasBoth
  /\ ListedSoFar
  /\ ListingIsComplete

LEMMA InitIInv == Init => IInv
BY DEF Init, IInv, TypeOK, FileIsPlain, RenameHasBoth, ListedSoFar, ListingIsComplete,
       NoFile, NoRename, NoListing, FileRec, RenameRec, ListingRec, Content

\* What a step that stores under one name, or removes it, leaves alone.
LEMMA FilesStayPlain ==
  ASSUME IInv, NEW n \in Names, NEW others,
         \A m \in Names \ {n} : objects'[m] = objects[m],
         NEW h \in Handles, h \in others,
         files'[h] = FilesDisturbed({n}, others)[h]
  PROVE  FileIsPlain(h)'
<1>1. files[h] \in FileRec /\ (files[h].pc = "open" => files[h].name \in Names)
  BY DEF IInv, TypeOK
<1>2. CASE files[h].name = n
  BY <1>1, <1>2, LostShape DEF FilesDisturbed, FileIsPlain
<1>3. CASE files[h].name # n
  <2>1. files'[h] = files[h]
    BY <1>3 DEF FilesDisturbed
  <2>2. files[h].pc = "open" => objects'[files[h].name] = objects[files[h].name]
    BY <1>1, <1>3
  <2> QED
    BY <2>1, <2>2 DEF IInv, FileIsPlain
<1> QED
  BY <1>2, <1>3

LEMMA RenameKeepsBoth ==
  ASSUME IInv, NEW n \in Names,
         \A m \in Names \ {n} : objects'[m] = objects[m],
         rename' = RenameDisturbed({n})
  PROVE  RenameHasBoth'
<1>1. rename \in RenameRec /\ (rename.pc = "copied" => rename.from \in Names /\ rename.to \in Names)
  BY DEF IInv, TypeOK
<1>2. CASE rename.from = n \/ rename.to = n
  BY <1>1, <1>2 DEF RenameDisturbed, RenameHasBoth, RenameRec, IInv
<1>3. CASE ~(rename.from = n \/ rename.to = n)
  BY <1>1, <1>3 DEF RenameDisturbed, RenameHasBoth, IInv
<1> QED
  BY <1>2, <1>3

\* Every step keeps the invariant, one step of the proof for each action.
LEMMA StepIInv ==
  ASSUME IInv, Next
  PROVE  IInv'
<1> USE BoundsAssumption, ChunksAssumption, NoneAssumption
<1>0. TypeOK /\ TypeOK'
  BY TypeStep DEF IInv
<1>1. None \notin Content
  BY DEF Content
<1> DEFINE Files   == \A h \in Handles : FileIsPlain(h)
           Listing == ListedSoFar /\ ListingIsComplete
<1>2. ASSUME UNCHANGED listing, Existing \subseteq Existing'
      PROVE  Listing'
  BY <1>2 DEF IInv, ListedSoFar, ListingIsComplete
<1>3. ASSUME NEW n, listing' = DropsFromListing(n), Existing \ {n} \subseteq Existing'
      PROVE  Listing'
  BY <1>0, <1>3 DEF IInv, DropsFromListing, ListedSoFar, ListingIsComplete, TypeOK, ListingRec
<1>4. ASSUME UNCHANGED <<objects, rename, listing>>
      PROVE  RenameHasBoth' /\ Listing'
  BY <1>4 DEF IInv, RenameHasBoth, ListedSoFar, ListingIsComplete, Existing
<1>5. ASSUME UNCHANGED <<objects, files, rename>>
      PROVE  RenameHasBoth' /\ Files'
  BY <1>5 DEF IInv, RenameHasBoth, FileIsPlain
<1>6. ASSUME NEW h \in Handles, UNCHANGED objects, FileIsPlain(h)',
             \A g \in Handles \ {h} : files'[g] = files[g]
      PROVE  Files'
  BY <1>6 DEF IInv, FileIsPlain
<1>7. ASSUME NEW h \in Handles, files'[h].pc = "none" PROVE FileIsPlain(h)'
  BY <1>7 DEF FileIsPlain
<1>a. ASSUME NEW h \in Handles, NEW n \in Names,
             NEW flags \in FlagSets, OpenFile(h, n, flags)
      PROVE  IInv'
  <2>1. FileIsPlain(h)'
    BY <1>0, <1>a DEF OpenFile, FileIsPlain, TypeOK
  <2>2. \A g \in Handles \ {h} : files'[g] = files[g]
    BY <1>0, <1>a DEF OpenFile, TypeOK
  <2> QED
    BY <1>0, <1>4, <1>6, <1>a, <2>1, <2>2 DEF OpenFile, IInv
<1>b. ASSUME NEW h \in Handles, NEW bytes \in Chunks, Write(h, bytes)
      PROVE  IInv'
  <2>0. files[h] \in FileRec /\ bytes \in Content
    BY <1>0 DEF TypeOK, Content
  <2>1. FileIsPlain(h)'
    <3> DEFINE f    == files[h]
               data == Written(f.data, f.pos, bytes)
               flat == PlainWrite(f.plain, PlainPos(f), bytes)
               then == Followed(f, Strays(f, bytes), flat)
    <3>1. files'[h] = [then EXCEPT !.data = data, !.pos = @ + Len(bytes), !.dirty = TRUE]
      BY <1>0, <1>b DEF Write, TypeOK
    <3>2. then \in FileRec /\ then.pc = f.pc /\ (then.calm => f.calm /\ ~Strays(f, bytes) /\ then.plain = flat)
      <4>1. PlainPos(f) \in Nat
        BY <2>0 DEF PlainPos, FileRec, Content
      <4>2. flat \in Content
        BY <2>0, <4>1, PlainIsContent DEF FileRec
      <4>3. Strays(f, bytes) \in BOOLEAN
        BY DEF Strays
      <4> QED
        BY <2>0, <4>2, <4>3, FollowedShape
    <3>3. ASSUME f.data = f.plain, ~Strays(f, bytes) PROVE data = flat
      <4>1. bytes # << >> \/ f.pos <= Len(f.data)
        BY <2>0, <3>3 DEF Strays, FileRec, Content
      <4>2. data = PlainWrite(f.data, f.pos, bytes)
        BY <2>0, <4>1, WrittenIsPlain DEF FileRec
      <4>3. CASE bytes # << >>
        <5>1. PlainPos(f) = f.pos
          BY <3>3, <4>3 DEF Strays, PlainPos
        <5> QED
          BY <3>3, <4>2, <5>1
      <4>4. CASE bytes = << >>
        BY <3>3, <4>2, <4>4 DEF PlainWrite
      <4> QED
        BY <4>3, <4>4
    <3> HIDE DEF data, flat, then
    <3>4. /\ files'[h].data = data /\ files'[h].dirty /\ files'[h].pc = f.pc
          /\ files'[h].plain = then.plain /\ files'[h].calm = then.calm
      BY <3>1, <3>2 DEF FileRec
    <3> QED
      BY <3>2, <3>3, <3>4 DEF IInv, FileIsPlain
  <2>2. \A g \in Handles \ {h} : files'[g] = files[g]
    BY <1>0, <1>b DEF Write, TypeOK
  <2> QED
    BY <1>0, <1>4, <1>6, <1>b, <2>1, <2>2 DEF Write, IInv
<1>c. ASSUME NEW h \in Handles, NEW n \in 0..MaxLen, Seek(h, n)
      PROVE  IInv'
  <2>0. files[h] \in FileRec
    BY <1>0 DEF TypeOK
  <2>1. FileIsPlain(h)'
    BY <1>0, <1>c, <2>0 DEF Seek, TypeOK, FileRec, IInv, FileIsPlain
  <2>2. \A g \in Handles \ {h} : files'[g] = files[g]
    BY <1>0, <1>c DEF Seek, TypeOK
  <2> QED
    BY <1>0, <1>4, <1>6, <1>c, <2>1, <2>2 DEF Seek, IInv
<1>d. ASSUME NEW h \in Handles, NEW n \in 0..MaxLen, Truncate(h, n)
      PROVE  IInv'
  <2>0. files[h] \in FileRec /\ n \in Nat
    BY <1>0 DEF TypeOK
  <2>1. FileIsPlain(h)'
    <3>1. Truncated(files[h].data, n) = PlainTruncate(files[h].data, n)
      BY <2>0, TruncatedIsPlain DEF FileRec
    <3> DEFINE f    == files[h]
               flat == PlainTruncate(f.plain, n)
               then == Followed(f, StraysCut(f), flat)
    <3>2. files'[h] = [then EXCEPT !.data = Truncated(f.data, n), !.dirty = TRUE]
      BY <1>0, <1>d DEF Truncate, TypeOK
    <3>3. then \in FileRec /\ then.pc = f.pc /\ (then.calm => f.calm /\ then.plain = flat)
      <4>1. flat \in Content /\ StraysCut(f) \in BOOLEAN
        BY <2>0, TruncatedIsPlain DEF FileRec, StraysCut
      <4> QED
        BY <2>0, <4>1, FollowedShape
    <3> HIDE DEF then
    <3>4. /\ files'[h].data = Truncated(f.data, n) /\ files'[h].dirty /\ files'[h].pc = f.pc
          /\ files'[h].plain = then.plain /\ files'[h].calm = then.calm
      BY <3>2, <3>3 DEF FileRec
    <3> QED
      BY <3>1, <3>3, <3>4 DEF IInv, FileIsPlain
  <2>2. \A g \in Handles \ {h} : files'[g] = files[g]
    BY <1>0, <1>d DEF Truncate, TypeOK
  <2> QED
    BY <1>0, <1>4, <1>6, <1>d, <2>1, <2>2 DEF Truncate, IInv
<1>e. ASSUME NEW h \in Handles, Close(h) \/ CloseFails(h)
      PROVE  IInv'
  <2>0. files[h] \in FileRec /\ files[h].name \in Names /\ UNCHANGED listing
    BY <1>0, <1>e DEF Close, CloseFails, IsOpen, TypeOK
  <2>1. CASE Stores(h)
    <3> DEFINE n == files[h].name
    <3>1. \A m \in Names \ {n} : objects'[m] = objects[m]
      BY <1>0, <2>1 DEF Stores, TypeOK
    <3>2. objects'[n] \in Content
      BY <1>0, <2>0, <2>1 DEF Stores, TypeOK, FileRec
    <3>3. RenameHasBoth'
      BY <2>0, <2>1, <3>1, RenameKeepsBoth DEF Stores
    <3>4. Listing'
      BY <1>1, <1>2, <2>0, <3>1, <3>2 DEF Existing
    <3>5. ASSUME NEW g \in Handles PROVE FileIsPlain(g)'
      <4>1. CASE g = h
        BY <1>0, <1>7, <2>1, <4>1 DEF Stores, TypeOK, FilesDisturbed, NoFile
      <4>2. CASE g # h
        <5>1. files'[g] = FilesDisturbed({n}, Handles \ {h})[g]
          BY <2>1, <4>2 DEF Stores, FilesDisturbed
        <5> QED
          BY <2>0, <3>1, <4>2, <5>1, FilesStayPlain
      <4> QED
        BY <4>1, <4>2
    <3> QED
      BY <1>0, <3>3, <3>4, <3>5 DEF IInv
  <2>2. CASE Leaves(h)
    <3>1. FileIsPlain(h)'
      BY <1>0, <1>7, <2>2 DEF Leaves, TypeOK, NoFile
    <3>2. \A g \in Handles \ {h} : files'[g] = files[g]
      BY <1>0, <2>2 DEF Leaves, TypeOK
    <3> QED
      BY <1>0, <1>4, <1>6, <2>0, <2>2, <3>1, <3>2 DEF Leaves, IInv
  <2> QED
    BY <1>e, <2>1, <2>2 DEF Close, CloseFails
<1>f. ASSUME NEW from \in Names, NEW to \in Names, Copy(from, to)
      PROVE  IInv'
  <2>1. /\ \A m \in Names \ {to} : objects'[m] = objects[m]
        /\ objects'[to] = objects[from] /\ objects'[from] = objects[from]
    BY <1>0, <1>f DEF Copy, TypeOK
  <2>2. Files'
    BY <1>f, <2>1, FilesStayPlain DEF Copy
  <2>3. RenameHasBoth'
    BY <1>f, <2>1 DEF Copy, RenameHasBoth
  <2>4. Listing'
    BY <1>2, <1>f, <2>1 DEF Copy, Existing
  <2> QED
    BY <1>0, <2>2, <2>3, <2>4 DEF IInv
<1>g. CASE DeleteOld
  <2>1. rename.from \in Names /\ \A m \in Names \ {rename.from} : objects'[m] = objects[m]
    BY <1>0, <1>g DEF DeleteOld, TypeOK
  <2>2. Files'
    BY <1>g, <2>1, FilesStayPlain DEF DeleteOld
  <2>3. RenameHasBoth'
    BY <1>g DEF DeleteOld, RenameHasBoth, NoRename
  <2>4. Listing'
    BY <1>3, <1>g, <2>1 DEF DeleteOld, Existing
  <2> QED
    BY <1>0, <2>2, <2>3, <2>4 DEF IInv
<1>h. CASE RenameFails
  <2>1. RenameHasBoth'
    BY <1>h DEF RenameFails, RenameHasBoth, NoRename
  <2>2. Files' /\ Listing'
    BY <1>h DEF RenameFails, IInv, FileIsPlain, ListedSoFar, ListingIsComplete, Existing
  <2> QED
    BY <1>0, <2>1, <2>2 DEF IInv
<1>i. ASSUME NEW n \in Names, Remove(n)
      PROVE  IInv'
  <2>1. \A m \in Names \ {n} : objects'[m] = objects[m]
    BY <1>0, <1>i DEF Remove, TypeOK
  <2>2. Files'
    BY <1>i, <2>1, FilesStayPlain DEF Remove
  <2>3. RenameHasBoth'
    BY <1>i, <2>1, RenameKeepsBoth DEF Remove
  <2>4. Listing'
    BY <1>3, <1>i, <2>1 DEF Remove, Existing
  <2> QED
    BY <1>0, <2>2, <2>3, <2>4 DEF IInv
<1>j. CASE StartListing
  <2>1. Listing'
    BY <1>j DEF StartListing, ListedSoFar, ListingIsComplete, Existing, Names
  <2> QED
    BY <1>0, <1>5, <1>j, <2>1 DEF StartListing, IInv
<1>k. CASE LastPage
  <2>1. Listing'
    <3>1. /\ listing.after \in Nat /\ listing.steady \subseteq Existing
          /\ \A n \in listing.steady : n <= listing.after => n \in listing.seen
      BY <1>0, <1>k DEF LastPage, IInv, ListedSoFar, TypeOK, ListingRec
    <3>2. \A n \in listing.steady : n \in listing.seen \cup PageTo(MaxName)
      BY <3>1 DEF PageTo, Existing, Names
    <3>3. /\ listing'.steady = listing.steady /\ listing'.pc = "listed"
          /\ listing'.seen = listing.seen \cup PageTo(MaxName)
      BY <1>0, <1>k DEF LastPage, TypeOK, ListingRec
    <3> QED
      BY <3>2, <3>3 DEF ListedSoFar, ListingIsComplete
  <2> QED
    BY <1>0, <1>5, <1>k, <2>1 DEF LastPage, IInv
<1>l. ASSUME NEW last \in Names, Page(last)
      PROVE  IInv'
  <2>1. Listing'
    <3>1. /\ listing.after \in Nat /\ listing.steady \subseteq Existing
          /\ \A n \in listing.steady : n <= listing.after => n \in listing.seen
      BY <1>0, <1>l DEF Page, IInv, ListedSoFar, TypeOK, ListingRec
    <3>2. \A n \in listing.steady : n <= last => n \in listing.seen \cup PageTo(last)
      BY <3>1 DEF PageTo, Existing, Names
    <3>3. /\ listing'.steady = listing.steady /\ listing'.pc = "pages" /\ listing'.after = last
          /\ listing'.seen = listing.seen \cup PageTo(last) /\ Existing' = Existing
      BY <1>0, <1>l DEF Page, TypeOK, ListingRec, Existing
    <3> QED
      BY <3>1, <3>2, <3>3 DEF ListedSoFar, ListingIsComplete
  <2> QED
    BY <1>0, <1>5, <1>l, <2>1 DEF Page, IInv
<1>m. CASE Crash
  BY <1>0, <1>m DEF Crash, IInv, FileIsPlain, RenameHasBoth, ListedSoFar, ListingIsComplete,
     NoFile, NoRename, NoListing
<1> QED
  BY <1>a, <1>b, <1>c, <1>d, <1>e, <1>f, <1>g, <1>h, <1>i, <1>j, <1>k, <1>l, <1>m DEF Next, FileStep

LEMMA NextIInv == IInv /\ [Next]_vars => IInv'
<1>1. ASSUME IInv, UNCHANGED vars PROVE IInv'
  BY <1>1 DEF vars, IInv, TypeOK, FileIsPlain, RenameHasBoth, ListedSoFar, ListingIsComplete, Existing
<1> QED
  BY <1>1, StepIInv

-----------------------------------------------------------------------------
(* The theorems *)

LEMMA Invariance == Spec => []IInv
BY InitIInv, NextIInv, PTL DEF Spec

\* The state is well-typed: what is stored is always a sequence of bytes.
THEOREM TypeCorrect == Spec => []TypeOK
<1>1. IInv => TypeOK
  BY DEF IInv
<1> QED
  BY <1>1, Invariance, PTL

\* A file that is closed with no error holds what an ordinary file would hold,
\* unless somebody else stored to its name since it was opened, or it was used in
\* one of the ways the code does not answer as an ordinary file: written or cut
\* although opened for reading, written off its end although opened with O_APPEND,
\* or written with no bytes beyond its end (s3fs.go:341-355,402-429,439-450).
THEOREM ClosedFilesArePlain == Spec => SessionIsPlain
<1> DEFINE Plain == \A h \in Handles :
             Close(h) /\ files[h].calm => objects'[files[h].name] = files[h].plain
<1>1. ASSUME IInv PROVE Plain
  <2> SUFFICES ASSUME NEW h \in Handles, Close(h), files[h].calm
               PROVE  objects'[files[h].name] = files[h].plain
    OBVIOUS
  <2>1. files[h].name \in Names /\ files[h].pc = "open"
    BY <1>1 DEF IInv, TypeOK, Close, IsOpen
  <2>2. CASE files[h].dirty
    BY <1>1, <2>1, <2>2 DEF Close, Stores, IInv, TypeOK, FileIsPlain
  <2>3. CASE ~files[h].dirty
    BY <1>1, <2>1, <2>3 DEF Close, Leaves, IInv, FileIsPlain
  <2> QED
    BY <2>2, <2>3
<1>2. IInv => [Plain]_vars
  BY <1>1
<1> QED
  BY <1>2, Invariance, PTL DEF SessionIsPlain

\* While a rename is under way its content is under both names, and afterwards
\* under the new one, unless somebody else stores to them (s3fs.go:170-194).
THEOREM RenamesLoseNothing == Spec => RenameLosesNothing
<1> DEFINE Kept == rename.pc = "copied" /\ rename.calm
                   => /\ objects[rename.from] = rename.content
                      /\ objects[rename.to] = rename.content
                      /\ DeleteOld => objects'[rename.to] = rename.content
<1>1. ASSUME IInv PROVE Kept
  BY <1>1 DEF IInv, RenameHasBoth, DeleteOld, TypeOK
<1>2. IInv => [Kept]_vars
  BY <1>1
<1> QED
  BY <1>2, Invariance, PTL DEF RenameLosesNothing

\* A listing has every name that existed all the while (s3fs.go:220-248).
THEOREM ListingsAreComplete == Spec => []ListingIsComplete
<1>1. IInv => ListingIsComplete
  BY DEF IInv
<1> QED
  BY <1>1, Invariance, PTL

=============================================================================
