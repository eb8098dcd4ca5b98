------------------------------- MODULE MCS3FS -------------------------------
(* Small instances of S3FS for TLC. *)
EXTENDS S3FS, FiniteSets, TLC

AtMostOneByte == {<< >>, <<1>>}

\* Bound: no O_EXCL without O_CREATE, no O_TRUNC or O_APPEND on a file opened for reading.
UsualFlags == {flags \in SUBSET {"create", "excl", "trunc", "append", "write"} :
  /\ "excl" \in flags => "create" \in flags
  /\ {"trunc", "append"} \cap flags # {} => "write" \in flags}

Symmetric == Permutations(Handles)

\* Bound: open files, a rename and a listing, two of them at a time.
TwoAtATime ==
  Cardinality({h \in Handles : IsOpen(h)}) + Cardinality({rename.pc} \ {"none"})
    + Cardinality({listing.pc} \ {"none"}) <= 2

\* Bound: of two open files one appends.
OneAppends == Cardinality({h \in Handles : files[h].mode = "append"}) <= 1

\* Bound: files that are open at once have one name, and nothing has another.
OneName == \A g, h \in Handles : IsOpen(g) /\ IsOpen(h) /\ g # h =>
  files[g].name = files[h].name /\ Existing \subseteq {files[g].name}
=============================================================================
