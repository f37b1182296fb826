------------------------------- MODULE Files -------------------------------
(* Files (file/): creating and deleting without following a junction         *)
(* (safe.rs), copying by the clusters of the volume (raw.rs, win.rs,         *)
(* builder.rs) and looking into an executable (pe.rs).  Another process      *)
(* changes the directories on the way at any time.                           *)
EXTENDS Integers, Sequences, FiniteSets, SequencesExt, Orderings

CONSTANTS
    Depth,     \* directories between the volume root and the file
    Content,   \* units to write into a new file
    MaxSwaps,  \* bound on the other process's changes
    Layouts,   \* files on the volume: [size, start, extents], extents a
               \* sequence of [next, lcn]
    Cluster,   \* units per cluster
    Capacity,  \* clusters per read call
    Images,    \* executables: [headers, sections, imports, cells], see below
    Width,     \* values of the file's integers are below 2^Width (32)
    MaxWalk    \* bound of the import walks (4096)

\* A path has some directories, what is to be written a length; a read
\* takes at least a cluster (clusters_per_read.max(1)); the extents of a file
\* follow each other.
ASSUME SizesAssumption ==
    /\ Depth \in Nat /\ Content \in Nat /\ Cluster \in Nat \ {0} /\ Capacity \in Nat \ {0}
    /\ \A l \in Layouts :
          /\ l \in [size : Nat, start : Nat, extents : Seq([next : Nat, lcn : Int])]
          /\ \A e \in DOMAIN l.extents :
                l.extents[e].next >= IF e > 1 THEN l.extents[e - 1].next ELSE l.start

\* Of the five headers of an executable some are there; its sections are given
\* by naturals.
ASSUME ImagesAssumption ==
    /\ Images # {} /\ MaxWalk \in Nat /\ Width \in Nat
    /\ \A im \in Images : /\ im.headers \in 0..5
                          /\ im.sections \in Seq([va : Nat, vsize : Nat, raw : Nat, rsize : Nat])

VARIABLES
    call,      \* the call under way: "none", "create", "delete"
    at,        \* the level its handle is open on, 0 the root
    held,      \* what that handle is of: a dir, a link opened itself, what is outside
    entry,     \* level -> what the parent's entry names: dir, link or none
    file,      \* what the last directory holds under the name: owner, units
    outside,   \* whether a file outside the path was created or deleted
    ended,     \* of the last create or delete
    swaps,     \* changes the other process made
    layout,    \* the file that is copied
    raw,       \* the copy: pc, handles, extent_index, cluster_index, bytes_read, and
               \* as history whether a read gave less than it was asked for
    copied,    \* disk units the copy has written, in order
    image      \* the executable looked at

safe == <<call, at, held, entry, file, outside, ended, swaps>>
rawVars == <<layout, raw, copied>>
fileVars == <<safe, rawVars, image>>

Levels == 1..Depth
NoFile == [owner |-> "none", units |-> 0]
Other == [owner |-> "other", units |-> 1]
Link == [owner |-> "link", units |-> 0]

---------------------------------------------------------------------------
(* create_new_no_follow, delete_no_follow                                   *)

\* Another process puts a junction, a directory or nothing in the place of a
\* directory, unless a handle without FILE_SHARE_DELETE is open on it, which is
\* the last one of the chain only; and a file or a link in the last one, unless
\* the file is open.
Swap(k, what) ==
    /\ swaps < MaxSwaps /\ entry[k] # what
    /\ ~(call # "none" /\ at = k /\ entry[k] = "dir")
    /\ entry' = [entry EXCEPT ![k] = what]
    /\ swaps' = swaps + 1
    /\ UNCHANGED <<call, at, held, file, outside, ended, rawVars, image>>

OtherFile(f) ==
    /\ swaps < MaxSwaps /\ file # f
    /\ call # "write"
    /\ file' = f
    /\ swaps' = swaps + 1
    /\ UNCHANGED <<call, at, held, entry, outside, ended, rawVars, image>>

\* validate_file_name and the checks of the path's form; the volume root.
OpenRoot(c) ==
    /\ call = "none"
    /\ \/ call' = c /\ at' = 0 /\ held' = "dir" /\ ended' = "pending"
       \/ ended' = "error" /\ UNCHANGED <<call, at, held>>
    /\ UNCHANGED <<entry, file, outside, swaps, rawVars, image>>

\* nt_open relative to the handle before, with FILE_OPEN_REPARSE_POINT: a
\* junction is opened itself.  What is opened through a junction's handle is
\* taken to be in its target.
Opened(k) == IF held = "dir" THEN entry[k] ELSE "outside"

\* A mutant: what was opened is not looked at.
refuse_reparse_point_Passes(o) == TRUE

\* Whether refuse_reparse_point lets pass what was opened.
refuse_reparse_point(o) == o # "link"

\* One round of open_directory_chain: the new handle takes the place of the one
\* before, which is closed.
OpenNext ==
    /\ call \in {"create", "delete"} /\ at < Depth
    /\ LET o == Opened(at + 1)
       IN  \/ /\ o # "none" /\ refuse_reparse_point(o)
              /\ at' = at + 1 /\ held' = o
              /\ UNCHANGED <<call, ended>>
           \/ /\ call' = "none"
              /\ ended' = "error"
              /\ UNCHANGED <<at, held>>
    /\ UNCHANGED <<entry, file, outside, swaps, rawVars, image>>

Finish(r) == call' = "none" /\ ended' = r

\* FILE_CREATE succeeds only where nothing has the name.
Disposition == file = NoFile

CreateFile ==
    /\ call = "create" /\ at = Depth
    /\ \/ /\ Disposition
          /\ file' = [owner |-> "ours", units |-> 0]
          /\ outside' = (outside \/ held # "dir")
          /\ call' = "write"
          /\ UNCHANGED ended
       \/ Finish("error") /\ UNCHANGED <<file, outside>>
    /\ UNCHANGED <<at, held, entry, swaps, rawVars, image>>

\* The loop of WriteFile calls: some units, none (an error), or a failure.
Write ==
    /\ call = "write"
    /\ \/ /\ file.units = Content /\ Finish("ok") /\ UNCHANGED file
       \/ /\ file.units < Content
          /\ \E n \in 1..(Content - file.units) : file' = [file EXCEPT !.units = @ + n]
          /\ UNCHANGED <<call, ended>>
       \/ /\ file.units < Content /\ Finish("error") /\ UNCHANGED file
    /\ UNCHANGED <<at, held, entry, outside, swaps, rawVars, image>>

\* The file itself is opened, refused when it is a reparse point, and marked.
DeleteFile ==
    /\ call = "delete" /\ at = Depth
    /\ \/ /\ file # NoFile /\ refuse_reparse_point(file.owner)
          /\ file' = NoFile /\ Finish("ok")
          /\ outside' = (outside \/ held # "dir")
       \/ Finish("error") /\ UNCHANGED <<file, outside>>
    /\ UNCHANGED <<at, held, entry, swaps, rawVars, image>>

---------------------------------------------------------------------------
(* RawFile                                                                  *)

\* open_with_tuning: the volume, its cluster size, the file, its extents.
\* Until the end both handles are plain values that nothing closes.
OpenSteps == <<"volume", "metadata", "file", "pointers">>
IsOpen == Len(OpenSteps) + 1
Copied == Len(OpenSteps) + 2

RawOpen ==
    /\ raw.pc \in 1..Len(OpenSteps)
    /\ LET s == OpenSteps[raw.pc]
       IN  \/ /\ raw' = [raw EXCEPT !.pc = @ + 1,
                            !.handles = IF s \in {"volume", "file"} THEN @ \cup {s}
                                        ELSE IF s = "pointers" THEN @ \ {"file"} ELSE @]
           \* the file's handle has an owner by the time its extents are read
           \/ /\ raw' = [raw EXCEPT !.pc = 0, !.handles = @ \ {"file"}]
    /\ UNCHANGED <<safe, layout, copied, image>>

Extent == layout.extents[raw.extent]

\* The clusters of the extent: from the end of the one before.
ClusterCount ==
    Extent.next - (IF raw.extent > 1 THEN layout.extents[raw.extent - 1].next ELSE layout.start)

Least(a, b) == IF a < b THEN a ELSE b

\* A mutant: the cluster within the extent is kept for the next extent.
NextExtent_KeepsCluster(r) == [r EXCEPT !.extent = @ + 1]

NextExtent(r) == [r EXCEPT !.extent = @ + 1, !.cluster = 0]

\* One read() and what copy_to does with it: an empty extent is skipped; clusters
\* of one extent are read, at most what the buffer holds, and cut at the file's
\* size.  The disk may give less than it is asked for, and the position moves on
\* by what was asked; a read that gives nothing is the end for copy_to.  The
\* clusters of a hole are at -1, and there the seek fails (RawEnd).
RawRead ==
    /\ raw.pc = IsOpen
    /\ raw.bytes < layout.size /\ raw.extent <= Len(layout.extents)
    /\ IF raw.cluster >= ClusterCount
       THEN raw' = NextExtent(raw) /\ UNCHANGED copied
       ELSE LET left == ClusterCount - raw.cluster
                n == Least(left, Capacity)
                whole == Least(n * Cluster, layout.size - raw.bytes)
                first == (Extent.lcn + raw.cluster) * Cluster
            IN  /\ first >= 0
                /\ \E units \in 0..whole :
                     LET moved == [raw EXCEPT !.bytes = @ + units, !.short = @ \/ units < whole,
                                              !.pc = IF units = 0 THEN Copied ELSE @,
                                              !.handles = IF units = 0 THEN {} ELSE @]
                     IN  /\ copied' = copied \o [i \in 1..units |-> first + i]
                         /\ raw' = IF n = left THEN NextExtent(moved) ELSE [moved EXCEPT !.cluster = @ + n]
    /\ UNCHANGED <<safe, layout, image>>

\* read() returned 0, or a seek or read failed: copy_to ends.
RawEnd ==
    /\ raw.pc = IsOpen
    /\ \/ /\ raw.bytes >= layout.size \/ raw.extent > Len(layout.extents)
          /\ raw' = [raw EXCEPT !.pc = Copied, !.handles = {}]
       \/ raw' = [raw EXCEPT !.pc = 0, !.handles = {}]
    /\ UNCHANGED <<safe, layout, copied, image>>

---------------------------------------------------------------------------
(* analyze_pe_bytes.  An image is a file of cells: a text, a thunk (an RVA,  *)
(* an ordinal or zero) or an import descriptor with its original_first_thunk, *)
(* name and first_thunk; what takes several bytes takes one cell here.       *)

Cell(im, o) == IF o \in DOMAIN im.cells THEN im.cells[o] ELSE <<"truncated">>

\* saturating_add, and + as a build with overflow checks does it.
Saturating(a, b) == Least(a + b, 2^Width - 1)
Panics(a, b) == a + b >= 2^Width

Larger(a, b) == IF a > b THEN a ELSE b

SectionSize(s) == Larger(s.vsize, s.rsize)

\* The section that rva_to_offset finds first.
SectionOf(im, rva) ==
    SelectInSeq(im.sections,
        LAMBDA s : rva >= s.va /\ rva < Saturating(s.va, SectionSize(s)))

\* rva_to_offset, 0 for None (cells are numbered from 1).
rva_to_offset(im, rva) ==
    LET k == SectionOf(im, rva)
    IN  IF rva = 0 \/ k = 0 THEN 0
        ELSE (im.sections[k].raw + (rva - im.sections[k].va)) % 2^Width

\* How many cells from o on come before the first that is missing or is the
\* last of the array, at most MaxWalk.
RunLength(im, o, last) ==
    LET stop == {k \in 0..MaxWalk : k = MaxWalk \/ Cell(im, o + k) \in {<<"truncated">>, last}}
    IN  CHOOSE n \in stop : \A j \in stop : n <= j

\* The thunks of one DLL: an ordinal, or the name found through its RVA;
\* a name that cannot be read is left out.
resolve_thunk(im, t) ==
    IF t[1] = "ordinal" THEN t
    ELSE LET p == rva_to_offset(im, t[2])
         IN  IF p = 0 THEN <<"truncated">> ELSE Cell(im, p)
walk_thunks(im, o, dll) ==
    LET all == [k \in 1..RunLength(im, o, <<"zero">>) |->
                   <<dll, resolve_thunk(im, Cell(im, o + (k-1)))>>]
    IN  AtPlaces(all, {k \in DOMAIN all : all[k][2] # <<"truncated">>})

\* The import directory's RVA, 0 when there is none.
data_directory(im) == im.imports

\* The name and the thunks of a descriptor's DLL.
dll_name(im, d) ==
    LET name == rva_to_offset(im, d[3])
    IN  IF name = 0 THEN <<"truncated">> ELSE Cell(im, name)
thunk_offset(im, d) == rva_to_offset(im, IF d[2] # 0 THEN d[2] ELSE d[4])

\* parse_imports: one descriptor after the other up to an empty one; one whose
\* name or thunks cannot be found is passed over.
Empty == <<"descriptor", 0, 0, 0>>
parse_imports(im) ==
    LET first == rva_to_offset(im, data_directory(im))
        of(d) == IF dll_name(im, d) = <<"truncated">> \/ thunk_offset(im, d) = 0 THEN <<>>
                 ELSE walk_thunks(im, thunk_offset(im, d), dll_name(im, d))
    IN  IF data_directory(im) = 0 \/ first = 0 THEN <<>>
        ELSE Concat([k \in 1..RunLength(im, first, Empty) |-> of(Cell(im, first + (k-1)))])

\* has_overlay: cells after the last section's data.
has_overlay(im) ==
    \A k \in DOMAIN im.sections : Len(im.cells) > im.sections[k].raw + im.sections[k].rsize

\* The DLLs in the order of their first import.
dedup_dll_names(imports) ==
    LET first == {k \in DOMAIN imports : \A j \in 1..(k-1) : imports[j][1] # imports[k][1]}
    IN  AtPlaces([k \in DOMAIN imports |-> imports[k][1]], first)

\* PeHeaders::parse: what must be there, in the order it is looked for.
Headers == <<"MZ", "PE", "file header", "optional header", "section table">>
parse(im) == im.headers = Len(Headers)

analyze_pe_bytes(im) ==
    IF ~parse(im) THEN [ok |-> FALSE, imports |-> <<>>, dlls |-> <<>>, overlay |-> FALSE]
    ELSE [ok |-> TRUE, imports |-> parse_imports(im),
          dlls |-> dedup_dll_names(parse_imports(im)), overlay |-> has_overlay(im)]

analyze_pe_file(im) ==
    /\ image' = im
    /\ UNCHANGED <<safe, rawVars>>

---------------------------------------------------------------------------

FileInit ==
    /\ call = "none" /\ at = 0 /\ held = "dir" /\ ended = "none" /\ outside = FALSE /\ swaps = 0
    /\ entry = [k \in Levels |-> "dir"]
    /\ file \in {NoFile, Other, Link}
    /\ layout \in Layouts
    /\ raw = [pc |-> 1, handles |-> {}, extent |-> 1, cluster |-> 0, bytes |-> 0,
             short |-> FALSE]
    /\ copied = <<>>
    /\ image \in Images

FileNext ==
    \/ \E k \in Levels, what \in {"dir", "link", "none"} : Swap(k, what)
    \/ \E f \in {NoFile, Other, Link} : OtherFile(f)
    \/ \E c \in {"create", "delete"} : OpenRoot(c)
    \/ OpenNext \/ CreateFile \/ Write \/ DeleteFile
    \/ RawOpen \/ RawRead \/ RawEnd
    \/ \E im \in Images : analyze_pe_file(im)

FileSpec == FileInit /\ [][FileNext]_fileVars

---------------------------------------------------------------------------
(* Properties.                                                              *)

\* No file is created or deleted through a link, whatever is put on the path
\* while the call walks down: "a junction or symbolic link planted on the path"
\* never redirects it (safe.rs:4, refuse_reparse_point in open_directory_chain).
NeverRedirected == ~outside

\* A create that returns Ok has written a new file with the whole content, in
\* as many WriteFile calls as it took, no create touches a file that was there
\* before ("failing if it already exists", safe.rs:37), and no delete a link
\* ("failing if it or any directory on the way is a reparse point", safe.rs:79).
WrittenWhole ==
    /\ (call = "write" /\ ended' = "ok") => file = [owner |-> "ours", units |-> Content]
    /\ (call = "create" /\ file.owner = "other") => file' = file \/ swaps' # swaps
    /\ (call = "delete" /\ file.owner = "link") => file' = file \/ swaps' # swaps

\* "Each directory is held open without FILE_SHARE_DELETE, so it cannot be
\* renamed or replaced mid-walk" (safe.rs:10): the directories walked through are
\* still on the path.  Only the last handle is kept (safe.rs:169), so the others
\* may be replaced.
ChainHeld == call \in {"create", "delete"} => \A k \in 1..at : entry[k] = "dir"

\* A guarded create stays on its path and writes the whole content into a file
\* of its own, whatever others put on the path and however WriteFile splits it.
GuardedCreate == [][NeverRedirected' /\ WrittenWhole]_fileVars

\* The units of an extent, from the end of the one before; those of a file in
\* the order of its extents, cut at its size.
ExtentStart(l, e) == IF e > 1 THEN l.extents[e - 1].next ELSE l.start
ExtentUnits(l, e) ==
    [i \in 1..((l.extents[e].next - ExtentStart(l, e)) * Cluster) |-> l.extents[e].lcn * Cluster + i]
AllUnits(l) == Concat([e \in DOMAIN l.extents |-> ExtentUnits(l, e)])
Units(l) == SubSeq(AllUnits(l), 1, Least(l.size, Len(AllUnits(l))))

\* A copy that ends is the file, whatever the sizes of its extents, of the
\* buffer and of the last cluster (RawFile::read across extents), when every read
\* gave what it was asked for.
CopyFaithful ==
    ~raw.short => IsPrefix(copied, Units(layout)) /\ (raw.pc = Copied => copied = Units(layout))

\* "Returns an error when: ... source data cannot be read from raw extents"
\* (raw.rs:98), so a copy that ends is the file.  The position moves on by the
\* clusters asked for (raw.rs:200), and what a read left out is left out of the
\* copy.
ShortReadNoticed == raw.pc = Copied => copied = Units(layout)

\* An address in one section only, below the largest, is found in its data;
\* one in none is not found (rva_to_offset).
SectionsFaithful(im) ==
    LET size(k) == SectionSize(im.sections[k])
        fits(k) == im.sections[k].va + size(k) < 2^Width
        has(k, rva) == im.sections[k].va <= rva /\ rva < im.sections[k].va + size(k)
    IN  \A rva \in 1..(2^Width - 1) : (\A k \in DOMAIN im.sections : fits(k)) =>
            /\ \A k \in DOMAIN im.sections :
                  has(k, rva) /\ (\A j \in DOMAIN im.sections : has(j, rva) => j = k) =>
                      rva_to_offset(im, rva) = (im.sections[k].raw + (rva - im.sections[k].va)) % 2^Width
            /\ (\A k \in DOMAIN im.sections : ~has(k, rva)) => rva_to_offset(im, rva) = 0

\* Cell k of an array is in it: neither that cell nor any before it is missing
\* or the last.
Within(im, o, k, last) == \A j \in 0..k : Cell(im, o + j) \notin {<<"truncated">>, last}

\* What an image declares: of DLL p[1] of its table the thunk p[2], if both are
\* there and what they refer to is.
Descriptor(im, p) == Cell(im, rva_to_offset(im, data_directory(im)) + p[1])
Thunk(im, p) == Cell(im, thunk_offset(im, Descriptor(im, p)) + p[2])
ImportAt(im, p) == <<dll_name(im, Descriptor(im, p)), resolve_thunk(im, Thunk(im, p))>>
Declared(im) ==
    {p \in (0..MaxWalk-1) \X (0..MaxWalk-1) :
        /\ data_directory(im) # 0 /\ rva_to_offset(im, data_directory(im)) # 0
        /\ Within(im, rva_to_offset(im, data_directory(im)), p[1], Empty)
        /\ dll_name(im, Descriptor(im, p)) # <<"truncated">>
        /\ thunk_offset(im, Descriptor(im, p)) # 0
        /\ Within(im, thunk_offset(im, Descriptor(im, p)), p[2], <<"zero">>)
        /\ resolve_thunk(im, Thunk(im, p)) # <<"truncated">>}

\* The imports found are those the image declares, each once, in table order:
\* one that cannot be read takes no other with it.
InTableOrder(im, imports) ==
    LET declared == Declared(im) IN
    \E place \in [DOMAIN imports -> declared] :
        /\ \A p \in declared : \E i \in DOMAIN imports : place[i] = p
        /\ \A i, j \in DOMAIN imports : i < j =>
              place[i][1] < place[j][1] \/ (place[i][1] = place[j][1] /\ place[i][2] < place[j][2])
        /\ \A i \in DOMAIN imports : imports[i] = ImportAt(im, place[i])

\* Every DLL that something is imported from is named once.
NamedOnce(imports, dlls) ==
    \A i \in DOMAIN imports : \E n \in DOMAIN dlls :
        dlls[n] = imports[i][1] /\ \A m \in DOMAIN dlls : dlls[m] = dlls[n] => m = n

\* An analysis finds what the image declares, and cut headers are an error
\* (analyze_pe_bytes).
ImportsFaithful ==
    LET a == analyze_pe_bytes(image)
    IN  /\ a.ok => InTableOrder(image, a.imports) /\ NamedOnce(a.imports, a.dlls)
        /\ ~a.ok <=> image.headers < Len(Headers)
        /\ SectionsFaithful(image)

\* What is read from below the file system's own interface is the file: a raw
\* copy across extents, the imports across sections.
FilesFaithful == CopyFaithful /\ ImportsFaithful

\* "analyze_pe_bytes never panics, only returns Err" (pe.rs:4): no sum in
\* rva_to_offset exceeds its width.  The data of a section may begin so far up
\* that the sum does.
NeverPanics ==
    \A rva \in 1..(2^Width - 1) :
        LET k == SectionOf(image, rva)
        IN  k # 0 => ~Panics(image.sections[k].raw, rva - image.sections[k].va)

\* A raw open that fails half way closes what it opened (open_with_tuning).
\* The volume's handle is a plain value until the RawFile exists.
FailedOpenCloses == raw.pc = 0 => raw.handles = {}
=============================================================================
