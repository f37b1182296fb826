--------------------------- MODULE ObjectsProofs ---------------------------
(***************************************************************************)
(* Objects other programs change meanwhile.  A guarded create stays on the *)
(* path it was given and returns Ok only for a file of its own with the    *)
(* whole content; a raw copy is the file, and what is found in an          *)
(* executable is what it declares; a proxy that is switched on and off     *)
(* while it is read never looks half configured; an edit of permissions    *)
(* does what its plan says and no more; a registry value is read as it was *)
(* written, and a listing of subkeys shifts only as far as others change   *)
(* them.  For any depth, content, layouts, images, servers, trustees,      *)
(* rights, plans, texts and number of changes.                             *)
(***************************************************************************)
EXTENDS Files, Proxy, PermissionEdit, Registry, NumberFacts, SequenceTheorems

-----------------------------------------------------------------------------
(* Guarded creates and deletes.                                            *)

\* What a level of the path, a file and a call may be.
SafeType ==
    /\ entry \in [Levels -> {"dir", "link", "none"}]
    /\ at \in Nat /\ swaps \in Nat
    /\ call \in {"none", "create", "delete", "write"}
    /\ file \in [owner : {"none", "other", "ours", "link"}, units : Nat]

\* While a call is under way it has no result, and a call that writes holds
\* a file it has created, of which it has written no more than the content.  The
\* handle a walk has reached is a directory's: a link was refused.
SafeInv ==
    /\ SafeType
    /\ ~outside
    /\ call \in {"create", "delete"} => held = "dir"
    /\ call # "none" => ended = "pending"
    /\ call = "write" => file.owner = "ours" /\ file.units <= Content

\* The state the calls that follow no link depend on: copies and analyses of
\* executables leave it alone.
LEMMA SafeUnchanged ==
    ASSUME SafeInv, UNCHANGED safe
    PROVE  SafeInv'
BY DEF SafeInv, SafeType, safe

LEMMA SafeBegins ==
    ASSUME FileInit
    PROVE  SafeInv
BY DEF FileInit, SafeInv, SafeType, NoFile, Other, Link

\* Others may replace a directory or the file, but not the file that is open
\* for writing.
LEMMA SwapSafe ==
    ASSUME SafeInv,
           \/ \E k \in Levels, what \in {"dir", "link", "none"} : Swap(k, what)
           \/ \E f \in {NoFile, Other, Link} : OtherFile(f)
    PROVE  SafeInv' /\ WrittenWhole
<1>1. ASSUME NEW k \in Levels, NEW what \in {"dir", "link", "none"}, Swap(k, what)
      PROVE  SafeInv' /\ WrittenWhole
    BY <1>1 DEF SafeInv, SafeType, Swap, WrittenWhole
<1>2. ASSUME NEW f \in {NoFile, Other, Link}, OtherFile(f)
      PROVE  SafeInv' /\ WrittenWhole
    BY <1>2 DEF SafeInv, SafeType, OtherFile, WrittenWhole, NoFile, Other, Link
<1> QED
    BY <1>1, <1>2

\* The next directory is opened through the handle of the one before, which is
\* a directory's: what is above it in the path by now plays no part.  A link
\* that is opened itself is refused.
LEMMA WalkSafe ==
    ASSUME SafeInv, OpenNext \/ \E c \in {"create", "delete"} : OpenRoot(c)
    PROVE  SafeInv' /\ WrittenWhole
<1>1. CASE OpenNext
    <2>1. at + 1 \in Levels
        BY <1>1, SizesAssumption DEF OpenNext, SafeInv, SafeType, Levels
    <2>2. Opened(at + 1) \in {"dir", "link", "none"}
        BY <1>1, <2>1 DEF OpenNext, Opened, SafeInv, SafeType
    <2>3. call' # "none" => held' = "dir"
        BY <1>1, <2>2 DEF OpenNext, refuse_reparse_point
    <2> QED
        BY <1>1, <2>3 DEF OpenNext, SafeInv, SafeType, WrittenWhole
<1>2. ASSUME NEW c \in {"create", "delete"}, OpenRoot(c)
      PROVE  SafeInv' /\ WrittenWhole
    BY <1>2 DEF OpenRoot, SafeInv, SafeType, WrittenWhole
<1> QED
    BY <1>1, <1>2

\* FILE_CREATE takes no file over, and the loop of WriteFile calls says Ok
\* only when nothing is left.
LEMMA CreateSafe ==
    ASSUME SafeInv, CreateFile \/ Write \/ DeleteFile
    PROVE  SafeInv' /\ WrittenWhole
<1>1. CASE CreateFile
    <2>1. ~outside' /\ call' \in {"write", "none"} /\ UNCHANGED <<at, entry, swaps>>
        <3>1. held = "dir" /\ ~outside
            BY <1>1 DEF CreateFile, SafeInv
        <3>2. ~outside'
            BY <1>1, <3>1 DEF CreateFile
        <3>3. call' \in {"write", "none"} /\ UNCHANGED <<at, entry, swaps>>
            BY <1>1 DEF CreateFile, Finish
        <3> QED
            BY <3>2, <3>3
    <2>2. CASE Disposition /\ file' = [owner |-> "ours", units |-> 0] /\ call' = "write" /\ UNCHANGED ended
        <3>1. file.owner = "none"
            BY <2>2 DEF Disposition, NoFile
        <3> QED
            BY <1>1, <2>1, <2>2, <3>1, SizesAssumption DEF CreateFile, SafeInv, SafeType, WrittenWhole
    <2>3. CASE Finish("error") /\ UNCHANGED file
        BY <1>1, <2>1, <2>3 DEF CreateFile, Finish, SafeInv, SafeType, WrittenWhole
    <2> QED
        BY <1>1, <2>2, <2>3 DEF CreateFile
<1>2. CASE Write
    <2>1. CASE file.units = Content /\ Finish("ok") /\ UNCHANGED file
        BY <1>2, <2>1 DEF Write, Finish, SafeInv, SafeType, WrittenWhole
    <2>2. ASSUME NEW n \in 1..(Content - file.units),
                 file' = [file EXCEPT !.units = @ + n], UNCHANGED <<call, ended>>
          PROVE  SafeInv' /\ WrittenWhole
        BY <1>2, <2>2, SizesAssumption DEF Write, SafeInv, SafeType, WrittenWhole
    <2>3. CASE Finish("error") /\ UNCHANGED file
        BY <1>2, <2>3 DEF Write, Finish, SafeInv, SafeType, WrittenWhole
    <2> QED
        BY <1>2, <2>1, <2>2, <2>3 DEF Write
<1>3. CASE DeleteFile
    <2>1. ~outside' /\ call' = "none" /\ UNCHANGED <<at, entry, swaps>>
        <3>1. held = "dir" /\ ~outside
            BY <1>3 DEF DeleteFile, SafeInv
        <3>2. ~outside'
            BY <1>3, <3>1 DEF DeleteFile
        <3>3. call' = "none" /\ UNCHANGED <<at, entry, swaps>>
            BY <1>3 DEF DeleteFile, Finish
        <3> QED
            BY <3>2, <3>3
    <2>2. \/ file' = [owner |-> "none", units |-> 0] /\ file.owner # "link"
          \/ UNCHANGED file
        BY <1>3 DEF DeleteFile, NoFile, refuse_reparse_point
    <2>3. file' \in [owner : {"none", "other", "ours", "link"}, units : Nat]
        BY <2>2 DEF SafeInv, SafeType
    <2> QED
        BY <1>3, <2>1, <2>2, <2>3 DEF DeleteFile, SafeInv, SafeType, WrittenWhole
<1> QED
    BY <1>1, <1>2, <1>3

LEMMA FileStepSafe ==
    ASSUME SafeInv, [FileNext]_fileVars
    PROVE  SafeInv' /\ (UNCHANGED fileVars \/ WrittenWhole)
<1>1. CASE UNCHANGED safe
    <2>1. WrittenWhole
        BY <1>1 DEF WrittenWhole, safe, SafeInv
    <2> QED
        BY <1>1, <2>1, SafeUnchanged
<1>2. CASE RawOpen \/ RawRead \/ RawEnd \/ \E im \in Images : analyze_pe_file(im)
    BY <1>1, <1>2 DEF RawOpen, RawRead, RawEnd, analyze_pe_file
<1>3. CASE UNCHANGED fileVars
    BY <1>1, <1>3 DEF fileVars
<1> QED
    BY <1>2, <1>3, SwapSafe, WalkSafe, CreateSafe DEF FileNext

\* A guarded create or delete follows no link, and a create writes the whole
\* content into a file of its own, whatever others put on the path and however WriteFile splits it
\* (create_new_no_follow, open_directory_chain): for any depth of the path,
\* any content and any number of changes.
THEOREM GuardedCreates == FileSpec => GuardedCreate
<1>1. FileInit => SafeInv
    BY SafeBegins
<1>2. SafeInv /\ [FileNext]_fileVars => SafeInv'
    BY FileStepSafe
<1>3. SafeInv /\ SafeInv' /\ [FileNext]_fileVars => [NeverRedirected' /\ WrittenWhole]_fileVars
    BY FileStepSafe DEF SafeInv, NeverRedirected
<1> QED
    BY <1>1, <1>2, <1>3, PTL DEF FileSpec, GuardedCreate

-----------------------------------------------------------------------------
(* Copies by the clusters of the volume.  The units before an extent are    *)
(* known from the extents before it, so that the counters of a copy give    *)
(* the place in the file it is at.                                          *)

\* A file whose extents follow each other.
Layout(l) ==
    /\ l.size \in Nat /\ l.start \in Nat
    /\ l.extents \in Seq([next : Nat, lcn : Int])
    /\ \A e \in 1..Len(l.extents) : l.extents[e].next >= ExtentStart(l, e)

\* Clusters before extent e, and in it.
Before(l, e) == ExtentStart(l, e) - l.start
Clusters(l, e) == l.extents[e].next - ExtentStart(l, e)

\* Products.
LEMMA Products ==
    ASSUME NEW a \in Nat, NEW b \in Nat, NEW c \in Nat
    PROVE  /\ a * c \in Nat /\ (a + b) * c = a * c + b * c
           /\ a <= b => a * c <= b * c
<1>1. a * c \in Nat /\ (a + b) * c = a * c + b * c
    OBVIOUS
<1>2. ASSUME a <= b
      PROVE  a * c <= b * c
    <2>1. b - a \in Nat /\ a + (b - a) = b
        BY <1>2
    <2>2. (b - a) * c \in Nat /\ (a + (b - a)) * c = a * c + (b - a) * c
        BY <2>1
    <2>3. b * c = a * c + (b - a) * c
        BY <2>1, <2>2
    <2> QED
        BY <1>1, <2>2, <2>3
<1> QED
    BY <1>1, <1>2

\* What an extent holds.
LEMMA ExtentFacts ==
    ASSUME NEW l, Layout(l), NEW e \in 1..Len(l.extents)
    PROVE  /\ l.extents[e].lcn \in Int /\ Clusters(l, e) \in Nat /\ Before(l, e) \in Int
           /\ Before(l, e + 1) = Before(l, e) + Clusters(l, e)
           /\ Before(l, 1) = 0
<1> DEFINE x == l.extents
           E == Len(x)
<1>1. x \in Seq([next : Nat, lcn : Int]) /\ l.start \in Nat
    BY DEF Layout
<1> HIDE DEF x
<1>2. E \in Nat /\ \A k \in 1..E : x[k] \in [next : Nat, lcn : Int]
    <2> DEFINE R == [next : Nat, lcn : Int]
    <2> HIDE DEF R
    <2>1. x \in Seq(R)
        BY <1>1 DEF R
    <2>2. E \in Nat /\ \A k \in 1..E : x[k] \in R
        BY <2>1
    <2> QED
        BY <2>2 DEF R
<1>3. \A k \in 1..E : x[k].next \in Nat /\ x[k].lcn \in Int
    BY <1>2
<1>4. e \in 1..E /\ e \in Nat
    BY <1>2 DEF x
<1>5. ExtentStart(l, e) \in Nat
    <2>1. ExtentStart(l, e) = IF e > 1 THEN x[e-1].next ELSE l.start
        BY DEF ExtentStart, x
    <2>2. e > 1 => e - 1 \in 1..E
        BY <1>2, <1>4
    <2> QED
        BY <1>1, <1>3, <2>1, <2>2
<1>6. x[e].next \in Nat /\ x[e].lcn \in Int /\ x[e].next >= ExtentStart(l, e)
    BY <1>3, <1>4 DEF Layout, x
<1>7. ExtentStart(l, e + 1) = x[e].next
    <2>1. e + 1 > 1 /\ (e + 1) - 1 = e
        BY <1>4
    <2> QED
        BY <2>1 DEF ExtentStart, x
<1>8. ExtentStart(l, 1) = l.start
    BY DEF ExtentStart
<1>9. Clusters(l, e) = x[e].next - ExtentStart(l, e)
    BY DEF Clusters, x
<1> DEFINE n == x[e].next
           s == ExtentStart(l, e)
<1>10. /\ n \in Nat /\ s \in Nat /\ n >= s /\ l.start \in Nat
       /\ Clusters(l, e) = n - s /\ Before(l, e) = s - l.start /\ Before(l, e + 1) = n - l.start
       /\ Before(l, 1) = l.start - l.start
    BY <1>1, <1>5, <1>6, <1>7, <1>8, <1>9 DEF Before
<1> HIDE DEF n, s
<1> QED
    BY <1>6, <1>10 DEF x

\* Where the units of an extent are among those of the file.
UnitsAt(l, all) ==
    /\ all \in Seq(Int)
    /\ \A e \in 1..Len(l.extents) + 1 : Before(l, e) \in Nat
    /\ Len(all) = Before(l, Len(l.extents) + 1) * Cluster
    /\ \A e \in 1..Len(l.extents) : \A i \in 1..(Clusters(l, e) * Cluster) :
          all[Before(l, e) * Cluster + i] = l.extents[e].lcn * Cluster + i

LEMMA AllUnitsAt ==
    ASSUME NEW l, Layout(l)
    PROVE  UnitsAt(l, AllUnits(l))
<1> DEFINE E == Len(l.extents)
           T == Seq(Int)
           h(e) == ExtentUnits(l, e)
           q == [e \in DOMAIN l.extents |-> h(e)]
           all == AllUnits(l)
           size(e) == Clusters(l, e) * Cluster
<1>0. E \in Nat /\ DOMAIN l.extents = 1..E /\ Cluster \in Nat
    <2> DEFINE x == l.extents
    <2>1. x \in Seq([next : Nat, lcn : Int])
        BY DEF Layout
    <2> HIDE DEF x
    <2>2. Len(x) \in Nat /\ DOMAIN x = 1..Len(x)
        BY <2>1
    <2> QED
        BY <2>2, SizesAssumption DEF x
<1>1. ASSUME NEW e \in 1..E
      PROVE  /\ size(e) \in Nat /\ h(e) \in T /\ Len(h(e)) = size(e)
             /\ \A i \in 1..size(e) : h(e)[i] = l.extents[e].lcn * Cluster + i
    <2> DEFINE o == l.extents[e].lcn * Cluster
               k == size(e)
    <2>1. Clusters(l, e) \in Nat /\ l.extents[e].lcn \in Int
        BY ExtentFacts
    <2>2. k \in Nat /\ o \in Int
        BY <1>0, <2>1
    <2>3. h(e) = [i \in 1..k |-> o + i]
        BY DEF ExtentUnits, Clusters
    <2> HIDE DEF o, k
    <2>4. [i \in 1..k |-> o + i] \in Seq(Int) /\ Len([i \in 1..k |-> o + i]) = k
        BY <2>2
    <2>5. h(e) \in Seq(Int) /\ Len(h(e)) = k /\ \A i \in 1..k : h(e)[i] = o + i
        BY <2>3, <2>4
    <2> QED
        BY <2>2, <2>5 DEF o, k
<1>2. q = [e \in 1..E |-> h(e)]
    BY <1>0
<1>3. all = Concat(q)
    BY DEF AllUnits
<1> HIDE DEF h, E, T, size
<1>4. [e \in 1..E |-> h(e)] \in Seq(T) /\ Len([e \in 1..E |-> h(e)]) = E
    BY <1>0, <1>1
<1>5. \A e \in 1..E : q[e] = h(e)
    BY <1>2
<1> HIDE DEF q
<1>6. q \in Seq(Seq(Int)) /\ Len(q) = E
    BY <1>2, <1>4 DEF T
<1> HIDE DEF all
<1>7. PICK off : Rises(E, off) /\ off[0] = 0 /\ Pieces(Int, q, off, all, E)
    BY <1>3, <1>6, ConcatPieces
<1>8. all \in Seq(Int) /\ Len(all) = off[E] /\ \A e \in 1..E : PieceAt(q, off, all, e)
    BY <1>7 DEF Pieces
<1>9. \A e \in 1..E : /\ off[e] = off[e-1] + size(e)
                      /\ \A i \in 1..size(e) : all[off[e-1] + i] = l.extents[e].lcn * Cluster + i
    <2> SUFFICES ASSUME NEW e \in 1..E
                 PROVE  /\ off[e] = off[e-1] + size(e)
                        /\ \A i \in 1..size(e) : all[off[e-1] + i] = l.extents[e].lcn * Cluster + i
        OBVIOUS
    <2>1. /\ off[e] = off[e-1] + Len(q[e])
          /\ \A i \in 1..Len(q[e]) : all[off[e-1] + i] = q[e][i]
        BY <1>8 DEF PieceAt
    <2>2. /\ q[e] = h(e) /\ Len(h(e)) = size(e)
          /\ \A i \in 1..size(e) : h(e)[i] = l.extents[e].lcn * Cluster + i
        BY <1>1, <1>5
    <2> QED
        BY <2>1, <2>2
<1> DEFINE A == {n \in Nat : n \in 0..E => Before(l, n + 1) \in Nat /\ off[n] = Before(l, n + 1) * Cluster}
<1>10. 0 \in A
    <2>1. Before(l, 1) = 0
        <3>1. ExtentStart(l, 1) = l.start /\ l.start \in Nat
            BY DEF ExtentStart, Layout
        <3> QED
            BY <3>1 DEF Before
    <2>2. 0 * Cluster = 0 /\ 0 + 1 = 1
        BY <1>0
    <2> QED
        BY <1>7, <2>1, <2>2
<1>11. ASSUME NEW n \in Nat, n \in A
       PROVE  n + 1 \in A
    <2> SUFFICES ASSUME n + 1 \in 0..E
                 PROVE  Before(l, (n + 1) + 1) \in Nat /\ off[n+1] = Before(l, (n + 1) + 1) * Cluster
        OBVIOUS
    <2>1. n \in 0..E /\ n + 1 \in 1..E /\ (n + 1) - 1 = n
        BY <1>0
    <2>2. Before(l, n + 1) \in Nat /\ off[n] = Before(l, n + 1) * Cluster
        BY <1>11, <2>1
    <2>3. off[n+1] = off[n] + size(n + 1)
        BY <1>9, <2>1
    <2> DEFINE m == n + 1
    <2>4. Clusters(l, m) \in Nat /\ Before(l, m + 1) = Before(l, m) + Clusters(l, m)
        BY <2>1, ExtentFacts DEF E
    <2>5. size(m) = Clusters(l, m) * Cluster
        BY DEF size
    <2> DEFINE u == Before(l, m)
               v == Clusters(l, m)
               w == Before(l, m + 1)
    <2>6. u \in Nat /\ v \in Nat /\ w = u + v /\ off[m] = u * Cluster + v * Cluster
        BY <2>2, <2>3, <2>4, <2>5
    <2> HIDE DEF m, u, v, w
    <2>7. w \in Nat /\ off[m] = w * Cluster
        BY <1>0, <2>6, Products
    <2> QED
        BY <2>7 DEF m, w
<1>12. Nat \subseteq A
    <2> HIDE DEF A
    <2> QED
        BY <1>10, <1>11, SetInduction
<1>13. \A n \in 0..E : Before(l, n + 1) \in Nat /\ off[n] = Before(l, n + 1) * Cluster
    BY <1>0, <1>12
<1>14. \A e \in 1..E + 1 : Before(l, e) \in Nat
    <2>1. \A e \in 1..E + 1 : e - 1 \in 0..E /\ (e - 1) + 1 = e
        BY <1>0
    <2> QED
        BY <1>13, <2>1
<1>15. ASSUME NEW e \in 1..E
       PROVE  off[e-1] = Before(l, e) * Cluster
    <2>1. e - 1 \in 0..E /\ (e - 1) + 1 = e
        BY <1>0
    <2> QED
        BY <1>13, <2>1
<1>16. Len(all) = Before(l, E + 1) * Cluster
    <2>1. E \in 0..E
        BY <1>0
    <2> QED
        BY <1>8, <1>13, <2>1
<1>17. \A e \in 1..E : \A i \in 1..(Clusters(l, e) * Cluster) :
          all[Before(l, e) * Cluster + i] = l.extents[e].lcn * Cluster + i
    BY <1>9, <1>15 DEF size
<1> QED
    BY <1>8, <1>14, <1>16, <1>17 DEF UnitsAt, E, all

\* A copy has n units in c and goes on with cluster k of extent e.
CopyAt(l, e, k, n, c) ==
    /\ e \in 1..Len(l.extents) + 1 /\ k \in Nat /\ n \in Nat
    /\ e <= Len(l.extents) => k <= Clusters(l, e)
    /\ e = Len(l.extents) + 1 => k = 0
    /\ n = Least((Before(l, e) + k) * Cluster, l.size)
    /\ c \in Seq(Int) /\ Len(c) = n
    /\ \A i \in 1..n : c[i] = AllUnits(l)[i]

LEMMA ExtentsCounted ==
    ASSUME NEW l, Layout(l)
    PROVE  Len(l.extents) \in Nat
<1> DEFINE x == l.extents
<1>1. x \in Seq([next : Nat, lcn : Int])
    BY DEF Layout
<1> HIDE DEF x
<1>2. Len(x) \in Nat
    BY <1>1
<1> QED
    BY <1>2 DEF x

\* An extent that is done is followed by the next.
LEMMA CopySkips ==
    ASSUME NEW l, Layout(l), NEW e, NEW k, NEW n, NEW c, CopyAt(l, e, k, n, c),
           e <= Len(l.extents), k >= Clusters(l, e)
    PROVE  CopyAt(l, e + 1, 0, n, c)
<1> DEFINE E == Len(l.extents)
           u == Before(l, e)
           v == Clusters(l, e)
           w == Before(l, e + 1)
<1>0. E \in Nat
    BY ExtentsCounted
<1>1. e \in 1..E /\ e + 1 \in 1..E + 1 /\ k \in Nat /\ k <= v
    BY <1>0 DEF CopyAt
<1>2. v \in Nat /\ w = u + v
    BY <1>1, ExtentFacts
<1>3. u \in Nat /\ w \in Nat
    BY <1>0, <1>1, AllUnitsAt DEF UnitsAt
<1>4. n = Least((u + k) * Cluster, l.size)
    BY DEF CopyAt
<1> HIDE DEF u, v, w, E
<1>5. k = v
    BY <1>1, <1>2 DEF v
<1>6. u + k = w + 0
    BY <1>2, <1>3, <1>5
<1>7. n = Least((w + 0) * Cluster, l.size)
    BY <1>4, <1>6
<1>8. e + 1 <= E => 0 <= Clusters(l, e + 1)
    <2>1. e + 1 <= E => e + 1 \in 1..E
        BY <1>0, <1>1
    <2> QED
        BY <2>1, ExtentFacts DEF E
<1> QED
    BY <1>1, <1>7, <1>8 DEF CopyAt, E, w

\* The length of a read: what is left of the file or of the read.
LEMMA ReadLength ==
    ASSUME NEW p \in Nat, NEW q \in Nat, NEW s \in Nat, NEW n, n = Least(p, s), n < s,
           NEW units, units = Least(q, s - n)
    PROVE  n = p /\ units \in Nat /\ units <= q /\ n + units = Least(p + q, s)
BY DEF Least

\* d is c with more units after it, that go on from z.
Joins(c, n, z, units, d) ==
    /\ d \in Seq(Int) /\ Len(d) = n + units
    /\ \A i \in 1..n : d[i] = c[i]
    /\ \A i \in 1..units : d[n + i] = z + i

\* c copies n = a + b units of all, and d goes on from it, within the w units
\* after a, that go on from y.
Continues(a, b, w, y, n, all, c, z, units, d) ==
    /\ a \in Nat /\ b \in Nat /\ w \in Nat /\ y \in Int /\ units \in Nat /\ n \in Nat /\ z \in Int
    /\ n = a + b /\ b + units <= w /\ z = y + b
    /\ \A i \in 1..w : all[a + i] = y + i
    /\ \A i \in 1..n : c[i] = all[i]
    /\ Joins(c, n, z, units, d)

\* Joining to a copy the units that come next gives a longer copy.
LEMMA ReadJoins ==
    ASSUME NEW a, NEW b, NEW w, NEW y, NEW n, NEW all, NEW c, NEW z, NEW units, NEW d,
           Continues(a, b, w, y, n, all, c, z, units, d)
    PROVE  \A i \in 1..n + units : d[i] = all[i]
<1> USE DEF Continues
<1> SUFFICES ASSUME NEW i \in 1..n + units
             PROVE  d[i] = all[i]
    OBVIOUS
<1>1. CASE i <= n
    <2>1. i \in 1..n
        BY <1>1
    <2> QED
        BY <2>1 DEF Joins
<1>2. CASE ~(i <= n)
    <2> DEFINE j == i - n
    <2>1. j \in 1..units /\ n + j = i
        BY <1>2
    <2>2. b + j \in 1..w /\ a + (b + j) = i /\ y + (b + j) = z + j
        BY <2>1
    <2> HIDE DEF j
    <2>3. d[n + j] = z + j
        BY <2>1 DEF Joins
    <2>4. all[a + (b + j)] = y + (b + j)
        BY <2>2
    <2> QED
        BY <2>1, <2>2, <2>3, <2>4
<1> QED
    BY <1>1, <1>2

\* What a read of m clusters finds, and the copy d that it makes of c.
Piece(first, units) == [i \in 1..units |-> first + i]
ReadGives(l, e, k, n, m, units, c, d) ==
    /\ m = Least(Clusters(l, e) - k, Capacity)
    /\ units = Least(m * Cluster, l.size - n)
    /\ d = c \o Piece((l.extents[e].lcn + k) * Cluster, units)

LEMMA PieceIs ==
    ASSUME NEW first \in Int, NEW units \in Nat
    PROVE  /\ Piece(first, units) \in Seq(Int) /\ Len(Piece(first, units)) = units
           /\ \A i \in 1..units : Piece(first, units)[i] = first + i
BY DEF Piece

\* A read adds the units that come next.
LEMMA CopyReads ==
    ASSUME NEW l, Layout(l), NEW e, NEW k, NEW n, NEW c, CopyAt(l, e, k, n, c),
           e <= Len(l.extents), k < Clusters(l, e), n < l.size,
           NEW m, NEW units, NEW d, ReadGives(l, e, k, n, m, units, c, d)
    PROVE  /\ m \in Nat /\ units \in Nat
           /\ m = Clusters(l, e) - k => CopyAt(l, e + 1, 0, n + units, d)
           /\ m # Clusters(l, e) - k => CopyAt(l, e, k + m, n + units, d)
<1> DEFINE E == Len(l.extents)
           u == Before(l, e)
           v == Clusters(l, e)
           all == AllUnits(l)
           lcn == l.extents[e].lcn
           left == v - k
<1>0. E \in Nat /\ Cluster \in Nat /\ Capacity \in Nat /\ l.size \in Nat
    BY ExtentsCounted, SizesAssumption DEF Layout
<1>1. e \in 1..E /\ e \in 1..E + 1 /\ k \in Nat /\ n \in Nat /\ n = Least((u + k) * Cluster, l.size)
    BY <1>0 DEF CopyAt
<1>2. c \in Seq(Int) /\ Len(c) = n /\ \A i \in 1..n : c[i] = all[i]
    BY DEF CopyAt
<1>3. v \in Nat /\ lcn \in Int /\ Before(l, e + 1) = u + v
    BY <1>1, ExtentFacts
<1>4. u \in Nat /\ all \in Seq(Int) /\ \A i \in 1..(v * Cluster) : all[u * Cluster + i] = lcn * Cluster + i
    BY <1>1, AllUnitsAt DEF UnitsAt
<1>5. /\ k < v /\ m = Least(left, Capacity) /\ units = Least(m * Cluster, l.size - n)
      /\ d = c \o Piece((lcn + k) * Cluster, units)
    BY DEF ReadGives
<1> HIDE DEF u, v, E, all, lcn
<1>6. left \in Nat /\ m \in Nat /\ m <= left /\ k + m <= v /\ k + left = v
    BY <1>0, <1>1, <1>3, <1>5 DEF Least
<1> HIDE DEF left
<1> DEFINE p == (u + k) * Cluster
           q == m * Cluster
           a == u * Cluster
           b == k * Cluster
<1>7. /\ a \in Nat /\ b \in Nat /\ q \in Nat /\ p = a + b /\ b + q <= v * Cluster
      /\ ((u + k) + m) * Cluster = p + q /\ (u + k) + m \in Nat
    <2>1. a \in Nat /\ b \in Nat /\ q \in Nat /\ p = a + b
        BY <1>0, <1>1, <1>4, <1>6, Products
    <2>2. (k + m) * Cluster = b + q /\ k + m \in Nat
        BY <1>0, <1>1, <1>6, Products
    <2>3. (k + m) * Cluster <= v * Cluster
        BY <1>0, <1>3, <1>6, <2>2, Products
    <2>4. u + k \in Nat /\ (u + k) + m \in Nat
        BY <1>1, <1>4, <1>6
    <2>5. ((u + k) + m) * Cluster = p + q
        BY <1>0, <1>6, <2>4, Products
    <2> QED
        BY <2>1, <2>2, <2>3, <2>4, <2>5
<1> DEFINE z == (lcn + k) * Cluster
           y == lcn * Cluster
           vc == v * Cluster
<1>8. z = y + b /\ y \in Int /\ z \in Int
    <2>1. lcn \in Int /\ k \in Int /\ Cluster \in Int
        BY <1>0, <1>1, <1>3
    <2> QED
        BY <2>1
<1>9. vc \in Nat
    BY <1>0, <1>3, Products
<1>10. /\ a \in Nat /\ b \in Nat /\ q \in Nat /\ p = a + b /\ b + q <= vc
       /\ n = Least(p, l.size) /\ units = Least(q, l.size - n)
       /\ \A i \in 1..vc : all[a + i] = y + i
    BY <1>1, <1>4, <1>5, <1>7
<1>11. d = c \o Piece(z, units)
    BY <1>5
<1>12. (u + v) * Cluster = p + left * Cluster
    <2>1. (u + k) + left = u + v /\ u + k \in Nat
        BY <1>1, <1>3, <1>4, <1>6
    <2>2. ((u + k) + left) * Cluster = p + left * Cluster
        BY <1>0, <1>6, <2>1, Products
    <2> QED
        BY <2>1, <2>2
<1> HIDE DEF p, q, a, b, z, y, vc
<1>13. n = p /\ units \in Nat /\ units <= q /\ n + units = Least(p + q, l.size)
    <2>1. p \in Nat /\ n < l.size
        BY <1>10
    <2> QED
        BY <1>0, <1>10, <2>1, ReadLength
<1>14. n = a + b /\ b + units <= vc
    BY <1>10, <1>9, <1>13
<1>15. d \in Seq(Int) /\ Len(d) = n + units /\ \A i \in 1..n + units : d[i] = all[i]
    <2> DEFINE more == Piece(z, units)
    <2>1. more \in Seq(Int) /\ Len(more) = units /\ \A i \in 1..units : more[i] = z + i
        BY <1>8, <1>13, PieceIs
    <2>2. d = c \o more
        BY <1>11
    <2> HIDE DEF more
    <2>3. c \in Seq(Int) /\ more \in Seq(Int)
        BY <1>2, <2>1
    <2>4. /\ d \in Seq(Int) /\ Len(d) = Len(c) + Len(more)
          /\ \A i \in 1..Len(c) : d[i] = c[i]
          /\ \A i \in 1..Len(more) : d[Len(c) + i] = more[i]
        BY <2>2, <2>3, ConcatTwo
    <2>5. Joins(c, n, z, units, d)
        BY <1>2, <2>1, <2>4 DEF Joins
    <2>6. \A i \in 1..n : c[i] = all[i]
        BY <1>2
    <2>7. \A i \in 1..vc : all[a + i] = y + i
        BY <1>10
    <2>8. a \in Nat /\ b \in Nat /\ vc \in Nat /\ y \in Int /\ units \in Nat /\ n \in Nat /\ z \in Int /\ z = y + b
        BY <1>1, <1>8, <1>10, <1>9, <1>13
    <2>9. Continues(a, b, vc, y, n, all, c, z, units, d)
        BY <1>14, <2>5, <2>6, <2>7, <2>8 DEF Continues
    <2>10. \A i \in 1..n + units : d[i] = all[i]
        BY <2>9, ReadJoins
    <2> QED
        BY <2>5, <2>10 DEF Joins
<1>16. n + units \in Nat
    BY <1>1, <1>13
<1>17. ASSUME m = left
       PROVE  CopyAt(l, e + 1, 0, n + units, d)
    <2>1. (Before(l, e + 1) + 0) * Cluster = p + q
        <3>1. Before(l, e + 1) + 0 = u + v
            BY <1>3, <1>4
        <3>2. left * Cluster = q
            BY <1>17 DEF q
        <3> QED
            BY <1>12, <3>1, <3>2
    <2>2. e + 1 \in 1..E + 1
        BY <1>0, <1>1
    <2>3. e + 1 <= E => 0 <= Clusters(l, e + 1)
        <3>1. e + 1 <= E => e + 1 \in 1..E
            BY <1>0, <1>1
        <3> QED
            BY <3>1, ExtentFacts DEF E
    <2>4. n + units = Least((Before(l, e + 1) + 0) * Cluster, l.size)
        BY <1>13, <2>1
    <2> QED
        BY <1>15, <1>16, <2>2, <2>3, <2>4 DEF CopyAt, E, all
<1>18. CopyAt(l, e, k + m, n + units, d)
    <2>1. k + m \in Nat /\ k + m <= Clusters(l, e) /\ u + (k + m) = (u + k) + m
        BY <1>1, <1>4, <1>6 DEF v
    <2>2. n + units = Least((Before(l, e) + (k + m)) * Cluster, l.size)
        <3>1. (u + (k + m)) * Cluster = p + q
            BY <1>7, <2>1 DEF p, q
        <3> QED
            BY <1>13, <3>1 DEF u
    <2>3. e # E + 1
        BY <1>0, <1>1
    <2> QED
        BY <1>1, <1>15, <1>16, <2>1, <2>2, <2>3 DEF CopyAt, E, all
<1> QED
    BY <1>6, <1>13, <1>17, <1>18 DEF left, v

\* No position is beyond the units of the file.
LEMMA PositionBounded ==
    ASSUME NEW l, Layout(l), NEW e, NEW k, NEW n, NEW c, CopyAt(l, e, k, n, c)
    PROVE  /\ Len(AllUnits(l)) \in Nat /\ (Before(l, e) + k) * Cluster \in Nat
           /\ (Before(l, e) + k) * Cluster <= Len(AllUnits(l))
           /\ e > Len(l.extents) => (Before(l, e) + k) * Cluster = Len(AllUnits(l))
<1> DEFINE E == Len(l.extents)
           f == [j \in 0..E |-> Before(l, j + 1)]
<1>0. E \in Nat /\ Cluster \in Nat
    BY ExtentsCounted, SizesAssumption
<1>1. Len(AllUnits(l)) = Before(l, E + 1) * Cluster /\ \A j \in 1..E + 1 : Before(l, j) \in Nat
    BY AllUnitsAt DEF UnitsAt
<1>2. e \in 1..E + 1 /\ k \in Nat
    BY DEF CopyAt
<1> HIDE DEF E
<1>3. Rises(E, f)
    <2>1. \A j \in 0..E : j + 1 \in 1..E + 1
        BY <1>0
    <2>2. f \in [0..E -> Nat]
        BY <1>1, <2>1
    <2>3. ASSUME NEW j \in 1..E
          PROVE  f[j-1] <= f[j]
        <3>1. j - 1 \in 0..E /\ j \in 0..E /\ (j - 1) + 1 = j /\ j \in 1..E + 1 /\ j + 1 \in 1..E + 1
            BY <1>0
        <3>2. f[j-1] = Before(l, j) /\ f[j] = Before(l, j + 1)
            BY <3>1
        <3>3. Before(l, j + 1) = Before(l, j) + Clusters(l, j) /\ Clusters(l, j) \in Nat
            BY ExtentFacts DEF E
        <3>4. Before(l, j) \in Nat
            BY <1>1, <3>1
        <3> QED
            BY <3>2, <3>3, <3>4
    <2> HIDE DEF f
    <2> QED
        BY <2>2, <2>3 DEF Rises
<1>4. f[E] = Before(l, E + 1) /\ E \in 0..E
    BY <1>0
<1>5. CASE e <= E
    <2>1. e \in 1..E /\ e \in 0..E
        BY <1>0, <1>2, <1>5
    <2>2. k <= Clusters(l, e)
        BY <1>5 DEF CopyAt, E
    <2>3. Before(l, e + 1) = Before(l, e) + Clusters(l, e) /\ Clusters(l, e) \in Nat
        BY <2>1, ExtentFacts DEF E
    <2>4. Before(l, e) \in Nat /\ f[e] = Before(l, e + 1)
        BY <1>1, <1>2, <2>1
    <2> HIDE DEF f
    <2>5. f[e] \in Nat /\ f[E] \in Nat /\ f[e] <= f[E]
        BY <1>0, <1>3, <1>4, <1>5, <2>1, RisesBetween
    <2>6. Before(l, e) + k \in Nat /\ Before(l, e) + k <= Before(l, E + 1) /\ Before(l, E + 1) \in Nat
        BY <1>2, <1>4, <2>2, <2>3, <2>4, <2>5
    <2>7. ~(e > E)
        BY <1>0, <1>2, <1>5
    <2> QED
        BY <1>0, <1>1, <2>6, <2>7, Products DEF E
<1>6. CASE ~(e <= E)
    <2>1. e = E + 1
        BY <1>0, <1>2, <1>6
    <2>2. k = 0
        BY <2>1 DEF CopyAt, E
    <2>3. Before(l, e) \in Nat
        BY <1>1, <1>2
    <2>4. Before(l, e) + k = Before(l, E + 1) /\ Before(l, E + 1) \in Nat
        BY <2>1, <2>2, <2>3
    <2> QED
        BY <1>0, <1>1, <2>4, Products DEF E
<1> QED
    BY <1>5, <1>6

\* What is copied begins the file, and is the file at its end.
LEMMA CopyIsPrefix ==
    ASSUME NEW l, Layout(l), NEW e, NEW k, NEW n, NEW c, CopyAt(l, e, k, n, c)
    PROVE  /\ IsPrefix(c, Units(l))
           /\ (n >= l.size \/ e > Len(l.extents)) => n = Least(l.size, Len(AllUnits(l)))
           /\ n = Least(l.size, Len(AllUnits(l))) => c = Units(l)
<1> DEFINE all == AllUnits(l)
           top == Len(all)
           p == (Before(l, e) + k) * Cluster
           t == Least(l.size, top)
           x == Units(l)
<1>1. /\ top \in Nat /\ p \in Nat /\ p <= top /\ (e > Len(l.extents) => p = top)
      /\ l.size \in Nat /\ n \in Nat /\ n = Least(p, l.size)
    BY PositionBounded DEF CopyAt, Layout
<1>2. all \in Seq(Int)
    BY AllUnitsAt DEF UnitsAt
<1>3. x = SubSeq(all, 1, t)
    BY DEF Units
<1>4. c \in Seq(Int) /\ Len(c) = n /\ \A i \in 1..n : c[i] = all[i]
    BY DEF CopyAt
<1> HIDE DEF all, p, x
<1>5. t \in Nat /\ t <= top /\ n <= t
    <2> HIDE DEF top
    <2> QED
        BY <1>1 DEF Least
<1>6. (n >= l.size \/ e > Len(l.extents)) => n = t
    <2> HIDE DEF top
    <2> QED
        BY <1>1 DEF Least
<1>7. x \in Seq(Int) /\ Len(x) = t /\ \A i \in 1..t : x[i] = all[i]
    <2>1. \A i \in 1..t : all[i] \in Int
        <3>1. \A i \in 1..t : i \in 1..Len(all)
            <4> HIDE DEF t
            <4> QED
                BY <1>1, <1>5
        <3> QED
            BY <1>2, <3>1
    <2> HIDE DEF t
    <2>2. /\ x \in Seq(Int) /\ Len(x) = (IF 1 <= t THEN t - 1 + 1 ELSE 0)
          /\ \A i \in 1..(t - 1 + 1) : x[i] = all[1 + i - 1]
        BY <1>3, <1>5, <2>1, SubSeqProperties
    <2>3. t - 1 + 1 = t /\ (IF 1 <= t THEN t - 1 + 1 ELSE 0) = t /\ \A i \in 1..t : 1 + i - 1 = i
        BY <1>5
    <2> QED
        BY <2>2, <2>3
<1> HIDE DEF t
<1>8. \A i \in 1..n : c[i] = x[i]
    <2>1. \A i \in 1..n : i \in 1..t
        BY <1>1, <1>5
    <2> QED
        BY <1>4, <1>7, <2>1
<1>9. n = t => c = x
    BY <1>4, <1>7, <1>8, SeqEqual
<1>10. SubSeq(c, 1, Len(c)) = SubSeq(x, 1, Len(c))
    <2>1. /\ \A i \in 1..n : c[i] \in Int
          /\ \A i \in 1..n : x[i] \in Int
        BY <1>4, <1>8
    <2> DEFINE a == SubSeq(c, 1, n)
               b == SubSeq(x, 1, n)
    <2>2. a \in Seq(Int) /\ Len(a) = (IF 1 <= n THEN n - 1 + 1 ELSE 0) /\ \A i \in 1..(n - 1 + 1) : a[i] = c[1 + i - 1]
        BY <1>1, <2>1, SubSeqProperties
    <2>3. b \in Seq(Int) /\ Len(b) = (IF 1 <= n THEN n - 1 + 1 ELSE 0) /\ \A i \in 1..(n - 1 + 1) : b[i] = x[1 + i - 1]
        BY <1>1, <2>1, SubSeqProperties
    <2>4. n - 1 + 1 = n /\ (IF 1 <= n THEN n - 1 + 1 ELSE 0) = n /\ \A i \in 1..n : 1 + i - 1 = i
        BY <1>1
    <2> HIDE DEF a, b
    <2>5. Len(a) = n /\ Len(b) = n /\ \A i \in 1..n : a[i] = b[i]
        BY <1>8, <2>2, <2>3, <2>4
    <2>6. a = b
        BY <2>2, <2>3, <2>5, SeqEqual
    <2> QED
        BY <1>4, <2>6 DEF a, b
<1>11. IsPrefix(c, x)
    BY <1>4, <1>5, <1>7, <1>10 DEF IsPrefix
<1> QED
    BY <1>6, <1>9, <1>11 DEF t, x, all

Handles == SUBSET {"volume", "file"}
Flags == BOOLEAN
RawType == [pc : Nat, handles : Handles, extent : Nat, cluster : Nat, bytes : Nat, short : Flags]

\* What the steps of a copy make of its counters.
LEMMA RawFields ==
    ASSUME NEW r \in RawType
    PROVE  /\ r.pc \in Nat /\ r.handles \in Handles
           /\ r.extent \in Nat /\ r.cluster \in Nat /\ r.bytes \in Nat /\ r.short \in Flags
BY DEF RawType

Ended(r, p, h) == [r EXCEPT !.pc = p, !.handles = h]
Moved(r, x, k) == [r EXCEPT !.extent = x, !.cluster = k]
Counted(r, n, s, p, h) == [r EXCEPT !.bytes = n, !.short = s, !.pc = p, !.handles = h]
Advanced(r, k) == [r EXCEPT !.cluster = k]

LEMMA RawEnds ==
    ASSUME NEW r \in RawType, NEW p \in Nat, NEW h \in Handles
    PROVE  /\ Ended(r, p, h) \in RawType /\ Ended(r, p, h).pc = p /\ Ended(r, p, h).extent = r.extent
           /\ Ended(r, p, h).cluster = r.cluster /\ Ended(r, p, h).bytes = r.bytes
           /\ Ended(r, p, h).short = r.short
BY DEF RawType, Ended

LEMMA RawMoves ==
    ASSUME NEW r \in RawType, NEW x \in Nat, NEW k \in Nat
    PROVE  /\ Moved(r, x, k) \in RawType /\ Moved(r, x, k).pc = r.pc /\ Moved(r, x, k).extent = x
           /\ Moved(r, x, k).cluster = k /\ Moved(r, x, k).bytes = r.bytes
           /\ Moved(r, x, k).short = r.short
           /\ Advanced(r, k) \in RawType /\ Advanced(r, k).pc = r.pc /\ Advanced(r, k).extent = r.extent
           /\ Advanced(r, k).cluster = k /\ Advanced(r, k).bytes = r.bytes
           /\ Advanced(r, k).short = r.short
<1>1. /\ Moved(r, x, k) \in RawType /\ Moved(r, x, k).pc = r.pc /\ Moved(r, x, k).extent = x
      /\ Moved(r, x, k).cluster = k /\ Moved(r, x, k).bytes = r.bytes
      /\ Moved(r, x, k).short = r.short
    BY DEF RawType, Moved
<1>2. /\ Advanced(r, k) \in RawType /\ Advanced(r, k).pc = r.pc /\ Advanced(r, k).extent = r.extent
      /\ Advanced(r, k).cluster = k /\ Advanced(r, k).bytes = r.bytes
      /\ Advanced(r, k).short = r.short
    BY DEF RawType, Advanced
<1> QED
    BY <1>1, <1>2

LEMMA RawCounts ==
    ASSUME NEW r \in RawType, NEW n \in Nat, NEW s \in Flags, NEW p \in Nat, NEW h \in Handles
    PROVE  /\ Counted(r, n, s, p, h) \in RawType /\ Counted(r, n, s, p, h).pc = p
           /\ Counted(r, n, s, p, h).short = s /\ Counted(r, n, s, p, h).bytes = n
           /\ Counted(r, n, s, p, h).extent = r.extent /\ Counted(r, n, s, p, h).cluster = r.cluster
BY DEF RawType, Counted

\* The copy is at the place its counters give, and ends with the whole file,
\* unless a read gave less than it was asked for.
CopyInv ==
    /\ Layout(layout)
    /\ raw \in RawType /\ raw.extent # 0
    /\ ~raw.short => /\ CopyAt(layout, raw.extent, raw.cluster, raw.bytes, copied)
                     /\ raw.pc = Copied => raw.bytes = Least(layout.size, Len(AllUnits(layout)))

LEMMA CopyBegins ==
    ASSUME FileInit
    PROVE  CopyInv
<1>1. /\ layout \in Layouts /\ copied = <<>>
      /\ raw = [pc |-> 1, handles |-> {}, extent |-> 1, cluster |-> 0, bytes |-> 0, short |-> FALSE]
    BY DEF FileInit
<1>2. /\ layout \in [size : Nat, start : Nat, extents : Seq([next : Nat, lcn : Int])]
      /\ \A e \in DOMAIN layout.extents : layout.extents[e].next >= ExtentStart(layout, e)
    BY <1>1, SizesAssumption DEF ExtentStart
<1>3. Layout(layout)
    <2> DEFINE S == Seq([next : Nat, lcn : Int])
               R == [next : Nat, lcn : Int]
               x == layout.extents
    <2> HIDE DEF S
    <2>1. layout \in [size : Nat, start : Nat, extents : S]
        BY <1>2 DEF S
    <2>2. layout.size \in Nat /\ layout.start \in Nat /\ x \in S
        BY <2>1
    <2> HIDE DEF R, x
    <2>3. x \in Seq(R)
        BY <2>2 DEF S, R
    <2>4. DOMAIN x = 1..Len(x)
        BY <2>3
    <2> QED
        BY <1>2, <2>2, <2>4 DEF Layout, S, x
<1>4. CopyAt(layout, 1, 0, 0, <<>>)
    <2> DEFINE E == Len(layout.extents)
    <2>1. E \in Nat /\ Cluster \in Nat /\ layout.size \in Nat
        BY <1>3, ExtentsCounted, SizesAssumption DEF Layout
    <2>2. Before(layout, 1) = 0
        <3>1. ExtentStart(layout, 1) = layout.start /\ layout.start \in Nat
            BY <1>3 DEF ExtentStart, Layout
        <3> QED
            BY <3>1 DEF Before
    <2>3. 1 <= E => 0 <= Clusters(layout, 1)
        <3> SUFFICES ASSUME 1 <= E
                     PROVE  0 <= Clusters(layout, 1)
            OBVIOUS
        <3>1. 1 \in 1..E
            BY <2>1
        <3>2. Clusters(layout, 1) \in Nat
            BY <1>3, <3>1, ExtentFacts
        <3> QED
            BY <3>2
    <2>4. 0 = Least((Before(layout, 1) + 0) * Cluster, layout.size)
        BY <2>1, <2>2 DEF Least
    <2>5. 1 \in 1..E + 1
        BY <2>1
    <2>6. <<>> \in Seq(Int) /\ Len(<<>>) = 0 /\ 1..0 = {}
        OBVIOUS
    <2> HIDE DEF E
    <2>7. \A i \in 1..0 : <<>>[i] = AllUnits(layout)[i]
        BY <2>6
    <2> QED
        BY <2>3, <2>4, <2>5, <2>6, <2>7 DEF CopyAt, E
<1>5. /\ raw \in RawType
      /\ raw.pc # Copied /\ raw.extent = 1 /\ raw.cluster = 0 /\ raw.bytes = 0
    <2>1. {} \in Handles
        BY DEF Handles
    <2> QED
        BY <1>1, <2>1 DEF RawType, Flags, Copied, OpenSteps
<1> QED
    BY <1>1, <1>3, <1>4, <1>5 DEF CopyInv

LEMMA OpenKeepsCopy ==
    ASSUME CopyInv, RawOpen
    PROVE  CopyInv'
<1>1. /\ UNCHANGED <<layout, copied>> /\ raw.pc \in 1..4
      /\ raw'.extent = raw.extent /\ raw'.cluster = raw.cluster /\ raw'.bytes = raw.bytes
      /\ raw'.short = raw.short
      /\ raw'.pc \in {0, raw.pc + 1} /\ raw'.pc # Copied
      /\ raw' \in RawType
    <2>1. raw \in RawType /\ raw.pc \in Nat /\ raw.handles \in Handles
        BY RawFields DEF CopyInv
    <2>2. raw.pc \in 1..4 /\ Copied = 6 /\ UNCHANGED <<layout, copied>>
        BY DEF RawOpen, OpenSteps, Copied
    <2>3. PICK p \in {0, raw.pc + 1}, h \in Handles : raw' = Ended(raw, p, h)
        <3> DEFINE o == OpenSteps[raw.pc]
                   more == IF o \in {"volume", "file"} THEN raw.handles \cup {o}
                           ELSE IF o = "pointers" THEN raw.handles \ {"file"} ELSE raw.handles
        <3>1. \/ raw' = Ended(raw, raw.pc + 1, more)
              \/ raw' = Ended(raw, 0, raw.handles \ {"file"})
            BY DEF RawOpen, Ended
        <3>2. raw.handles \ {"file"} \in Handles
            BY <2>1 DEF Handles
        <3> HIDE DEF o
        <3>3. more \in Handles
            BY <2>1 DEF Handles
        <3> HIDE DEF more
        <3> QED
            BY <3>1, <3>2, <3>3
    <2>4. p \in Nat /\ p # 6
        BY <2>1, <2>2
    <2> QED
        BY <2>1, <2>2, <2>3, <2>4, RawEnds
<1> QED
    BY <1>1 DEF CopyInv

LEMMA EndKeepsCopy ==
    ASSUME CopyInv, RawEnd
    PROVE  CopyInv'
<1>1. /\ UNCHANGED <<layout, copied>>
      /\ raw'.extent = raw.extent /\ raw'.cluster = raw.cluster /\ raw'.bytes = raw.bytes
      /\ raw'.short = raw.short
      /\ raw'.pc = Copied => raw.bytes >= layout.size \/ raw.extent > Len(layout.extents)
      /\ raw' \in RawType
    <2>1. raw \in RawType /\ UNCHANGED <<layout, copied>> /\ {} \in Handles
        BY DEF CopyInv, RawEnd, Handles
    <2>2. Copied = 6
        BY DEF Copied, OpenSteps
    <2>3. CASE (raw.bytes >= layout.size \/ raw.extent > Len(layout.extents))
               /\ raw' = Ended(raw, Copied, {})
        BY <2>1, <2>2, <2>3, RawEnds
    <2>4. CASE raw' = Ended(raw, 0, {})
        BY <2>1, <2>2, <2>4, RawEnds
    <2> QED
        BY <2>3, <2>4 DEF RawEnd, Ended
<1>2. ~raw.short /\ raw'.pc = Copied => raw.bytes = Least(layout.size, Len(AllUnits(layout)))
    BY <1>1, CopyIsPrefix DEF CopyInv
<1> QED
    BY <1>1, <1>2 DEF CopyInv

\* A read that gives what it is asked for gives something.
LEMMA ReadGivesSome ==
    ASSUME NEW left \in Nat, left # 0, NEW rest \in Nat, rest # 0
    PROVE  Least(Least(left, Capacity) * Cluster, rest) # 0
<1> DEFINE m == Least(left, Capacity)
<1>1. m \in Nat /\ m >= 1 /\ Cluster \in Nat /\ Cluster >= 1
    BY SizesAssumption DEF Least
<1> HIDE DEF m
<1>2. m * Cluster >= Cluster
    <2>1. PICK j \in Nat : m = j + 1
        <3>1. m - 1 \in Nat /\ m = (m - 1) + 1
            BY <1>1
        <3> QED
            BY <3>1
    <2>2. j * Cluster \in Nat /\ m * Cluster = j * Cluster + Cluster
        BY <1>1, <2>1
    <2> QED
        BY <1>1, <2>2
<1>3. m * Cluster \in Int
    BY <1>1
<1> QED
    BY <1>1, <1>2, <1>3 DEF Least, m

LEMMA ReadKeepsCopy ==
    ASSUME CopyInv, RawRead
    PROVE  CopyInv'
<1> DEFINE l == layout
           e == raw.extent
           k == raw.cluster
           n == raw.bytes
           left == ClusterCount - k
           m == Least(left, Capacity)
           whole == Least(m * Cluster, l.size - n)
           first == (Extent.lcn + k) * Cluster
           ends(u) == Counted(raw, n + u, raw.short \/ u < whole, IF u = 0 THEN Copied ELSE raw.pc,
                              IF u = 0 THEN {} ELSE raw.handles)
<1>1. /\ Layout(l) /\ raw \in RawType
      /\ e \in Nat /\ k \in Nat /\ n \in Nat /\ raw.pc \in Nat /\ raw.short \in Flags /\ raw.handles \in Handles
      /\ ~raw.short => CopyAt(l, e, k, n, copied)
      /\ e # 0
    BY RawFields DEF CopyInv
<1>2. /\ raw.pc = IsOpen /\ UNCHANGED layout /\ n < l.size /\ e <= Len(l.extents)
      /\ ClusterCount = Clusters(l, e) /\ Extent = l.extents[e]
    BY DEF RawRead, ClusterCount, Clusters, ExtentStart, Extent
<1>3. IsOpen # Copied /\ Copied \in Nat /\ {} \in Handles
    BY DEF IsOpen, Copied, OpenSteps, Handles
<1>4. CASE k >= ClusterCount
    <2> HIDE DEF ends, first, whole, m, left
    <2>1. raw' = NextExtent(raw) /\ UNCHANGED copied
        BY <1>2, <1>4 DEF RawRead
    <2>2. /\ raw' \in RawType /\ raw'.pc = raw.pc /\ raw'.extent = e + 1 /\ raw'.cluster = 0
          /\ raw'.bytes = n /\ raw'.short = raw.short
        <3> DEFINE x == e + 1
        <3>1. raw' = Moved(raw, x, 0)
            BY <2>1 DEF NextExtent, Moved
        <3>2. x \in Nat /\ 0 \in Nat /\ raw \in RawType
            BY <1>1
        <3> HIDE DEF x
        <3>3. /\ Moved(raw, x, 0) \in RawType /\ Moved(raw, x, 0).pc = raw.pc /\ Moved(raw, x, 0).extent = x
              /\ Moved(raw, x, 0).cluster = 0 /\ Moved(raw, x, 0).bytes = raw.bytes
              /\ Moved(raw, x, 0).short = raw.short
            BY <3>2, RawMoves
        <3> QED
            BY <3>1, <3>3 DEF x
    <2>3. ~raw.short => CopyAt(l, e + 1, 0, n, copied)
        BY <1>1, <1>2, <1>4, CopySkips
    <2> QED
        BY <1>1, <1>2, <1>3, <2>1, <2>2, <2>3 DEF CopyInv
<1>5. CASE ~(k >= ClusterCount)
    <2>f. /\ e \in 1..Len(l.extents) /\ Clusters(l, e) \in Nat /\ k < Clusters(l, e)
          /\ left \in Nat /\ left # 0 /\ l.size - n \in Nat /\ l.size - n # 0
          /\ m \in Nat /\ whole \in Nat
        <3>1. e \in 1..Len(l.extents)
            BY <1>1, <1>2, ExtentsCounted
        <3>2. Clusters(l, e) \in Nat
            BY <1>1, <3>1, ExtentFacts
        <3>3. k < Clusters(l, e) /\ left \in Nat /\ left # 0
            BY <1>1, <1>2, <1>5, <3>2
        <3>4. l.size - n \in Nat /\ l.size - n # 0
            BY <1>1, <1>2 DEF Layout
        <3>5. m \in Nat
            BY <3>3, SizesAssumption DEF Least
        <3>6. m * Cluster \in Nat
            <4> HIDE DEF m
            <4> QED
                BY <3>5, SizesAssumption
        <3>7. whole \in Nat
            BY <3>4, <3>6 DEF Least
        <3> QED
            BY <3>1, <3>2, <3>3, <3>4, <3>5, <3>7
    <2>1. PICK u \in 0..whole :
            /\ copied' = copied \o [i \in 1..u |-> first + i]
            /\ raw' = IF m = left THEN NextExtent(ends(u)) ELSE [ends(u) EXCEPT !.cluster = @ + m]
        BY <1>2, <1>5, ZenonT(60) DEF RawRead, Counted
    <2> DEFINE moved == ends(u)
               s == raw.short \/ u < whole
               p == IF u = 0 THEN Copied ELSE raw.pc
               h == IF u = 0 THEN {} ELSE raw.handles
    <2>2. s \in Flags /\ p \in Nat /\ h \in Handles
        BY <1>1, <1>3 DEF Flags
    <2>3. u \in Nat /\ n + u \in Nat
        BY <1>1, <2>1
    <2>4. /\ moved \in RawType /\ moved.pc = p /\ moved.short = s /\ moved.bytes = n + u
          /\ moved.extent = e /\ moved.cluster = k
        <3> DEFINE x == n + u
        <3> HIDE DEF s, p, h, x
        <3>1. moved = Counted(raw, x, s, p, h)
            BY DEF s, p, h, x
        <3>2. x \in Nat
            BY <2>3 DEF x
        <3> HIDE DEF moved, ends, whole, m, left, first
        <3>3. raw \in RawType
            BY <1>1
        <3>4. /\ moved \in RawType /\ moved.pc = p /\ moved.short = s /\ moved.bytes = x
              /\ moved.extent = raw.extent /\ moved.cluster = raw.cluster
            BY <2>2, <3>1, <3>2, <3>3, RawCounts
        <3> QED
            BY <3>4 DEF x
    <2>5. Capacity \in Nat
        BY SizesAssumption
    <2>6. ASSUME ~raw.short, u = whole
          PROVE  CopyInv'
        <3>1. ReadGives(l, e, k, n, m, u, copied, copied')
            BY <1>2, <2>1, <2>6 DEF ReadGives, Piece
        <3>5. u # 0
            BY <2>6, <2>f, ReadGivesSome
        <3>6. /\ m = left => CopyAt(l, e + 1, 0, n + u, copied')
              /\ m # left => CopyAt(l, e, k + m, n + u, copied')
            <4> HIDE DEF m
            <4> QED
                BY <1>1, <1>2, <2>f, <2>6, <3>1, CopyReads
        <3>7. p = raw.pc /\ s = FALSE
            BY <2>1, <2>3, <2>6, <3>5
        <3> HIDE DEF moved, s, p, h, m, left
        <3>8. CASE m = left
            <4>1. raw' = Moved(moved, e + 1, 0)
                BY <2>1, <2>4, <3>8 DEF NextExtent, Moved, moved
            <4>2. e + 1 \in Nat /\ 0 \in Nat
                BY <1>1
            <4>3. /\ raw' \in RawType /\ raw'.pc = raw.pc /\ raw'.short = FALSE
                  /\ raw'.extent = e + 1 /\ raw'.cluster = 0 /\ raw'.bytes = n + u
                BY <2>4, <3>7, <4>1, <4>2, RawMoves
            <4> QED
                BY <1>1, <1>2, <1>3, <3>6, <3>8, <4>3 DEF CopyInv
        <3>9. CASE m # left
            <4>1. raw' = Advanced(moved, k + m)
                BY <2>1, <2>4, <3>9 DEF Advanced, moved
            <4>2. k + m \in Nat
                BY <1>1, <2>f
            <4>3. /\ raw' \in RawType /\ raw'.pc = raw.pc /\ raw'.short = FALSE
                  /\ raw'.extent = e /\ raw'.cluster = k + m /\ raw'.bytes = n + u
                BY <2>4, <3>7, <4>1, <4>2, RawMoves
            <4> QED
                BY <1>1, <1>2, <1>3, <3>6, <3>9, <4>3 DEF CopyInv
        <3> QED
            BY <3>8, <3>9
    <2>7. ASSUME raw.short \/ u # whole
          PROVE  CopyInv'
        <3>1. s = TRUE
            BY <1>1, <2>f, <2>1, <2>3, <2>7 DEF Flags
        <3> HIDE DEF moved, s, p, h, m, left
        <3>2. CASE m = left
            <4>1. raw' = Moved(moved, e + 1, 0)
                BY <2>1, <2>4, <3>2 DEF NextExtent, Moved, moved
            <4>2. e + 1 \in Nat /\ 0 \in Nat /\ e + 1 # 0
                BY <1>1
            <4>3. raw' \in RawType /\ raw'.short = TRUE /\ raw'.extent # 0
                BY <2>4, <3>1, <4>1, <4>2, RawMoves
            <4> QED
                BY <1>1, <1>2, <4>3 DEF CopyInv
        <3>3. CASE m # left
            <4>1. raw' = Advanced(moved, k + m)
                BY <2>1, <2>4, <3>3 DEF Advanced, moved
            <4>2. k + m \in Nat
                BY <1>1, <2>f
            <4>3. raw' \in RawType /\ raw'.short = moved.short /\ raw'.extent = moved.extent
                BY <2>4, <4>1, <4>2, RawMoves
            <4>4. raw'.short = TRUE /\ raw'.extent # 0
                BY <1>1, <2>4, <3>1, <4>3
            <4> QED
                BY <1>1, <1>2, <4>3, <4>4 DEF CopyInv
        <3> QED
            BY <3>2, <3>3
    <2> QED
        BY <1>1, <2>6, <2>7 DEF Flags
<1> QED
    BY <1>4, <1>5

\* No other operation touches a copy.
LEMMA CopyStep ==
    ASSUME CopyInv, [FileNext]_fileVars
    PROVE  CopyInv'
<1>1. CASE UNCHANGED rawVars
    BY <1>1 DEF CopyInv, rawVars
<1>2. CASE RawOpen
    BY <1>2, OpenKeepsCopy
<1>3. CASE RawRead
    BY <1>3, ReadKeepsCopy
<1>4. CASE RawEnd
    BY <1>4, EndKeepsCopy
<1>5. UNCHANGED rawVars \/ RawOpen \/ RawRead \/ RawEnd
    BY DEF FileNext, fileVars, Swap, OtherFile, OpenRoot, OpenNext, CreateFile, Write,
           DeleteFile, analyze_pe_file
<1> QED
    BY <1>1, <1>2, <1>3, <1>4, <1>5

\* A copy by clusters whose reads all gave what they were asked for is the file
\* (RawFile::read, copy_to): for any extents, sizes and buffer.
THEOREM CopiesAreFaithful == FileSpec => []CopyFaithful
<1>1. FileInit => CopyInv
    BY CopyBegins
<1>2. CopyInv /\ [FileNext]_fileVars => CopyInv'
    BY CopyStep
<1>3. CopyInv => CopyFaithful
    BY CopyIsPrefix DEF CopyInv, CopyFaithful
<1> QED
    BY <1>1, <1>2, <1>3, PTL DEF FileSpec

-----------------------------------------------------------------------------
(* What is found in an executable.                                         *)

\* RunLength counts the cells within an array.
LEMMA RunLengthIs ==
    ASSUME NEW im, NEW o, NEW last
    PROVE  /\ RunLength(im, o, last) \in 0..MaxWalk
           /\ \A k \in Nat : k < RunLength(im, o, last) <=> k < MaxWalk /\ Within(im, o, k, last)
<1> DEFINE ends(k) == Cell(im, o + k) \in {<<"truncated">>, last}
           stop == {k \in 0..MaxWalk : k = MaxWalk \/ ends(k)}
           n == CHOOSE n \in stop : \A j \in stop : n <= j
<1>0. MaxWalk \in Nat
    BY ImagesAssumption
<1>1. RunLength(im, o, last) = n
    BY DEF RunLength
<1>2. \A k : Within(im, o, k, last) <=> \A j \in 0..k : ~ends(j)
    BY DEF Within
<1> HIDE DEF ends
<1>3. stop \in SUBSET Nat /\ MaxWalk \in stop
    BY <1>0
<1>4. n \in stop /\ \A j \in stop : n <= j
    <2> HIDE DEF stop
    <2>1. \E k \in stop : \A j \in stop : k <= j
        BY <1>3, NatMin
    <2> QED
        BY <2>1
<1> HIDE DEF n
<1>5. n \in 0..MaxWalk /\ (n = MaxWalk \/ ends(n)) /\ \A j \in 0..MaxWalk : (j = MaxWalk \/ ends(j)) => n <= j
    BY <1>4
<1> HIDE DEF stop
<1>6. ASSUME NEW k \in Nat, k < n
      PROVE  k < MaxWalk /\ \A j \in 0..k : ~ends(j)
    BY <1>0, <1>5, <1>6
<1>7. ASSUME NEW k \in Nat, k < MaxWalk, \A j \in 0..k : ~ends(j)
      PROVE  k < n
    BY <1>0, <1>5, <1>7
<1> QED
    BY <1>1, <1>2, <1>5, <1>6, <1>7

\* What parse_imports gets from descriptor k.
TableAt(im) == rva_to_offset(im, data_directory(im))
AtDescriptor(im, k) == Cell(im, TableAt(im) + (k-1))
ImportsOf(im, k) ==
    LET d == AtDescriptor(im, k)
    IN  IF dll_name(im, d) = <<"truncated">> \/ thunk_offset(im, d) = 0 THEN <<>>
        ELSE walk_thunks(im, thunk_offset(im, d), dll_name(im, d))
ImportPlaces == (0..MaxWalk-1) \X (0..MaxWalk-1)
AllImports(im) == {ImportAt(im, p) : p \in ImportPlaces}

\* The thunks it comes from.
FromThunks(im, k, c, q) ==
    /\ q \in Seq(1..MaxWalk) /\ Increasing(q) /\ Len(c) = Len(q)
    /\ \A i \in 1..Len(q) : <<k-1, q[i]-1>> \in Declared(im) /\ c[i] = ImportAt(im, <<k-1, q[i]-1>>)
    /\ \A p \in Declared(im) : p[1] = k - 1 => \E i \in 1..Len(q) : q[i] - 1 = p[2]

\* What is declared, in terms of the lengths that the walks go.
LEMMA DeclaredIs ==
    ASSUME NEW im, NEW k \in Nat, NEW t \in Nat, k >= 1, t >= 1, TableAt(im) # 0, data_directory(im) # 0
    PROVE  LET d == AtDescriptor(im, k)
               o == thunk_offset(im, d)
           IN  /\ <<k-1, t-1>> \in Declared(im) <=>
                     /\ k - 1 < RunLength(im, TableAt(im), Empty)
                     /\ dll_name(im, d) # <<"truncated">> /\ o # 0
                     /\ t - 1 < RunLength(im, o, <<"zero">>)
                     /\ resolve_thunk(im, Cell(im, o + (t-1))) # <<"truncated">>
               /\ ImportAt(im, <<k-1, t-1>>) = <<dll_name(im, d), resolve_thunk(im, Cell(im, o + (t-1)))>>
<1> DEFINE d == AtDescriptor(im, k)
           o == thunk_offset(im, d)
           p == <<k-1, t-1>>
<1>0. MaxWalk \in Nat /\ k - 1 \in Nat /\ t - 1 \in Nat
    BY ImagesAssumption
<1>1. p[1] = k - 1 /\ p[2] = t - 1
    OBVIOUS
<1>2. Descriptor(im, p) = d
    BY <1>1 DEF Descriptor, AtDescriptor, TableAt
<1>3. Thunk(im, p) = Cell(im, o + (t-1))
    BY <1>1, <1>2 DEF Thunk
<1>4. p \in ImportPlaces <=> k - 1 < MaxWalk /\ t - 1 < MaxWalk
    BY <1>0 DEF ImportPlaces
<1>5. k - 1 < RunLength(im, TableAt(im), Empty) <=> k - 1 < MaxWalk /\ Within(im, TableAt(im), k - 1, Empty)
    BY <1>0, RunLengthIs
<1>6. t - 1 < RunLength(im, o, <<"zero">>) <=> t - 1 < MaxWalk /\ Within(im, o, t - 1, <<"zero">>)
    BY <1>0, RunLengthIs
<1> HIDE DEF p, o, d
<1>7. p \in Declared(im) <=>
        /\ p \in ImportPlaces
        /\ Within(im, TableAt(im), k - 1, Empty)
        /\ dll_name(im, d) # <<"truncated">>
        /\ o # 0
        /\ Within(im, o, t - 1, <<"zero">>)
        /\ resolve_thunk(im, Cell(im, o + (t-1))) # <<"truncated">>
    BY <1>1, <1>2, <1>3 DEF Declared, TableAt, ImportPlaces, o
<1>8. ImportAt(im, p) = <<dll_name(im, d), resolve_thunk(im, Cell(im, o + (t-1)))>>
    BY <1>2, <1>3 DEF ImportAt
<1> QED
    BY <1>4, <1>5, <1>6, <1>7, <1>8 DEF p, o, d

\* A place is made of two numbers.
LEMMA PlaceOf ==
    ASSUME NEW im, NEW p \in Declared(im)
    PROVE  p[1] \in Nat /\ p[2] \in Nat /\ p = <<p[1], p[2]>> /\ p[1] < MaxWalk /\ p[2] < MaxWalk
<1>1. p \in (0..MaxWalk-1) \X (0..MaxWalk-1) /\ MaxWalk \in Nat
    BY ImagesAssumption DEF Declared
<1> QED
    BY <1>1

\* A descriptor gives what is declared for its DLL, in the order of its thunks.
LEMMA DescriptorPiece ==
    ASSUME NEW im, TableAt(im) # 0, data_directory(im) # 0,
           NEW k \in 1..RunLength(im, TableAt(im), Empty)
    PROVE  ImportsOf(im, k) \in Seq(AllImports(im)) /\ \E q : FromThunks(im, k, ImportsOf(im, k), q)
<1> DEFINE d == AtDescriptor(im, k)
           o == thunk_offset(im, d)
           dll == dll_name(im, d)
           c == ImportsOf(im, k)
           R == RunLength(im, o, <<"zero">>)
           sym(t) == resolve_thunk(im, Cell(im, o + (t-1)))
           bad == <<"truncated">>
<1>0. /\ MaxWalk \in Nat /\ RunLength(im, TableAt(im), Empty) \in 0..MaxWalk /\ R \in 0..MaxWalk
    BY ImagesAssumption, RunLengthIs
<1>1. k \in Nat /\ k >= 1 /\ k - 1 < RunLength(im, TableAt(im), Empty) /\ k - 1 \in 0..MaxWalk-1
    BY <1>0
<1>2. ASSUME NEW t \in Nat, t >= 1
      PROVE  /\ <<k-1, t-1>> \in Declared(im) <=> dll # bad /\ o # 0 /\ t - 1 < R /\ sym(t) # bad
             /\ ImportAt(im, <<k-1, t-1>>) = <<dll, sym(t)>>
    BY <1>1, <1>2, DeclaredIs
<1>3. c = IF dll = bad \/ o = 0 THEN <<>> ELSE walk_thunks(im, o, dll)
    BY DEF ImportsOf
<1> HIDE DEF d, o, dll, c, R, bad, sym
<1>4. ASSUME NEW p \in Declared(im), p[1] = k - 1
      PROVE  /\ p[2] + 1 \in Nat /\ p[2] + 1 >= 1 /\ (p[2] + 1) - 1 = p[2]
             /\ dll # bad /\ o # 0 /\ p[2] < R /\ sym(p[2] + 1) # bad
    <2>1. p[2] \in Nat /\ p = <<k-1, p[2]>>
        BY <1>4, PlaceOf
    <2>2. p[2] + 1 \in Nat /\ p[2] + 1 >= 1 /\ (p[2] + 1) - 1 = p[2]
        BY <2>1
    <2>3. p = <<k-1, (p[2] + 1) - 1>>
        BY <2>1, <2>2
    <2>4. <<k-1, (p[2] + 1) - 1>> \in Declared(im)
        BY <2>3
    <2>5. dll # bad /\ o # 0 /\ (p[2] + 1) - 1 < R /\ sym(p[2] + 1) # bad
        BY <1>2, <2>2, <2>4
    <2> QED
        BY <2>2, <2>5
<1>5. CASE dll = bad \/ o = 0
    <2> DEFINE X == AllImports(im)
    <2>1. c = <<>>
        BY <1>3, <1>5
    <2> HIDE DEF X
    <2>2. c \in Seq(X) /\ Len(c) = 0
        BY <2>1
    <2>3. \A p \in Declared(im) : p[1] # k - 1
        BY <1>4, <1>5
    <2>4. c \in Seq(1..MaxWalk) /\ Increasing(c)
        BY <2>1 DEF Increasing
    <2>5. FromThunks(im, k, c, c)
        BY <2>2, <2>3, <2>4 DEF FromThunks
    <2> QED
        BY <2>2, <2>5 DEF X, c
<1>6. CASE ~(dll = bad \/ o = 0)
    <2> DEFINE all == [t \in 1..R |-> <<dll, sym(t)>>]
               S == {t \in 1..R : sym(t) # bad}
               X == AllImports(im)
               q == InOrder(S)
    <2>1. c = AtPlaces(all, S)
        <3>1. c = walk_thunks(im, o, dll)
            BY <1>3, <1>6
        <3>2. {t \in DOMAIN all : all[t][2] # bad} = S
            OBVIOUS
        <3>3. walk_thunks(im, o, dll) = AtPlaces(all, {t \in DOMAIN all : all[t][2] # bad})
            BY DEF walk_thunks, R, sym, bad
        <3> QED
            BY <3>1, <3>2, <3>3
    <2>2. ASSUME NEW t \in 1..R
          PROVE  /\ t \in Nat /\ t >= 1 /\ t - 1 < R /\ t \in 1..MaxWalk
                 /\ all[t] = ImportAt(im, <<k-1, t-1>>) /\ all[t] \in X
        <3>1. t \in Nat /\ t >= 1 /\ t - 1 < R /\ t - 1 \in 0..MaxWalk-1 /\ t \in 1..MaxWalk
            BY <1>0
        <3>2. all[t] = ImportAt(im, <<k-1, t-1>>)
            BY <1>2, <3>1
        <3>3. <<k-1, t-1>> \in ImportPlaces
            BY <1>1, <3>1 DEF ImportPlaces
        <3> QED
            BY <3>1, <3>2, <3>3 DEF AllImports
    <2> HIDE DEF X
    <2>3. all \in Seq(X) /\ Len(all) = R /\ S \in SUBSET (1..R)
        <3>1. R \in Nat
            BY <1>0
        <3>2. all \in [1..R -> X]
            BY <2>2
        <3> QED
            BY <3>1, <3>2
    <2> HIDE DEF all
    <2>4. /\ q \in Seq(S) /\ Increasing(q)
          /\ \A t \in S : \E i \in 1..Len(q) : q[i] = t
          /\ c \in Seq(X) /\ Len(c) = Len(q)
          /\ \A i \in 1..Len(q) : q[i] \in S /\ c[i] = all[q[i]]
        <3> HIDE DEF S
        <3> QED
            BY <2>1, <2>3, Picked
    <2> HIDE DEF q
    <2>5. q \in Seq(1..MaxWalk)
        <3>1. \A t \in S : t \in 1..MaxWalk
            BY <2>2
        <3> HIDE DEF S
        <3>2. S \subseteq 1..MaxWalk
            BY <3>1
        <3> DEFINE W == 1..MaxWalk
        <3> HIDE DEF W
        <3>3. q \in Seq(S) /\ S \subseteq W
            BY <2>4, <3>2 DEF W
        <3>4. q \in [1..Len(q) -> W] /\ Len(q) \in Nat
            BY <3>3
        <3>5. q \in Seq(W)
            BY <3>4
        <3> QED
            BY <3>5 DEF W
    <2>6. ASSUME NEW i \in 1..Len(q)
          PROVE  <<k-1, q[i]-1>> \in Declared(im) /\ c[i] = ImportAt(im, <<k-1, q[i]-1>>)
        <3>1. q[i] \in 1..R /\ sym(q[i]) # bad /\ c[i] = all[q[i]]
            BY <2>4
        <3>2. /\ q[i] \in Nat /\ q[i] >= 1 /\ q[i] - 1 < R
              /\ all[q[i]] = ImportAt(im, <<k-1, q[i]-1>>)
            BY <2>2, <3>1
        <3> QED
            BY <1>2, <1>6, <3>1, <3>2
    <2>7. ASSUME NEW p \in Declared(im), p[1] = k - 1
          PROVE  \E i \in 1..Len(q) : q[i] - 1 = p[2]
        <3>1. p[2] + 1 \in S /\ p[2] + 1 - 1 = p[2]
            <4>1. /\ p[2] + 1 \in Nat /\ p[2] + 1 >= 1 /\ (p[2] + 1) - 1 = p[2]
                  /\ p[2] < R /\ sym(p[2] + 1) # bad /\ p[2] \in Nat
                BY <1>4, <2>7, PlaceOf
            <4>2. p[2] + 1 \in 1..R
                BY <1>0, <4>1
            <4> QED
                BY <4>1, <4>2
        <3>2. PICK i \in 1..Len(q) : q[i] = p[2] + 1
            BY <2>4, <3>1
        <3> DEFINE b == p[2]
                   y == q[i]
        <3>3. b \in Nat /\ y = b + 1
            BY <3>2, PlaceOf
        <3> HIDE DEF b, y
        <3>4. y - 1 = b
            BY <3>3
        <3> QED
            BY <3>4 DEF b, y
    <2> HIDE DEF S
    <2>8. FromThunks(im, k, c, q)
        BY <2>4, <2>5, <2>6, <2>7 DEF FromThunks
    <2> QED
        BY <2>4, <2>8 DEF X, c
<1> QED
    BY <1>5, <1>6

\* parse_imports lists what an image declares.
LEMMA ImportsInOrder ==
    ASSUME NEW im
    PROVE  parse_imports(im) \in Seq(AllImports(im)) /\ InTableOrder(im, parse_imports(im))
<1> DEFINE X == AllImports(im)
           R == RunLength(im, TableAt(im), Empty)
           l == [k \in 1..R |-> ImportsOf(im, k)]
           c == parse_imports(im)
<1>0. R \in Nat
    BY RunLengthIs, ImagesAssumption
<1>1. CASE data_directory(im) = 0 \/ TableAt(im) = 0
    <2>1. c = <<>>
        BY <1>1 DEF parse_imports, TableAt
    <2>2. Declared(im) = {}
        BY <1>1 DEF Declared, TableAt
    <2> HIDE DEF X, c
    <2>3. c \in Seq(X) /\ DOMAIN c = {}
        BY <2>1
    <2>4. c \in [DOMAIN c -> Declared(im)]
        BY <2>1, <2>2, <2>3
    <2>5. InTableOrder(im, c)
        BY <2>2, <2>3, <2>4 DEF InTableOrder
    <2> QED
        BY <2>3, <2>5 DEF X, c
<1>2. CASE ~(data_directory(im) = 0 \/ TableAt(im) = 0)
    <2>1. c = Concat(l)
        BY <1>2 DEF parse_imports, TableAt, ImportsOf, AtDescriptor
    <2> DEFINE q == [k \in 1..R |-> CHOOSE q : FromThunks(im, k, ImportsOf(im, k), q)]
    <2>2. ASSUME NEW k \in 1..R
          PROVE  l[k] \in Seq(X) /\ FromThunks(im, k, l[k], q[k])
        <3>1. ImportsOf(im, k) \in Seq(X) /\ \E x : FromThunks(im, k, ImportsOf(im, k), x)
            BY <1>2, DescriptorPiece
        <3> QED
            BY <3>1
    <2> HIDE DEF X, q
    <2>3. l \in Seq(Seq(X)) /\ Len(l) = R
        <3> DEFINE Y == Seq(X)
        <3> HIDE DEF Y
        <3>1. \A k \in 1..R : ImportsOf(im, k) \in Y
            BY <2>2 DEF Y
        <3>2. l \in Seq(Y) /\ Len(l) = R
            BY <1>0, <3>1
        <3> QED
            BY <3>2 DEF Y
    <2> HIDE DEF l, c
    <2>4. c \in Seq(X) /\ \E pn, ix : Members(l, c, pn, ix)
        BY <2>1, <2>3, ConcatMembers
    <2>5. PICK pn, ix : Members(l, c, pn, ix)
        BY <2>4
    <2>6. /\ pn \in [1..Len(c) -> 1..R] /\ ix \in [1..Len(c) -> Nat]
          /\ \A i \in 1..Len(c) : ix[i] \in 1..Len(l[pn[i]]) /\ c[i] = l[pn[i]][ix[i]]
          /\ \A n \in 1..R : \A j \in 1..Len(l[n]) : \E i \in 1..Len(c) : pn[i] = n /\ ix[i] = j
          /\ \A i, k \in 1..Len(c) : i < k => pn[i] < pn[k] \/ (pn[i] = pn[k] /\ ix[i] < ix[k])
        BY <2>3, <2>5 DEF Members
    <2> DEFINE p(i) == <<pn[i] - 1, q[pn[i]][ix[i]] - 1>>
    <2>7. ASSUME NEW n \in 1..R
          PROVE  /\ Len(l[n]) = Len(q[n]) /\ Len(q[n]) \in Nat /\ Increasing(q[n])
                 /\ \A j \in 1..Len(q[n]) :
                       /\ q[n][j] \in Nat /\ <<n-1, q[n][j]-1>> \in Declared(im)
                       /\ l[n][j] = ImportAt(im, <<n-1, q[n][j]-1>>)
                 /\ \A x \in Declared(im) : x[1] = n - 1 => \E j \in 1..Len(q[n]) : q[n][j] - 1 = x[2]
        <3>1. FromThunks(im, n, l[n], q[n])
            BY <2>2
        <3>2. q[n] \in Seq(1..MaxWalk)
            BY <3>1 DEF FromThunks
        <3>3. Len(q[n]) \in Nat /\ \A j \in 1..Len(q[n]) : q[n][j] \in Nat
            <4> DEFINE W == 1..MaxWalk
                       y == q[n]
            <4>1. \A w \in W : w \in Nat
                OBVIOUS
            <4>2. y \in Seq(W)
                BY <3>2
            <4> HIDE DEF W, y
            <4>3. Len(y) \in Nat /\ \A j \in 1..Len(y) : y[j] \in W
                BY <4>2
            <4> QED
                BY <4>1, <4>3 DEF y
        <3> QED
            BY <3>1, <3>3 DEF FromThunks
    <2>8. ASSUME NEW i \in 1..Len(c)
          PROVE  /\ pn[i] \in 1..R /\ ix[i] \in 1..Len(q[pn[i]]) /\ q[pn[i]][ix[i]] \in Nat
                 /\ p(i) \in Declared(im) /\ c[i] = ImportAt(im, p(i))
        <3>1. pn[i] \in 1..R /\ ix[i] \in 1..Len(l[pn[i]]) /\ c[i] = l[pn[i]][ix[i]]
            BY <2>6
        <3> QED
            BY <2>7, <3>1
    <2>9. ASSUME NEW x \in Declared(im)
          PROVE  \E i \in 1..Len(c) : p(i) = x
        <3>1. x[1] \in Nat /\ x[2] \in Nat /\ x = <<x[1], x[2]>>
            BY PlaceOf
        <3>2. x[1] + 1 \in 1..R /\ (x[1] + 1) - 1 = x[1]
            <4>1. x[1] < MaxWalk /\ Within(im, TableAt(im), x[1], Empty)
                BY PlaceOf DEF Declared, TableAt
            <4>2. x[1] < R
                BY <3>1, <4>1, RunLengthIs
            <4> HIDE DEF R
            <4> QED
                BY <1>0, <3>1, <4>2
        <3> DEFINE n == x[1] + 1
        <3>3. n \in 1..R /\ n - 1 = x[1]
            BY <3>2
        <3> HIDE DEF n
        <3>4. PICK j \in 1..Len(q[n]) : q[n][j] - 1 = x[2]
            BY <2>7, <3>3
        <3>5. j \in 1..Len(l[n])
            BY <2>7, <3>3
        <3>6. PICK i \in 1..Len(c) : pn[i] = n /\ ix[i] = j
            BY <2>6, <3>3, <3>5
        <3>7. p(i) = <<x[1], x[2]>>
            BY <3>3, <3>4, <3>6
        <3> QED
            BY <3>1, <3>7
    <2>10. ASSUME NEW i \in 1..Len(c), NEW k \in 1..Len(c), i < k
           PROVE  pn[i] - 1 < pn[k] - 1 \/ (pn[i] - 1 = pn[k] - 1 /\ q[pn[i]][ix[i]] - 1 < q[pn[k]][ix[k]] - 1)
        <3>1. pn[i] < pn[k] \/ (pn[i] = pn[k] /\ ix[i] < ix[k])
            BY <2>6, <2>10
        <3>2. /\ pn[i] \in Nat /\ pn[k] \in Nat /\ q[pn[i]][ix[i]] \in Nat /\ q[pn[k]][ix[k]] \in Nat
            <4>1. pn[i] \in 1..R /\ pn[k] \in 1..R /\ q[pn[i]][ix[i]] \in Nat /\ q[pn[k]][ix[k]] \in Nat
                BY <2>8
            <4> HIDE DEF R
            <4> QED
                BY <4>1
        <3>3. CASE pn[i] < pn[k]
            BY <3>2, <3>3
        <3>4. CASE pn[i] = pn[k] /\ ix[i] < ix[k]
            <4>1. Increasing(q[pn[i]]) /\ ix[i] \in 1..Len(q[pn[i]]) /\ ix[k] \in 1..Len(q[pn[i]])
                BY <2>7, <2>8, <3>4
            <4>2. q[pn[i]][ix[i]] < q[pn[i]][ix[k]]
                BY <3>4, <4>1 DEF Increasing
            <4> QED
                BY <3>2, <3>4, <4>2
        <3> QED
            BY <3>1, <3>3, <3>4
    <2> DEFINE place == [i \in 1..Len(c) |-> p(i)]
    <2>11. DOMAIN c = 1..Len(c)
        BY <2>4
    <2>12. place \in [1..Len(c) -> Declared(im)]
        BY <2>8
    <2>13. \A i \in 1..Len(c) : place[i] = p(i) /\ place[i][1] = pn[i] - 1 /\ place[i][2] = q[pn[i]][ix[i]] - 1
        OBVIOUS
    <2> HIDE DEF place, p
    <2>14. /\ \A x \in Declared(im) : \E i \in 1..Len(c) : place[i] = x
           /\ \A i \in 1..Len(c) : c[i] = ImportAt(im, place[i])
        <3>1. ASSUME NEW i \in 1..Len(c)
              PROVE  c[i] = ImportAt(im, place[i])
            <4>1. place[i] = p(i) /\ c[i] = ImportAt(im, p(i))
                BY <2>8, <2>13
            <4> QED
                BY <4>1
        <3>2. ASSUME NEW x \in Declared(im)
              PROVE  \E i \in 1..Len(c) : place[i] = x
            <4>1. PICK i \in 1..Len(c) : p(i) = x
                BY <2>9
            <4> QED
                BY <2>13, <4>1
        <3> QED
            BY <3>1, <3>2
    <2>15. \A i, k \in 1..Len(c) : i < k =>
              place[i][1] < place[k][1] \/ (place[i][1] = place[k][1] /\ place[i][2] < place[k][2])
        BY <2>10, <2>13
    <2>16. InTableOrder(im, c)
        BY <2>11, <2>12, <2>14, <2>15 DEF InTableOrder
    <2> QED
        BY <2>4, <2>16 DEF X, c
<1> QED
    BY <1>1, <1>2

\* Every DLL is named once (dedup_dll_names).
LEMMA NamesOnce ==
    ASSUME NEW X, NEW s \in Seq(X)
    PROVE  NamedOnce(s, dedup_dll_names(s))
<1> DEFINE first == {k \in DOMAIN s : \A j \in 1..(k-1) : s[j][1] # s[k][1]}
           names == [k \in DOMAIN s |-> s[k][1]]
           Y == {s[k][1] : k \in DOMAIN s}
           d == AtPlaces(names, first)
           q == InOrder(first)
<1>1. d = dedup_dll_names(s)
    BY DEF dedup_dll_names
<1>2. Len(s) \in Nat /\ DOMAIN s = 1..Len(s)
    OBVIOUS
<1>3. names \in Seq(Y) /\ Len(names) = Len(s)
    <2>1. names \in [1..Len(s) -> Y]
        BY <1>2
    <2> HIDE DEF Y, names
    <2> QED
        BY <1>2, <2>1
<1>4. first \in SUBSET (1..Len(s))
    BY <1>2
<1> HIDE DEF Y, names
<1>5. /\ q \in Seq(first) /\ Increasing(q)
      /\ \A k \in first : \E i \in 1..Len(q) : q[i] = k
      /\ d \in Seq(Y) /\ Len(d) = Len(q)
      /\ \A i \in 1..Len(q) : q[i] \in first /\ d[i] = names[q[i]]
    <2> HIDE DEF first
    <2>1. first \in SUBSET (1..Len(names))
        BY <1>3, <1>4
    <2>2. names \in Seq(Y)
        BY <1>3
    <2> QED
        BY <2>1, <2>2, Picked, Zenon
<1> HIDE DEF q, d
<1>6. DOMAIN d = 1..Len(q) /\ Len(q) \in Nat
    BY <1>5
<1>7. ASSUME NEW n \in 1..Len(q)
      PROVE  /\ q[n] \in 1..Len(s) /\ d[n] = s[q[n]][1]
             /\ \A j \in 1..(q[n]-1) : s[j][1] # s[q[n]][1]
    BY <1>2, <1>5 DEF names
<1>8. ASSUME NEW i \in DOMAIN s
      PROVE  \E k \in first : s[k][1] = s[i][1]
    <2> DEFINE same == {k \in 1..Len(s) : s[k][1] = s[i][1]}
    <2>1. same \in SUBSET Nat /\ i \in same
        BY <1>2
    <2>2. PICK k \in same : \A j \in same : k <= j
        <3> HIDE DEF same
        <3> QED
            BY <2>1, NatMin
    <2>3. ASSUME NEW j \in 1..(k-1)
          PROVE  s[j][1] # s[k][1]
        <3>1. j \in 1..Len(s) /\ j < k
            BY <1>2
        <3> QED
            BY <2>2, <3>1
    <2> QED
        BY <1>2, <2>2, <2>3
<1>9. ASSUME NEW m \in 1..Len(q), NEW n \in 1..Len(q), d[m] = d[n], m < n
      PROVE  FALSE
    <2>1. q[m] < q[n]
        BY <1>5, <1>9 DEF Increasing
    <2>2. q[m] \in 1..Len(s) /\ q[n] \in 1..Len(s) /\ s[q[m]][1] = s[q[n]][1]
        BY <1>7, <1>9
    <2>3. q[m] \in 1..(q[n]-1)
        BY <1>2, <2>1, <2>2
    <2> QED
        BY <1>7, <2>2, <2>3
<1>10. ASSUME NEW i \in DOMAIN s
       PROVE  \E n \in DOMAIN d : d[n] = s[i][1] /\ \A m \in DOMAIN d : d[m] = d[n] => m = n
    <2>1. PICK k \in first : s[k][1] = s[i][1]
        BY <1>8
    <2>2. PICK n \in 1..Len(q) : q[n] = k
        BY <1>5
    <2>3. d[n] = s[i][1]
        BY <1>7, <2>1, <2>2
    <2>4. ASSUME NEW m \in 1..Len(q), d[m] = d[n]
          PROVE  m = n
        <3>1. ~(m < n) /\ ~(n < m)
            BY <1>9, <2>4
        <3> QED
            BY <1>6, <3>1
    <2> QED
        BY <1>6, <2>3, <2>4
<1> QED
    BY <1>1, <1>10 DEF NamedOnce

\* There are as many values of a width as its bits have subsets.
LEMMA WidthPower == 2^Width \in Nat
<1>1. Width \in Nat
    BY ImagesAssumption
<1>2. IsFiniteSet(1..Width) /\ Cardinality(1..Width) = Width
    BY <1>1, FS_Interval
<1>3. IsFiniteSet(SUBSET (1..Width)) /\ Cardinality(SUBSET (1..Width)) = 2^Width
    BY <1>2, FS_SUBSET
<1> QED
    BY <1>3, FS_CardinalityType

\* rva_to_offset finds an address where the sections have it.
LEMMA SectionsFound ==
    ASSUME NEW im \in Images
    PROVE  SectionsFaithful(im)
<1> DEFINE M == 2^Width
           secs == im.sections
           size(k) == SectionSize(secs[k])
           fits(k) == secs[k].va + size(k) < M
           has(k, rva) == secs[k].va <= rva /\ rva < secs[k].va + size(k)
           test(k, rva) == rva >= secs[k].va /\ rva < Saturating(secs[k].va, size(k))
           offset(k, rva) == (secs[k].raw + (rva - secs[k].va)) % M
           found(rva) == {k \in 1..Len(secs) : test(k, rva)}
<1>1. M \in Nat
    BY WidthPower
<1>2. Len(secs) \in Nat /\ DOMAIN secs = 1..Len(secs)
    BY ImagesAssumption
<1>3. ASSUME NEW k \in 1..Len(secs)
      PROVE  secs[k].va \in Nat /\ size(k) \in Nat
    <2>1. secs[k] \in [va : Nat, vsize : Nat, raw : Nat, rsize : Nat]
        <3> DEFINE W == [va : Nat, vsize : Nat, raw : Nat, rsize : Nat]
        <3>1. secs \in Seq(W)
            BY ImagesAssumption
        <3> HIDE DEF W, secs
        <3>2. secs[k] \in W
            BY <1>3, <3>1
        <3> QED
            BY <3>2 DEF W
    <2> QED
        BY <2>1 DEF SectionSize, Larger
<1>4. \A rva : SectionOf(im, rva) = IF found(rva) # {} THEN Min(found(rva)) ELSE 0
    BY DEF SectionOf, SelectInSeq
<1> HIDE DEF M, secs
<1>5. SUFFICES ASSUME NEW rva \in 1..(M-1), \A k \in 1..Len(secs) : fits(k)
               PROVE  /\ \A k \in 1..Len(secs) :
                            has(k, rva) /\ (\A j \in 1..Len(secs) : has(j, rva) => j = k) =>
                                rva_to_offset(im, rva) = offset(k, rva)
                      /\ (\A k \in 1..Len(secs) : ~has(k, rva)) => rva_to_offset(im, rva) = 0
    BY <1>2 DEF SectionsFaithful, M, secs
<1>6. rva \in Nat /\ rva # 0
    BY <1>1
<1>7. ASSUME NEW k \in 1..Len(secs)
      PROVE  test(k, rva) <=> has(k, rva)
    <2> DEFINE va == secs[k].va
               z == size(k)
    <2>1. va \in Nat /\ z \in Nat /\ va + z < M
        BY <1>3, <1>5
    <2> HIDE DEF va, z
    <2>2. rva < Saturating(va, z) <=> rva < va + z
        <3>1. Saturating(va, z) = va + z
            BY <1>1, <2>1 DEF Saturating, Least, M
        <3> QED
            BY <3>1
    <2>3. rva >= va <=> va <= rva
        BY <1>6, <2>1
    <2> QED
        BY <2>2, <2>3 DEF va, z
<1>8. rva_to_offset(im, rva) = LET k == SectionOf(im, rva) IN IF k = 0 THEN 0 ELSE offset(k, rva)
    BY <1>6 DEF rva_to_offset, M, secs
<1> HIDE DEF has, test, offset, fits
<1>9. ASSUME NEW k \in 1..Len(secs), has(k, rva), \A j \in 1..Len(secs) : has(j, rva) => j = k
      PROVE  rva_to_offset(im, rva) = offset(k, rva)
    <2>1. found(rva) = {k}
        BY <1>7, <1>9
    <2>2. Min({k}) = k
        BY DEF Min
    <2>3. SectionOf(im, rva) = k /\ k # 0
        BY <1>2, <1>4, <2>1, <2>2
    <2> QED
        BY <1>8, <2>3
<1>10. ASSUME \A k \in 1..Len(secs) : ~has(k, rva)
       PROVE  rva_to_offset(im, rva) = 0
    <2>1. found(rva) = {}
        BY <1>7, <1>10
    <2> QED
        BY <1>4, <1>8, <2>1
<1> QED
    BY <1>9, <1>10

\* An executable that is looked at is one of the given ones, so what is found
\* in it is what it declares: every conjunct is about the image alone.
LEMMA ImageFaithful ==
    ASSUME image \in Images
    PROVE  ImportsFaithful
<1> DEFINE a == analyze_pe_bytes(image)
<1>1. Len(Headers) = 5 /\ image.headers \in 0..5
    BY ImagesAssumption DEF Headers
<1>2. a.ok <=> image.headers = 5
    BY <1>1 DEF analyze_pe_bytes, parse
<1>3. a.ok => a.imports = parse_imports(image) /\ a.dlls = dedup_dll_names(parse_imports(image))
    BY DEF analyze_pe_bytes
<1>4. InTableOrder(image, parse_imports(image))
    BY ImportsInOrder
<1>5. NamedOnce(parse_imports(image), dedup_dll_names(parse_imports(image)))
    BY ImportsInOrder, NamesOnce
<1>6. SectionsFaithful(image)
    BY SectionsFound
<1> HIDE DEF a
<1>7. ~a.ok <=> image.headers < Len(Headers)
    BY <1>1, <1>2
<1> QED
    BY <1>3, <1>4, <1>5, <1>6, <1>7 DEF ImportsFaithful, a

\* A raw copy is the file, and an analysis finds the imports an executable
\* declares (RawFile::read, analyze_pe_bytes).
THEOREM FilesAreFaithful == FileSpec => []FilesFaithful
<1>1. FileInit => image \in Images
    BY DEF FileInit
<1>2. image \in Images /\ [FileNext]_fileVars => (image \in Images)'
    BY DEF FileNext, fileVars, Swap, OtherFile, OpenRoot, OpenNext, CreateFile, Write,
           DeleteFile, RawOpen, RawRead, RawEnd, analyze_pe_file
<1>3. image \in Images => ImportsFaithful
    BY ImageFaithful
<1>4. FilesFaithful <=> CopyFaithful /\ ImportsFaithful
    BY DEF FilesFaithful
<1> QED
    BY <1>1, <1>2, <1>3, <1>4, CopiesAreFaithful, PTL DEF FileSpec

-----------------------------------------------------------------------------
(* The read of the proxy settings.                                         *)

SettingsType ==
    /\ settings \in [Hives -> HiveSettings]
    /\ reader \in [at : 0..6, hive : Hives, enable : BOOLEAN,
                   server : Servers \cup {NoValue}, detect : BOOLEAN, url : BOOLEAN]

\* During a read, until something has left the hive without a server, the proxy
\* is on only with one.  A read that has seen the switch on finds a server when
\* it comes to it, though the proxy may be off again by then.
ReadInv ==
    /\ SettingsType
    /\ reader.at >= 1 /\ gap = {} =>
          /\ ~Bare(settings[reader.hive])
          /\ reader.at >= 2 /\ reader.enable => Given(settings[reader.hive].server)
          /\ reader.at >= 3 /\ reader.enable => reader.server # NoValue
    /\ EnabledHasServer

LEMMA ReadBegins ==
    ASSUME ProxyInit
    PROVE  ReadInv
BY DEF ProxyInit, ReadInv, SettingsType, EnabledHasServer, NotReading, Hives

\* The user changes one value: what leaves the hive without a server is noted.
LEMMA EditKeepsServer ==
    ASSUME ReadInv, NEW h \in Hives, Edit(h)
    PROVE  ReadInv'
<1>1. settings \in [Hives -> HiveSettings] /\ reader.hive \in Hives /\ UNCHANGED <<reader, answer>>
    BY DEF Edit, ReadInv, SettingsType
<1>2. PICK t \in HiveSettings : settings' = [settings EXCEPT ![h] = t]
    <2>1. ASSUME NEW s \in Servers \cup {NoValue}, settings' = [settings EXCEPT ![h].server = s]
          PROVE  \E t \in HiveSettings : settings' = [settings EXCEPT ![h] = t]
        <3>1. [settings[h] EXCEPT !.server = s] \in HiveSettings
            BY <1>1 DEF HiveSettings
        <3> QED
            BY <2>1, <3>1
    <2>2. CASE settings' = [settings EXCEPT ![h].enable = ~@]
        <3>1. [settings[h] EXCEPT !.enable = ~@] \in HiveSettings
            BY <1>1 DEF HiveSettings
        <3> QED
            BY <2>2, <3>1
    <2>3. CASE settings' = [settings EXCEPT ![h].detect = ~@]
        <3>1. [settings[h] EXCEPT !.detect = ~@] \in HiveSettings
            BY <1>1 DEF HiveSettings
        <3> QED
            BY <2>3, <3>1
    <2>4. CASE settings' = [settings EXCEPT ![h].url = ~@]
        <3>1. [settings[h] EXCEPT !.url = ~@] \in HiveSettings
            BY <1>1 DEF HiveSettings
        <3> QED
            BY <2>4, <3>1
    <2> QED
        BY <2>1, <2>2, <2>3, <2>4 DEF Edit
<1>3. settings' \in [Hives -> HiveSettings] /\ settings'[h] = t
    BY <1>1, <1>2
<1>4. gap' = {} => gap = {}
    BY DEF Edit
<1>5. CASE h # reader.hive
    <2>1. settings'[reader.hive] = settings[reader.hive] /\ gap' = gap
        BY <1>1, <1>2, <1>5 DEF Edit
    <2> QED
        BY <1>1, <1>3, <2>1 DEF ReadInv, SettingsType, EnabledHasServer
<1>6. CASE h = reader.hive
    <2>1. ASSUME reader.at >= 1, gap' = {}
          PROVE  ~Bare(t) /\ (Given(settings[h].server) => Given(t.server))
        <3>1. reader.at # 0
            BY <2>1
        <3>2. gap' = gap \union GapOf(settings[h], t)
            BY <1>3, <1>6, <3>1 DEF Edit
        <3>3. "bare" \notin GapOf(settings[h], t) /\ "taken" \notin GapOf(settings[h], t)
            BY <2>1, <3>2
        <3> QED
            BY <3>3 DEF GapOf
    <2>2. EnabledHasServer'
        BY <1>1, <1>4 DEF ReadInv, EnabledHasServer
    <2>3. reader.at >= 1 /\ gap' = {} =>
              /\ ~Bare(settings'[reader.hive])
              /\ reader.at >= 2 /\ reader.enable => Given(settings'[reader.hive].server)
              /\ reader.at >= 3 /\ reader.enable => reader.server # NoValue
        BY <1>3, <1>4, <1>6, <2>1 DEF ReadInv
    <2> QED
        BY <1>1, <1>3, <2>2, <2>3 DEF ReadInv, SettingsType
<1> QED
    BY <1>5, <1>6

LEMMA BeginKeepsServer ==
    ASSUME ReadInv, BeginRead \/ get_effective_proxy
    PROVE  ReadInv'
<1>1. use_user_proxy_settings \in Hives
    BY DEF use_user_proxy_settings, Hives
<1>2. UNCHANGED settings
    BY DEF BeginRead, get_effective_proxy
<1>3. ASSUME NEW h \in Hives, Begin(h)
      PROVE  ReadInv'
    <2>1. reader' = [at |-> 1, hive |-> h, enable |-> FALSE, server |-> NoValue,
                     detect |-> FALSE, url |-> FALSE]
        BY <1>3 DEF NotReading, Begin
    <2>2. gap' = {} => ~Bare(settings[h])
        <3>1. gap' = {g \in {"bare"} : Bare(settings[h])}
            BY <1>3 DEF Begin
        <3> QED
            BY <3>1
    <2>3. EnabledHasServer'
        BY <1>3 DEF Begin, EnabledHasServer
    <2> QED
        BY <1>2, <2>1, <2>2, <2>3 DEF ReadInv, SettingsType
<1>4. CASE answer' = "RegistryError" /\ UNCHANGED <<reader, gap>>
    BY <1>2, <1>4 DEF ReadInv, SettingsType, EnabledHasServer
<1> QED
    BY <1>1, <1>3, <1>4 DEF BeginRead, get_effective_proxy

\* One value is read after the other, the switch before the server.
LEMMA ReadKeepsServer ==
    ASSUME ReadInv, read_optional
    PROVE  ReadInv'
<1>0. UNCHANGED <<settings, gap>> /\ reader.at \in 1..5
    BY DEF read_optional, ReadOrder
<1>1. CASE reader' = NotReading /\ answer' = "RegistryError"
    BY <1>0, <1>1 DEF ReadInv, SettingsType, NotReading, EnabledHasServer, Hives
<1>2. CASE reader' = [Seen(ReadOrder[reader.at]) EXCEPT !.at = @ + 1] /\ UNCHANGED answer
    <2> DEFINE s == settings[reader.hive]
               V == Servers \cup {NoValue}
               Read(a, e, v, d, u) == [at |-> a, hive |-> reader.hive, enable |-> e, server |-> v,
                                       detect |-> d, url |-> u]
    <2>1. /\ reader.hive \in Hives /\ s \in HiveSettings
          /\ reader.enable \in BOOLEAN /\ reader.server \in V /\ reader.detect \in BOOLEAN /\ reader.url \in BOOLEAN
          /\ reader = Read(reader.at, reader.enable, reader.server, reader.detect, reader.url)
        BY DEF ReadInv, SettingsType
    <2>2. s.enable \in BOOLEAN /\ s.server \in V /\ s.detect \in BOOLEAN /\ s.url \in BOOLEAN
        BY <2>1 DEF HiveSettings
    <2>3. ASSUME NEW a \in 2..6, NEW e \in BOOLEAN, NEW v \in V, NEW d \in BOOLEAN, NEW w \in BOOLEAN,
                 reader' = Read(a, e, v, d, w),
                 gap = {} /\ e => Given(s.server), gap = {} /\ a >= 3 /\ e => v # NoValue
          PROVE  ReadInv'
        <3>1. reader' \in [at : 0..6, hive : Hives, enable : BOOLEAN, server : V, detect : BOOLEAN, url : BOOLEAN]
            BY <2>1, <2>3
        <3>2. EnabledHasServer'
            BY <1>0, <1>2 DEF ReadInv, EnabledHasServer
        <3>3. reader'.at = a /\ reader'.hive = reader.hive /\ reader'.enable = e /\ reader'.server = v
            BY <2>3
        <3>4. gap = {} => ~Bare(s)
            BY <1>0 DEF ReadInv
        <3> QED
            BY <1>0, <2>3, <3>1, <3>2, <3>3, <3>4 DEF ReadInv, SettingsType
    <2>4. gap = {} => ~Bare(s) /\ (reader.at >= 2 /\ reader.enable => Given(s.server))
                      /\ (reader.at >= 3 /\ reader.enable => reader.server # NoValue)
        BY <1>0 DEF ReadInv
    <2> HIDE DEF s
    <2>5. CASE reader.at = 1
        <3>1. Seen(ReadOrder[reader.at]) = Read(1, s.enable, reader.server, reader.detect, reader.url)
            BY <2>1, <2>5 DEF Seen, ReadOrder, s
        <3>2. reader' = Read(2, s.enable, reader.server, reader.detect, reader.url)
            BY <1>2, <3>1
        <3>3. gap = {} /\ s.enable => Given(s.server)
            BY <2>2, <2>4 DEF Bare
        <3> QED
            BY <2>1, <2>2, <2>3, <3>2, <3>3
    <2>6. CASE reader.at = 2
        <3> DEFINE v == IF Given(s.server) THEN s.server ELSE NoValue
        <3>1. Seen(ReadOrder[reader.at]) = Read(2, reader.enable, v, reader.detect, reader.url)
            BY <2>1, <2>6 DEF Seen, ReadOrder, s
        <3>2. reader' = Read(3, reader.enable, v, reader.detect, reader.url)
            BY <1>2, <3>1
        <3>3. v \in V /\ (Given(s.server) => v # NoValue)
            BY <2>2 DEF Given
        <3> HIDE DEF v
        <3> QED
            BY <2>1, <2>2, <2>3, <2>4, <2>6, <3>2, <3>3
    <2>7. CASE reader.at = 3
        <3>1. Seen(ReadOrder[reader.at]) = Read(3, reader.enable, reader.server, reader.detect, reader.url)
            BY <2>1, <2>7 DEF Seen, ReadOrder, s
        <3>2. reader' = Read(4, reader.enable, reader.server, reader.detect, reader.url)
            BY <1>2, <3>1
        <3> QED
            BY <2>1, <2>2, <2>3, <2>4, <2>7, <3>2
    <2>8. CASE reader.at = 4
        <3>1. Seen(ReadOrder[reader.at]) = Read(4, reader.enable, reader.server, s.detect, reader.url)
            BY <2>1, <2>8 DEF Seen, ReadOrder, s
        <3>2. reader' = Read(5, reader.enable, reader.server, s.detect, reader.url)
            BY <1>2, <3>1
        <3> QED
            BY <2>1, <2>2, <2>3, <2>4, <2>8, <3>2
    <2>9. CASE reader.at = 5
        <3>1. Seen(ReadOrder[reader.at]) = Read(5, reader.enable, reader.server, reader.detect, s.url)
            BY <2>1, <2>9 DEF Seen, ReadOrder, s
        <3>2. reader' = Read(6, reader.enable, reader.server, reader.detect, s.url)
            BY <1>2, <3>1
        <3> QED
            BY <2>1, <2>2, <2>3, <2>4, <2>9, <3>2
    <2> QED
        BY <1>0, <2>5, <2>6, <2>7, <2>8, <2>9
<1> QED
    BY <1>1, <1>2 DEF read_optional

LEMMA AnswerHasServer ==
    ASSUME ReadInv, get_proxy_from_hive
    PROVE  ReadInv'
<1>1. reader.at = 6 /\ reader' = NotReading /\ UNCHANGED <<settings, gap>>
    BY DEF get_proxy_from_hive, ReadOrder
<1>2. gap = {} => ~(reader.enable /\ reader.server = NoValue)
    BY <1>1 DEF ReadInv
<1>3. answer' = "InvalidConfig" => reader.enable /\ reader.server = NoValue
    BY DEF get_proxy_from_hive
<1>4. EnabledHasServer'
    BY <1>1, <1>2, <1>3 DEF EnabledHasServer
<1> QED
    BY <1>1, <1>4 DEF ReadInv, SettingsType, NotReading, Hives

\* A call to WinHTTP neither reads nor writes these settings.
LEMMA WinHttpKeepsServer ==
    ASSUME ReadInv,
           \/ \E forUrl \in BOOLEAN : get_ie_proxy_config(forUrl)
           \/ take_optional_pwstr \/ ConfigDone \/ get_proxy_for_url \/ from_winhttp
    PROVE  ReadInv'
<1>1. UNCHANGED <<settings, reader, gap>>
    BY DEF get_ie_proxy_config, take_optional_pwstr, ConfigDone, get_proxy_for_url,
           from_winhttp, settingVars
<1>2. EnabledHasServer'
    BY <1>1 DEF get_ie_proxy_config, take_optional_pwstr, ConfigDone, get_proxy_for_url,
           from_winhttp, End, ReadInv, EnabledHasServer
<1> QED
    BY <1>1, <1>2 DEF ReadInv, SettingsType

\* A user who writes the server before switching the proxy on, and takes none
\* away, never makes a read fail with "ProxyEnable is 1 but ProxyServer is
\* missing" (get_proxy_from_hive): for any servers, blank ones too, and any
\* number and order of changes.
THEOREM EnabledProxyHasServer == ProxySpec => []EnabledHasServer
<1>1. ProxyInit => ReadInv
    BY ReadBegins
<1>2. ASSUME ReadInv, [ProxyNext]_proxyVars
      PROVE  ReadInv'
    <2>1. CASE UNCHANGED proxyVars
        BY <1>2, <2>1 DEF proxyVars, settingVars, ReadInv, SettingsType, EnabledHasServer
    <2> QED
        BY <1>2, <2>1, EditKeepsServer, BeginKeepsServer, ReadKeepsServer, AnswerHasServer,
           WinHttpKeepsServer DEF ProxyNext
<1>3. ReadInv => EnabledHasServer
    BY DEF ReadInv
<1> QED
    BY <1>1, <1>2, <1>3, PTL DEF ProxySpec

-----------------------------------------------------------------------------
(* Sequences of access control entries.                                    *)

\* Filter keeps exactly the entries of the set.
LEMMA FilterElems ==
    ASSUME NEW T, NEW s \in Seq(T), NEW aces
    PROVE  /\ Filter(s, aces) \in Seq(T)
           /\ Elems(Filter(s, aces)) = Elems(s) \cap aces
<1> DEFINE hits == {k \in DOMAIN s : s[k] \in aces}
           places == InOrder(hits)
           size == Len(places)
<1>0. Len(s) \in Nat /\ DOMAIN s = 1..Len(s) /\ \A k \in 1..Len(s) : s[k] \in T
    OBVIOUS
<1>1. hits \in SUBSET (0..Len(s))
    BY <1>0
<1>2. places \in Seq(hits) /\ \A k \in hits : \E i \in 1..size : places[i] = k
    <2> HIDE DEF hits
    <2> QED
        BY <1>0, <1>1, InOrderLists
<1>3. size \in Nat /\ DOMAIN places = 1..size /\ \A i \in 1..size : places[i] \in hits
    <2> HIDE DEF hits
    <2>1. \A q \in Seq(hits) : Len(q) \in Nat /\ DOMAIN q = 1..Len(q) /\ \A i \in 1..Len(q) : q[i] \in hits
        OBVIOUS
    <2> HIDE DEF places
    <2> QED
        BY <1>2, <2>1
<1>4. Filter(s, aces) = [i \in 1..size |-> s[places[i]]]
    BY <1>3 DEF Filter, AtPlaces
<1>5. \A k \in hits : k \in 1..Len(s) /\ s[k] \in aces /\ s[k] \in T
    BY <1>0
<1>6. \A k \in 1..Len(s) : s[k] \in aces => k \in hits
    BY <1>0
<1> HIDE DEF hits, places
<1>7. Filter(s, aces) \in Seq(T) /\ DOMAIN Filter(s, aces) = 1..size
      /\ \A i \in 1..size : Filter(s, aces)[i] = s[places[i]]
    BY <1>3, <1>4, <1>5
<1>8. ASSUME NEW a \in Elems(Filter(s, aces))
      PROVE  a \in Elems(s) /\ a \in aces
    <2>1. PICK i \in 1..size : a = s[places[i]]
        BY <1>7 DEF Elems
    <2> QED
        BY <1>0, <1>3, <1>5, <2>1 DEF Elems
<1>9. ASSUME NEW a \in Elems(s), a \in aces
      PROVE  a \in Elems(Filter(s, aces))
    <2>1. PICK k \in 1..Len(s) : a = s[k]
        BY <1>0 DEF Elems
    <2>2. PICK i \in 1..size : places[i] = k
        BY <1>2, <1>6, <1>9, <2>1
    <2> QED
        BY <1>7, <2>1, <2>2 DEF Elems
<1> QED
    BY <1>7, <1>8, <1>9

\* The entries of a sequence, of a sequence that has grown and of two sequences.
LEMMA ElemsOf ==
    ASSUME NEW T, NEW s \in Seq(T)
    PROVE  /\ Elems(s) \subseteq T /\ DOMAIN s = 1..Len(s) /\ Len(s) \in Nat
           /\ \A i \in 1..Len(s) : s[i] \in Elems(s)
           /\ \A a \in Elems(s) : \E i \in 1..Len(s) : s[i] = a
BY DEF Elems

LEMMA ElemsAppend ==
    ASSUME NEW T, NEW s \in Seq(T), NEW a \in T
    PROVE  Append(s, a) \in Seq(T) /\ Elems(Append(s, a)) = Elems(s) \cup {a}
<1> DEFINE r == Append(s, a)
<1>1. r \in Seq(T) /\ DOMAIN r = 1..(Len(s) + 1) /\ DOMAIN s = 1..Len(s) /\ Len(s) \in Nat
    OBVIOUS
<1>2. r[Len(s) + 1] = a /\ \A i \in 1..Len(s) : r[i] = s[i]
    OBVIOUS
<1> HIDE DEF r
<1>3. \A i \in 1..(Len(s) + 1) : i \in 1..Len(s) \/ i = Len(s) + 1
    BY <1>1
<1>4. Len(s) + 1 \in 1..(Len(s) + 1) /\ \A i \in 1..Len(s) : i \in 1..(Len(s) + 1)
    BY <1>1
<1>5. Elems(r) = Elems(s) \cup {a}
    BY <1>1, <1>2, <1>3, <1>4 DEF Elems
<1> QED
    BY <1>1, <1>5 DEF r

LEMMA ElemsConcat ==
    ASSUME NEW T, NEW s \in Seq(T), NEW t \in Seq(T)
    PROVE  s \o t \in Seq(T) /\ Elems(s \o t) = Elems(s) \cup Elems(t)
<1> DEFINE r == s \o t
           m == Len(s)
           n == Len(t)
<1>1. /\ r \in Seq(T) /\ DOMAIN r = 1..(m + n) /\ m \in Nat /\ n \in Nat
      /\ DOMAIN s = 1..m /\ DOMAIN t = 1..n
    OBVIOUS
<1>2. \A i \in 1..(m + n) : r[i] = IF i <= m THEN s[i] ELSE t[i - m]
    OBVIOUS
<1> HIDE DEF r, m, n
<1>3. \A i \in 1..(m + n) : \/ i \in 1..m /\ r[i] = s[i]
                            \/ i - m \in 1..n /\ r[i] = t[i - m]
    BY <1>1, <1>2
<1>4. /\ \A i \in 1..m : i \in 1..(m + n) /\ r[i] = s[i]
      /\ \A i \in 1..n : i + m \in 1..(m + n) /\ r[i + m] = t[i]
    BY <1>1, <1>2
<1>5. ASSUME NEW a \in Elems(r)
      PROVE  a \in Elems(s) \cup Elems(t)
    BY <1>1, <1>3 DEF Elems
<1>6. ASSUME NEW a \in Elems(s) \cup Elems(t)
      PROVE  a \in Elems(r)
    BY <1>1, <1>4 DEF Elems
<1> QED
    BY <1>1, <1>5, <1>6 DEF r
\* Two canonical sequences, no entry of the first behind one of the second.
LEMMA CanonicalConcat ==
    ASSUME NEW s \in Seq(RawAce), NEW t \in Seq(RawAce), Canonical(s), Canonical(t),
           \A a \in Elems(s), b \in Elems(t) : Rank(a) <= Rank(b)
    PROVE  Canonical(s \o t)
<1> DEFINE r == s \o t
           m == Len(s)
           n == Len(t)
<1>1. /\ DOMAIN r = 1..(m + n) /\ m \in Nat /\ n \in Nat
      /\ DOMAIN s = 1..m /\ DOMAIN t = 1..n
    OBVIOUS
<1>2. \A i \in 1..(m + n) : r[i] = IF i <= m THEN s[i] ELSE t[i - m]
    OBVIOUS
<1> HIDE DEF r, m, n
<1>3. ASSUME NEW i \in 1..(m + n), NEW j \in 1..(m + n), i < j
      PROVE  Rank(r[i]) <= Rank(r[j])
    <2>1. CASE j <= m
        <3>1. i \in 1..m /\ j \in 1..m /\ r[i] = s[i] /\ r[j] = s[j]
            BY <1>1, <1>2, <1>3, <2>1
        <3> QED
            BY <1>1, <1>3, <3>1 DEF Canonical
    <2>2. CASE i <= m /\ ~(j <= m)
        <3>1. i \in 1..m /\ j - m \in 1..n /\ r[i] = s[i] /\ r[j] = t[j - m]
            BY <1>1, <1>2, <1>3, <2>2
        <3> QED
            BY <1>1, <3>1 DEF Elems
    <2>3. CASE ~(i <= m)
        <3>1. i - m \in 1..n /\ j - m \in 1..n /\ i - m < j - m /\ r[i] = t[i - m] /\ r[j] = t[j - m]
            BY <1>1, <1>2, <1>3, <2>3
        <3> QED
            BY <1>1, <3>1 DEF Canonical
    <2> QED
        BY <1>1, <1>3, <2>1, <2>2, <2>3
<1> QED
    BY <1>1, <1>3 DEF Canonical, r

LEMMA RankRange ==
    ASSUME NEW a \in RawAce
    PROVE  Rank(a) \in 0..3
BY DEF Rank, RawAce

\* Dacl::canonicalize puts the same entries in canonical order.
LEMMA Canonicalizes ==
    ASSUME NEW s \in Seq(RawAce)
    PROVE  /\ Canonicalize(s) \in Seq(RawAce) /\ Canonical(Canonicalize(s))
           /\ Elems(Canonicalize(s)) = Elems(s)
<1> DEFINE R == 0..3
           of(r) == OfRank(s, r)
<1>1. \A r \in R : of(r) \in Seq(RawAce) /\ \A a : a \in Elems(of(r)) <=> a \in Elems(s) /\ Rank(a) = r
    BY FilterElems DEF OfRank
<1>2. \A a \in Elems(s) : a \in RawAce /\ Rank(a) \in R
    BY ElemsOf, RankRange
<1> HIDE DEF of
<1>3. ASSUME NEW r \in R
      PROVE  Canonical(of(r))
    <2>1. /\ DOMAIN of(r) = 1..Len(of(r)) /\ \A i \in 1..Len(of(r)) : of(r)[i] \in Elems(of(r))
        BY <1>1, ElemsOf
    <2>2. \A i \in DOMAIN of(r) : Rank(of(r)[i]) = r
        BY <1>1, <2>1
    <2> QED
        BY <2>2 DEF Canonical
<1>4. 0 \in R /\ 1 \in R /\ 2 \in R /\ 3 \in R
    OBVIOUS
<1> DEFINE p == of(0) \o of(1)
           q == p \o of(2)
           all == q \o of(3)
<1>5. /\ p \in Seq(RawAce) /\ Elems(p) = Elems(of(0)) \cup Elems(of(1))
      /\ Canonical(p)
    <2>1. \A a \in Elems(of(0)), b \in Elems(of(1)) : Rank(a) <= Rank(b)
        BY <1>1, <1>4
    <2> QED
        BY <1>1, <1>3, <1>4, <2>1, ElemsConcat, CanonicalConcat
<1> HIDE DEF p
<1>6. /\ q \in Seq(RawAce) /\ Elems(q) = Elems(p) \cup Elems(of(2))
      /\ Canonical(q)
    <2>1. \A a \in Elems(p), b \in Elems(of(2)) : Rank(a) <= Rank(b)
        BY <1>1, <1>4, <1>5
    <2> QED
        BY <1>1, <1>3, <1>4, <1>5, <2>1, ElemsConcat, CanonicalConcat
<1> HIDE DEF q
<1>7. /\ all \in Seq(RawAce) /\ Elems(all) = Elems(q) \cup Elems(of(3))
      /\ Canonical(all)
    <2>1. \A a \in Elems(q), b \in Elems(of(3)) : Rank(a) <= Rank(b)
        BY <1>1, <1>4, <1>5, <1>6
    <2> QED
        BY <1>1, <1>3, <1>4, <1>6, <2>1, ElemsConcat, CanonicalConcat
<1> HIDE DEF all
<1>8. Canonicalize(s) = all
    BY DEF Canonicalize, all, q, p, of
<1>9. \A a : a \in Elems(all) <=> a \in Elems(s)
    <2>1. \A k \in R : k = 0 \/ k = 1 \/ k = 2 \/ k = 3
        OBVIOUS
    <2>2. \A a : a \in Elems(all) <=> \E k \in R : a \in Elems(of(k))
        BY <1>4, <1>5, <1>6, <1>7, <2>1
    <2> HIDE DEF R
    <2> QED
        BY <1>1, <1>2, <2>2
<1> QED
    BY <1>7, <1>8, <1>9

\* What a read makes of a DACL: the entries it knows, with the rights it knows.
LEMMA ParsedElems ==
    ASSUME NEW s \in Seq(RawAce), ~ParseFails(s)
    PROVE  /\ ParseDacl(s) \in Seq(RawAce)
           /\ \A a \in Elems(s) : Parses(a) => ParseAce(a) \in Elems(ParseDacl(s))
           /\ \A b \in Elems(ParseDacl(s)) : \E a \in Elems(s) : Parses(a) /\ b = ParseAce(a)
<1> DEFINE wanted == {a \in Elems(s) : Parses(a)}
           known == Filter(s, wanted)
           parsed == [i \in DOMAIN known |-> ParseAce(known[i])]
<1>1. known \in Seq(RawAce) /\ Elems(known) = wanted
    <2>1. known \in Seq(RawAce) /\ Elems(known) = Elems(s) \cap wanted
        <3> HIDE DEF wanted
        <3> QED
            BY FilterElems
    <2> QED
        BY <2>1
<1>2. \A a \in wanted : a \in RawAce /\ ParseAce(a) \in RawAce
    <2> SUFFICES ASSUME NEW a \in Elems(s), Parses(a)
                 PROVE  a \in RawAce /\ ParseAce(a) \in RawAce
        OBVIOUS
    <2>1. PICK i \in DOMAIN s : s[i] = a
        BY DEF Elems
    <2>2. a \in RawAce
        BY <2>1
    <2>3. ParsedRights[a.mask] # NoMask /\ a.mask \in SUBSET Rights
        BY <2>1, <2>2 DEF ParseFails, Parses, RawAce
    <2>4. ParsedRights[a.mask] \in SUBSET Rights
        BY <2>3, RightsAssumption
    <2> QED
        BY <2>2, <2>4 DEF ParseAce, RawAce
<1> HIDE DEF wanted, known
<1>3. DOMAIN known = 1..Len(known) /\ Len(known) \in Nat /\ \A i \in 1..Len(known) : known[i] \in wanted
    BY <1>1, ElemsOf
<1>4. parsed \in Seq(RawAce) /\ DOMAIN parsed = 1..Len(known)
      /\ \A i \in 1..Len(known) : parsed[i] = ParseAce(known[i])
    <2>1. \A i \in 1..Len(known) : ParseAce(known[i]) \in RawAce
        BY <1>2, <1>3
    <2> QED
        BY <1>3, <2>1
<1>5. \A a \in wanted : \E i \in 1..Len(known) : known[i] = a
    BY <1>1, ElemsOf
<1> HIDE DEF parsed
<1>6. \A b : b \in Elems(parsed) <=> \E a \in wanted : b = ParseAce(a)
    BY <1>3, <1>4, <1>5 DEF Elems
<1>7. ParseDacl(s) = Canonicalize(parsed)
    BY DEF ParseDacl, parsed, known, wanted
<1>8. ParseDacl(s) \in Seq(RawAce) /\ Elems(ParseDacl(s)) = Elems(parsed)
    BY <1>4, <1>7, Canonicalizes
<1> QED
    BY <1>6, <1>8 DEF wanted

\* What is written: every entry, as an explicit one.
LEMMA WrittenElems ==
    ASSUME NEW s \in Seq(RawAce)
    PROVE  /\ DaclToSddl(s) \in Seq(RawAce) /\ Explicit(DaclToSddl(s))
           /\ \A a \in Elems(s) : ~a.inherited => a \in Elems(DaclToSddl(s))
           /\ Explicit(s) => DaclToSddl(s) = s
<1> DEFINE w == DaclToSddl(s)
           plain(a) == [a EXCEPT !.inherited = FALSE]
<1>1. DOMAIN s = 1..Len(s) /\ Len(s) \in Nat /\ \A i \in 1..Len(s) : s[i] \in RawAce
    OBVIOUS
<1>2. \A a \in RawAce : plain(a) \in RawAce /\ ~plain(a).inherited /\ (~a.inherited => plain(a) = a)
    BY DEF RawAce
<1>3. w = [i \in 1..Len(s) |-> plain(s[i])]
    BY <1>1 DEF DaclToSddl
<1> HIDE DEF w, plain
<1>4. w \in Seq(RawAce) /\ DOMAIN w = 1..Len(s) /\ \A i \in 1..Len(s) : w[i] = plain(s[i])
    BY <1>1, <1>2, <1>3
<1>5. Explicit(w)
    BY <1>1, <1>2, <1>4 DEF Explicit, Elems
<1>6. \A a \in Elems(s) : ~a.inherited => a \in Elems(w)
    BY <1>1, <1>2, <1>4 DEF Elems
<1>7. Explicit(s) => w = s
    <2> SUFFICES ASSUME Explicit(s)
                 PROVE  w = s
        OBVIOUS
    <2>1. \A i \in 1..Len(s) : w[i] = s[i]
        BY <1>1, <1>2, <1>4 DEF Explicit, Elems
    <2>2. Len(w) = Len(s)
        BY <1>1, <1>4
    <2> QED
        BY <1>4, <2>1, <2>2, SeqEqual
<1> QED
    BY <1>4, <1>5, <1>6, <1>7 DEF w

\* What the system adds: entries of the parent, marked, in the parent's order.
LEMMA InheritedElems ==
    ASSUME NEW s \in ParentAces, NEW prot \in BOOLEAN
    PROVE  /\ Inherit(s, prot) \in Seq(RawAce) /\ Canonical(Inherit(s, prot))
           /\ \A a \in Elems(Inherit(s, prot)) : a.inherited
           /\ prot => Elems(Inherit(s, prot)) = {}
<1> DEFINE w == Inherit(s, prot)
           marked(a) == [a EXCEPT !.inherited = TRUE]
<1>1. CASE prot
    BY <1>1 DEF Inherit, Canonical, Elems
<1>2. CASE ~prot
    <2>1. s \in Seq(RawAce) /\ Explicit(s) /\ Canonical(s)
        BY DaclsAssumption
    <2>2. DOMAIN s = 1..Len(s) /\ Len(s) \in Nat /\ \A i \in 1..Len(s) : s[i] \in RawAce /\ ~s[i].inherited
        BY <2>1 DEF Explicit, Elems
    <2>3. \A a \in RawAce : /\ marked(a) \in RawAce /\ marked(a).inherited /\ marked(a).type = a.type
                            /\ ~a.inherited => Rank(marked(a)) = Rank(a) + 2
        <3> SUFFICES ASSUME NEW a \in RawAce
                     PROVE  /\ marked(a) \in RawAce /\ marked(a).inherited /\ marked(a).type = a.type
                            /\ ~a.inherited => Rank(marked(a)) = Rank(a) + 2
            OBVIOUS
        <3>1. marked(a) \in RawAce /\ marked(a).inherited = TRUE /\ marked(a).type = a.type
            BY DEF RawAce
        <3> HIDE DEF marked
        <3>2. Rank(marked(a)) = 2 + (IF a.type = "D" THEN 0 ELSE 1)
            BY <3>1 DEF Rank
        <3>3. ~a.inherited => Rank(a) = 0 + (IF a.type = "D" THEN 0 ELSE 1)
            BY DEF Rank
        <3> QED
            BY <3>1, <3>2, <3>3
    <2>4. w = [i \in 1..Len(s) |-> marked(s[i])]
        BY <1>2, <2>2 DEF Inherit
    <2> HIDE DEF w, marked
    <2>5. w \in Seq(RawAce) /\ DOMAIN w = 1..Len(s) /\ \A i \in 1..Len(s) : w[i] = marked(s[i])
        BY <2>2, <2>3, <2>4
    <2>6. \A a \in Elems(w) : a.inherited
        BY <2>2, <2>3, <2>5 DEF Elems
    <2>7. ASSUME NEW i \in 1..Len(s), NEW j \in 1..Len(s), i < j
          PROVE  Rank(w[i]) <= Rank(w[j])
        <3>1. Rank(s[i]) <= Rank(s[j]) /\ Rank(s[i]) \in Int /\ Rank(s[j]) \in Int
            BY <2>1, <2>2, <2>7, RankRange DEF Canonical
        <3>2. Rank(w[i]) = Rank(s[i]) + 2 /\ Rank(w[j]) = Rank(s[j]) + 2
            BY <2>2, <2>3, <2>5
        <3> QED
            BY <3>1, <3>2
    <2> QED
        BY <1>2, <2>5, <2>6, <2>7 DEF Canonical, w
<1> QED
    BY <1>1, <1>2

\* In a canonical, explicit DACL a right is granted if an entry allows it and
\* none denies it, wherever the entries are.
Decided(t, aces) ==
    {r \in Rights : /\ \E a \in aces : a.type = "A" /\ a.trustee = t /\ r \in a.mask
                    /\ ~ \E a \in aces : a.type = "D" /\ a.trustee = t /\ r \in a.mask}

LEMMA AccessDecided ==
    ASSUME NEW t, NEW s \in Seq(RawAce), Canonical(s), Explicit(s)
    PROVE  Access(t, s) = Decided(t, Elems(s))
<1>1. DOMAIN s = 1..Len(s) /\ Len(s) \in Nat /\ \A i \in 1..Len(s) : s[i] \in RawAce /\ ~s[i].inherited
    BY DEF Explicit, Elems
<1>2. \A i \in 1..Len(s) : Rank(s[i]) = IF s[i].type = "D" THEN 0 ELSE 1
    BY <1>1 DEF Rank
<1>3. ASSUME NEW r \in Access(t, s)
      PROVE  r \in Decided(t, Elems(s))
    <2>1. PICK i \in 1..Len(s) :
             /\ s[i].type = "A" /\ s[i].trustee = t /\ r \in s[i].mask
             /\ \A j \in 1..(i - 1) : ~(s[j].type \in {"A", "D"} /\ s[j].trustee = t /\ r \in s[j].mask)
        BY <1>1, <1>3 DEF Access
    <2>2. ASSUME NEW j \in 1..Len(s), s[j].type = "D", s[j].trustee = t, r \in s[j].mask
          PROVE  FALSE
        <3>1. CASE j < i
            BY <1>1, <2>1, <2>2, <3>1
        <3>2. CASE j = i
            BY <2>1, <2>2, <3>2
        <3>3. CASE i < j
            <4>1. Rank(s[i]) <= Rank(s[j])
                BY <1>1, <2>1, <2>2, <3>3 DEF Canonical
            <4> QED
                BY <1>2, <2>1, <2>2, <4>1
        <3> QED
            BY <1>1, <2>1, <2>2, <3>1, <3>2, <3>3
    <2>3. s[i] \in Elems(s) /\ r \in Rights
        BY <1>1, <1>3, <2>1 DEF Elems, Access
    <2>4. \A a \in Elems(s) : \E j \in 1..Len(s) : s[j] = a
        BY ElemsOf
    <2> QED
        BY <2>1, <2>2, <2>3, <2>4 DEF Decided
<1>4. ASSUME NEW r \in Decided(t, Elems(s))
      PROVE  r \in Access(t, s)
    <2> DEFINE grants == {i \in 1..Len(s) : s[i].type = "A" /\ s[i].trustee = t /\ r \in s[i].mask}
    <2>1. grants # {} /\ grants \in SUBSET Nat
        BY <1>1, <1>4 DEF Decided, Elems
    <2>2. PICK i \in grants : \A j \in grants : i <= j
        <3> HIDE DEF grants
        <3> QED
            BY <2>1, NatMin
    <2>3. ASSUME NEW j \in 1..(i - 1), s[j].type \in {"A", "D"}, s[j].trustee = t, r \in s[j].mask
          PROVE  FALSE
        <3>1. j \in 1..Len(s) /\ ~(i <= j)
            BY <1>1, <2>2, <2>3
        <3>2. s[j] \in Elems(s)
            BY <1>1, <3>1 DEF Elems
        <3>3. s[j].type # "D"
            BY <1>4, <2>3, <3>2 DEF Decided
        <3> QED
            BY <2>2, <2>3, <3>1, <3>3
    <2> QED
        BY <1>1, <1>4, <2>2, <2>3 DEF Access, Decided
<1> QED
    BY <1>3, <1>4
-----------------------------------------------------------------------------
(* Edits.                                                                  *)

\* A record of an edit's write is as EditSound has it.
SoundWrite(d) ==
    CanonicalAfterApply(d) /\ OthersUntouched(d) /\ RevokeRemovesExplicit(d) /\ DiffCoversWrite(d)

\* The operation may give the trustee an entry.
Gives(o, t) ==
    \/ o.op \in {"grant", "deny"} /\ o.trustee = t
    \/ o.op = "replace" /\ o.new = t

\* What an operation o makes of a DACL s: explicit entries stay explicit,
\* entries of trustees it does not name stay, revoking all leaves none, and a
\* trustee without entries gets one only from an operation that gives it.
Applied(s, o, q) ==
    /\ q \in Seq(RawAce)
    /\ Explicit(s) => Explicit(q)
    /\ \A a \in RawAce :
          a.trustee # o.trustee /\ (o.op = "replace" => a.trustee # o.new) =>
              (a \in Elems(q) <=> a \in Elems(s))
    /\ Explicit(s) /\ o.op = "revoke" /\ o.mask = NoMask =>
          \A a \in Elems(q) : a.trustee # o.trustee
    /\ \A t : ~Gives(o, t) /\ (\A a \in Elems(s) : a.trustee # t) =>
          \A a \in Elems(q) : a.trustee # t

LEMMA OperationApplied ==
    ASSUME NEW keep, NEW s \in Seq(RawAce), NEW o \in Operations,
           NEW q, q = ApplyOp(keep, s, o)
    PROVE  Applied(s, o, q)
<1>0. DOMAIN s = 1..Len(s) /\ Len(s) \in Nat /\ Elems(s) \subseteq RawAce
      /\ \A i \in 1..Len(s) : s[i] \in Elems(s)
    BY ElemsOf
<1>1. CASE o.op \in {"grant", "deny"}
    <2> DEFINE a == NewAce(IF o.op = "grant" THEN "A" ELSE "D", o)
    <2>1. o.trustee \in Sids /\ o.mask \in SUBSET Rights
        BY <1>1 DEF Operations
    <2>2. a \in RawAce /\ a.trustee = o.trustee /\ ~a.inherited
        BY <2>1 DEF NewAce, RawAce
    <2>3. q = Append(s, a)
        BY <1>1 DEF ApplyOp
    <2> HIDE DEF a
    <2>4. q \in Seq(RawAce) /\ Elems(q) = Elems(s) \cup {a}
        BY <2>2, <2>3, ElemsAppend
    <2>5. Explicit(s) => Explicit(q)
        BY <2>2, <2>4 DEF Explicit
    <2>6. \A b \in RawAce : b.trustee # o.trustee => (b \in Elems(q) <=> b \in Elems(s))
        BY <2>2, <2>4
    <2>7. \A t : ~Gives(o, t) /\ (\A b \in Elems(s) : b.trustee # t) => \A b \in Elems(q) : b.trustee # t
        BY <1>1, <2>2, <2>4 DEF Gives
    <2>8. o.op # "revoke"
        BY <1>1
    <2> QED
        BY <2>4, <2>5, <2>6, <2>7, <2>8 DEF Applied
<1>2. CASE o.op = "revoke"
    <2> DEFINE rest == {a \in Elems(s) : ~Revoked(keep, o, a)}
    <2>1. q = Filter(s, rest)
        BY <1>2 DEF ApplyOp
    <2>2. q \in Seq(RawAce) /\ Elems(q) = Elems(s) \cap rest
        <3> HIDE DEF rest
        <3> QED
            BY <2>1, FilterElems
    <2>3. \A a : a \in Elems(q) <=> a \in Elems(s) /\ ~Revoked(keep, o, a)
        BY <2>2
    <2> HIDE DEF rest
    <2>4. Explicit(s) => Explicit(q)
        BY <2>3 DEF Explicit
    <2>5. \A a \in RawAce : a.trustee # o.trustee => (a \in Elems(q) <=> a \in Elems(s))
        BY <2>3 DEF Revoked
    <2>6. ASSUME Explicit(s), o.mask = NoMask
          PROVE  \A a \in Elems(q) : a.trustee # o.trustee
        BY <2>3, <2>6 DEF Explicit, Revoked
    <2> QED
        BY <2>2, <2>3, <2>4, <2>5, <2>6 DEF Applied
<1>3. CASE o.op = "replace"
    <2> DEFINE hit(a) == a.trustee = o.trustee /\ ~(keep /\ a.inherited)
               moved(a) == IF hit(a) THEN [a EXCEPT !.trustee = o.new] ELSE a
    <2>1. o.new \in Sids
        BY <1>3 DEF Operations
    <2>2. \A a \in RawAce : /\ moved(a) \in RawAce /\ (~a.inherited => ~moved(a).inherited)
                            /\ a.trustee # o.trustee => moved(a) = a
                            /\ moved(a) = a \/ moved(a).trustee = o.new
        BY <2>1 DEF RawAce
    <2>3. q = [i \in 1..Len(s) |-> moved(s[i])]
        BY <1>0, <1>3 DEF ApplyOp
    <2> HIDE DEF moved, hit
    <2>4. q \in Seq(RawAce) /\ DOMAIN q = 1..Len(s) /\ \A i \in 1..Len(s) : q[i] = moved(s[i])
        BY <1>0, <2>2, <2>3
    <2>5. \A b : b \in Elems(q) <=> \E a \in Elems(s) : b = moved(a)
        BY <1>0, <2>4 DEF Elems
    <2>6. Explicit(s) => Explicit(q)
        BY <1>0, <2>2, <2>5 DEF Explicit
    <2>7. ASSUME NEW a \in RawAce, a.trustee # o.trustee, a.trustee # o.new
          PROVE  a \in Elems(q) <=> a \in Elems(s)
        <3>1. a \in Elems(s) => a \in Elems(q)
            BY <2>2, <2>5, <2>7
        <3>2. ASSUME a \in Elems(q)
              PROVE  a \in Elems(s)
            <4>1. PICK b \in Elems(s) : a = moved(b)
                BY <2>5, <3>2
            <4> QED
                BY <1>0, <2>2, <2>7, <4>1
        <3> QED
            BY <3>1, <3>2
    <2>8. \A t : ~Gives(o, t) /\ (\A a \in Elems(s) : a.trustee # t) => \A a \in Elems(q) : a.trustee # t
        BY <1>0, <1>3, <2>2, <2>5 DEF Gives
    <2> QED
        BY <1>3, <2>4, <2>6, <2>7, <2>8 DEF Applied
<1>4. o.op \in {"grant", "deny", "revoke", "replace"}
    BY DEF Operations
<1> QED
    BY <1>1, <1>2, <1>3, <1>4

\* What execute has made of the descriptor c after c.step operations of p.
Drafted(p, c) ==
    /\ ~ParseFails(c.dacl)
    /\ c.step <= Len(p.ops)
    /\ Explicit(c.dacl) => Explicit(c.next)
    /\ \A a \in RawAce :
          a.trustee \notin Named(p) => (a \in Elems(c.next) <=> a \in Elems(ParseDacl(c.dacl)))
    /\ Explicit(c.dacl) =>
          \A i \in 1..c.step : RevokesAll(p, i, c.step) =>
              \A a \in Elems(c.next) : a.trustee # p.ops[i].trustee

Reads == [dacl : Seq(RawAce), owner : Sids, next : Seq(RawAce), step : Nat]

ObjectInv ==
    /\ dacl \in Seq(RawAce) /\ parent \in ParentAces /\ isProtected \in BOOLEAN /\ owner \in Sids
    /\ isProtected => Explicit(dacl)
CallInv(e) ==
    /\ cur[e] \in Reads
    /\ pc[e] # "idle" => plan[e] \in Plans
    /\ pc[e] = "execute" => Drafted(plan[e], cur[e])
    /\ SoundWrite(done[e])
EditInv ==
    /\ ObjectInv
    /\ {DOMAIN pc, DOMAIN plan, DOMAIN cur, DOMAIN done} = {Editors}
    /\ \A e \in Editors : CallInv(e)

\* A descriptor just read, before the first operation.
LEMMA ReadDrafts ==
    ASSUME NEW s \in Seq(RawAce), ~ParseFails(s), NEW o \in Sids, NEW p \in Plans
    PROVE  LET c == [dacl |-> s, owner |-> o, next |-> ParseDacl(s), step |-> 0]
           IN  c \in Reads /\ Drafted(p, c)
<1> DEFINE c == [dacl |-> s, owner |-> o, next |-> ParseDacl(s), step |-> 0]
<1>1. /\ ParseDacl(s) \in Seq(RawAce)
      /\ \A b \in Elems(ParseDacl(s)) : \E a \in Elems(s) : Parses(a) /\ b = ParseAce(a)
    BY ParsedElems
<1>2. c \in Reads /\ c.dacl = s /\ c.next = ParseDacl(s) /\ c.step = 0
    BY <1>1 DEF Reads
<1>3. \A a \in Elems(s) : ParseAce(a).inherited = a.inherited
    <2>1. Elems(s) \subseteq RawAce
        BY ElemsOf
    <2> QED
        BY <2>1 DEF ParseAce, RawAce
<1>4. Explicit(s) => Explicit(ParseDacl(s))
    BY <1>1, <1>3 DEF Explicit
<1>5. Len(p.ops) \in Nat
    BY PlansAssumption
<1> HIDE DEF c
<1> QED
    BY <1>2, <1>4, <1>5 DEF Drafted, c

\* The next operation.
LEMMA OperationDrafts ==
    ASSUME NEW p \in Plans, NEW c \in Reads, Drafted(p, c), c.step + 1 \in DOMAIN p.ops,
           NEW d \in Reads, d.dacl = c.dacl, d.step = c.step + 1,
           d.next = ApplyOp(p.preserve, c.next, p.ops[c.step + 1])
    PROVE  Drafted(p, d)
<1> DEFINE k == c.step + 1
           o == p.ops[k]
<1>1. /\ p.ops \in Seq(Operations) /\ p.preserve \in BOOLEAN /\ Len(p.ops) \in Nat
      /\ DOMAIN p.ops = 1..Len(p.ops)
    BY PlansAssumption
<1>2. c.step \in Nat /\ c.next \in Seq(RawAce) /\ k \in 1..Len(p.ops) /\ o \in Operations /\ k \in Nat
    <2>1. c.step \in Nat /\ c.next \in Seq(RawAce)
        BY DEF Reads
    <2>2. k \in 1..Len(p.ops) /\ k \in Nat
        BY <1>1, <2>1
    <2> HIDE DEF k
    <2>3. \A j \in 1..Len(p.ops) : p.ops[j] \in Operations
        BY <1>1
    <2> QED
        BY <2>1, <2>2, <2>3
<1>3. o.trustee \in Named(p) /\ (o.op = "replace" => o.new \in Named(p))
    BY <1>1, <1>2 DEF Named
<1>3a. d.next = ApplyOp(p.preserve, c.next, o)
    OBVIOUS
<1> HIDE DEF o
<1>4. Applied(c.next, o, d.next)
    BY <1>2, <1>3a, OperationApplied, Zenon
<1>5. \A a \in RawAce :
         a.trustee \notin Named(p) => (a \in Elems(d.next) <=> a \in Elems(ParseDacl(d.dacl)))
    BY <1>3, <1>4 DEF Drafted, Applied
<1>6. ASSUME Explicit(c.dacl), NEW i \in 1..k, RevokesAll(p, i, k), NEW a \in Elems(d.next)
      PROVE  a.trustee # p.ops[i].trustee
    <2>0. Explicit(c.next)
        BY <1>6 DEF Drafted
    <2>1. CASE i = k
        BY <1>4, <1>6, <2>0, <2>1 DEF Applied, RevokesAll, o
    <2>2. CASE i # k
        <3>1. i \in 1..c.step /\ \A j \in (i + 1)..c.step : j \in (i + 1)..k
            BY <1>2, <1>6, <2>2
        <3>2. k \in (i + 1)..k
            BY <1>2, <1>6, <2>2
        <3>3. RevokesAll(p, i, c.step)
            BY <1>6, <3>1 DEF RevokesAll
        <3>4. \A b \in Elems(c.next) : b.trustee # p.ops[i].trustee
            BY <1>6, <3>1, <3>3 DEF Drafted
        <3>5. ~Gives(o, p.ops[i].trustee)
            BY <1>6, <3>2 DEF RevokesAll, Gives, o
        <3> QED
            BY <1>4, <1>6, <3>4, <3>5 DEF Applied
    <2> QED
        BY <2>1, <2>2
<1> HIDE DEF k
<1>7. d.step = k /\ k <= Len(p.ops)
    BY <1>1, <1>2 DEF k
<1> QED
    BY <1>4, <1>5, <1>6, <1>7 DEF Drafted, Applied
\* The write of a finished draft.
LEMMA WriteIsSound ==
    ASSUME NEW p \in Plans, NEW c \in Reads, Drafted(p, c), c.step = Len(p.ops),
           NEW par \in ParentAces, NEW prot \in BOOLEAN,
           NEW w, w = DaclToSddl(Canonicalize(c.next)) \o Inherit(par, prot),
           NEW d, d.plan = p, d.read = c.dacl, d.wrote = w,
           d.diff = Between(ParseDacl(c.dacl), Canonicalize(c.next))
    PROVE  /\ w \in Seq(RawAce) /\ (prot => Explicit(w))
           /\ SoundWrite(d)
<1> DEFINE s == c.dacl
           before == ParseDacl(s)
           next == Canonicalize(c.next)
           own == DaclToSddl(next)
           added == Inherit(par, prot)
<1>1. s \in Seq(RawAce) /\ c.next \in Seq(RawAce) /\ ~ParseFails(s) /\ Elems(s) \subseteq RawAce
    BY ElemsOf DEF Reads, Drafted
<1>2. /\ before \in Seq(RawAce)
      /\ \A a \in Elems(s) : Parses(a) => ParseAce(a) \in Elems(before)
      /\ \A b \in Elems(before) : \E a \in Elems(s) : Parses(a) /\ b = ParseAce(a)
    BY <1>1, ParsedElems
<1>3. next \in Seq(RawAce) /\ Canonical(next) /\ Elems(next) = Elems(c.next)
    BY <1>1, Canonicalizes
<1>4. w = own \o added /\ d.diff = Between(before, next)
    OBVIOUS
<1>5. \A a \in RawAce : a.trustee \notin Named(p) => (a \in Elems(next) <=> a \in Elems(before))
    BY <1>3 DEF Drafted
<1>6. Explicit(s) => Explicit(next)
    BY <1>3 DEF Drafted, Explicit
<1>7. ASSUME Explicit(s), NEW i \in 1..Len(p.ops), RevokesAll(p, i, Len(p.ops)), NEW a \in Elems(next)
      PROVE  a.trustee # p.ops[i].trustee
    BY <1>3, <1>7 DEF Drafted
<1> HIDE DEF s, before, next
<1>8. /\ own \in Seq(RawAce) /\ Explicit(own)
      /\ \A a \in Elems(next) : ~a.inherited => a \in Elems(own)
      /\ Explicit(next) => own = next
    BY <1>3, WrittenElems
<1>9. /\ added \in Seq(RawAce) /\ Canonical(added)
      /\ \A a \in Elems(added) : a.inherited
      /\ prot => Elems(added) = {}
    BY InheritedElems
<1> HIDE DEF own, added
<1>10. w \in Seq(RawAce) /\ Elems(w) = Elems(own) \cup Elems(added)
    BY <1>4, <1>8, <1>9, ElemsConcat
<1>11. prot => Explicit(w)
    BY <1>8, <1>9, <1>10 DEF Explicit
<1>12. ASSUME Explicit(s)
       PROVE  Canonical(w) /\ own = next
    <2>1. own = next
        BY <1>6, <1>8, <1>12
    <2>2. ASSUME NEW a \in Elems(next), NEW b \in Elems(added)
          PROVE  Rank(a) <= Rank(b)
        <3>1. a \in RawAce /\ b \in RawAce /\ ~a.inherited /\ b.inherited
            BY <1>3, <1>6, <1>9, <1>12, <2>2, ElemsOf DEF Explicit
        <3> QED
            BY <3>1 DEF Rank
    <2> QED
        BY <1>3, <1>4, <1>9, <2>1, <2>2, CanonicalConcat
<1>13. CanonicalAfterApply(d)
    BY <1>12 DEF CanonicalAfterApply, s
<1>14. OthersUntouched(d)
    <2> SUFFICES ASSUME Explicit(s), Canonical(s), Explicit(w), NEW t \in Sids \ Named(p),
                        \A a \in Elems(s) : a.trustee = t => Exact(a)
                 PROVE  Access(t, w) = Access(t, s)
        BY DEF OthersUntouched, s
    <2>1. Access(t, w) = Decided(t, Elems(w)) /\ Access(t, s) = Decided(t, Elems(s))
        BY <1>1, <1>10, <1>12, AccessDecided
    <2>2. Elems(w) = Elems(next)
        <3>1. Elems(added) = {}
            BY <1>9, <1>10 DEF Explicit
        <3> QED
            BY <1>10, <1>12, <3>1
    <2>3. ASSUME NEW a \in RawAce, a.type \in {"A", "D"}, a.trustee = t
          PROVE  a \in Elems(w) <=> a \in Elems(s)
        <3>1. a \in Elems(w) <=> a \in Elems(before)
            BY <1>5, <2>2, <2>3
        <3>2. ASSUME a \in Elems(s)
              PROVE  a \in Elems(before)
            <4>1. Parses(a) /\ Exact(a)
                BY <2>3, <3>2 DEF Parses
            <4>2. ParseAce(a) = a
                BY <4>1 DEF ParseAce, Exact, RawAce
            <4> QED
                BY <1>2, <3>2, <4>1, <4>2
        <3>3. ASSUME a \in Elems(before)
              PROVE  a \in Elems(s)
            <4>1. PICK b \in Elems(s) : Parses(b) /\ a = ParseAce(b)
                BY <1>2, <3>3
            <4>2. b \in RawAce /\ b.trustee = a.trustee
                BY <1>1, <4>1 DEF ParseAce, RawAce
            <4>3. Exact(b)
                BY <2>3, <4>1, <4>2
            <4>4. ParseAce(b) = b
                BY <4>2, <4>3 DEF ParseAce, Exact, RawAce
            <4> QED
                BY <4>1, <4>4
        <3> QED
            BY <3>1, <3>2, <3>3
    <2>4. Elems(w) \subseteq RawAce
        BY <1>10, ElemsOf
    <2>5. Decided(t, Elems(w)) = Decided(t, Elems(s))
        BY <1>1, <2>3, <2>4 DEF Decided
    <2> QED
        BY <2>1, <2>5
<1>15. RevokeRemovesExplicit(d)
    <2> SUFFICES ASSUME Explicit(s), NEW i \in DOMAIN p.ops, RevokesAll(p, i, Len(p.ops)),
                        NEW a \in Elems(w), a.trustee = p.ops[i].trustee
                 PROVE  a.inherited
        BY DEF RevokeRemovesExplicit, s
    <2>1. i \in 1..Len(p.ops)
        BY PlansAssumption
    <2>2. a \notin Elems(next)
        BY <1>7, <2>1
    <2> QED
        BY <1>9, <1>10, <1>12, <2>2
<1>16. DiffCoversWrite(d)
    <2> SUFFICES ASSUME NEW a \in Elems(s), Parses(a), Exact(a), ~a.inherited, a \notin Elems(w)
                 PROVE  a \in Elems(d.diff.removed)
        BY DEF DiffCoversWrite, s
    <2>1. a \in Elems(before)
        <3>1. ParseAce(a) = a
            BY <1>1 DEF ParseAce, Exact, RawAce
        <3> QED
            BY <1>2, <3>1
    <2>2. a \notin Elems(next)
        BY <1>8, <1>10
    <2>3. d.diff.removed = Filter(before, Elems(before) \ Elems(next))
        <3>1. Between(before, next).removed = Filter(before, Elems(before) \ Elems(next))
            BY DEF Between
        <3> QED
            BY <1>4, <3>1, Zenon
    <2> QED
        BY <1>2, <2>1, <2>2, <2>3, FilterElems
<1> QED
    BY <1>10, <1>11, <1>13, <1>14, <1>15, <1>16 DEF SoundWrite

LEMMA EditBegins ==
    ASSUME Init
    PROVE  EditInv
<1>1. NoRead \in Reads
    BY DEF NoRead, Reads, Init
<1>2. SoundWrite(NoWrite)
    BY DEF SoundWrite, NoWrite, NoPlan, CanonicalAfterApply, OthersUntouched, RevokeRemovesExplicit,
           DiffCoversWrite, Canonical, Elems
<1>3. \A e \in Editors : CallInv(e)
    BY <1>1, <1>2 DEF Init, CallInv
<1>4. ObjectInv
    <2>1. PICK s \in InitDacls : dacl = s \o Inherit(parent, FALSE)
        BY DEF Init
    <2>2. s \in Seq(RawAce)
        BY DaclsAssumption
    <2>3. Inherit(parent, FALSE) \in Seq(RawAce)
        BY InheritedElems DEF Init
    <2> QED
        BY <2>1, <2>2, <2>3, ElemsConcat DEF Init, ObjectInv
<1> QED
    BY <1>3, <1>4 DEF EditInv, Init

\* The object changes, no editor does anything.
LEMMA ObjectStep ==
    ASSUME EditInv, ObjectInv', UNCHANGED <<pc, plan, cur, done>>
    PROVE  EditInv'
BY DEF EditInv, CallInv

\* One editor acts, and the object is as it should be.
LEMMA CallStep ==
    ASSUME EditInv, ObjectInv', NEW e \in Editors, CallInv(e)',
           {DOMAIN pc', DOMAIN plan', DOMAIN cur', DOMAIN done'} = {Editors},
           \A f \in Editors : f # e => /\ pc'[f] = pc[f] /\ plan'[f] = plan[f]
                                       /\ cur'[f] = cur[f] /\ done'[f] = done[f]
    PROVE  EditInv'
<1>1. ASSUME NEW f \in Editors
      PROVE  CallInv(f)'
    <2>1. CASE f = e
        BY <2>1
    <2>2. CASE f # e
        BY <2>2 DEF EditInv, CallInv
    <2> QED
        BY <2>1, <2>2
<1> QED
    BY <1>1 DEF EditInv

LEMMA EditorStep ==
    ASSUME EditInv, NEW e \in Editors, EditStep(e)
    PROVE  EditInv'
<1>0. /\ DOMAIN pc = Editors /\ DOMAIN plan = Editors /\ DOMAIN cur = Editors /\ DOMAIN done = Editors
      /\ ObjectInv /\ CallInv(e)
    BY DEF EditInv
<1>1. NoRead \in Reads
    BY <1>0 DEF NoRead, Reads, ObjectInv
<1>2. CASE \E p \in Plans : Build(e, p)
    <2>1. PICK p \in Plans : Build(e, p)
        BY <1>2
    <2>2. ObjectInv'
        BY <1>0, <2>1 DEF Build, objectVars, ObjectInv
    <2>3. CallInv(e)'
        BY <1>0, <2>1 DEF Build, CallInv
    <2> QED
        BY <1>0, <2>1, <2>2, <2>3, CallStep DEF Build
<1>3. ASSUME NEW r, Return(e, r), ObjectInv', UNCHANGED done
      PROVE  EditInv'
    <2>1. CallInv(e)'
        BY <1>0, <1>1, <1>3 DEF Return, CallInv
    <2> QED
        BY <1>0, <1>3, <2>1, CallStep DEF Return
<1>4. CASE ReadDescriptor(e)
    <2>1. ObjectInv' /\ UNCHANGED done
        BY <1>0, <1>4 DEF ReadDescriptor, objectVars, ObjectInv
    <2>2. CASE Return(e, "error")
        BY <1>3, <2>1, <2>2
    <2>3. CASE ~Return(e, "error")
        <3> DEFINE c == [dacl |-> dacl, owner |-> owner, next |-> ParseDacl(dacl), step |-> 0]
        <3>1. /\ ~ParseFails(dacl) /\ pc[e] = "read"
              /\ cur' = [cur EXCEPT ![e] = c] /\ pc' = [pc EXCEPT ![e] = "execute"]
              /\ UNCHANGED <<plan, done>>
            BY <1>4, <2>3 DEF ReadDescriptor
        <3>2. c \in Reads /\ Drafted(plan[e], c)
            BY <1>0, <3>1, ReadDrafts DEF ObjectInv, CallInv
        <3> HIDE DEF c
        <3>3. CallInv(e)'
            BY <1>0, <3>1, <3>2 DEF CallInv
        <3> QED
            BY <1>0, <2>1, <3>1, <3>3, CallStep
    <2> QED
        BY <2>2, <2>3
<1>5. CASE ExecuteOp(e)
    <2> DEFINE k == cur[e].step + 1
               made == ApplyOp(plan[e].preserve, cur[e].next, plan[e].ops[k])
    <2>1. /\ pc[e] = "execute" /\ k \in DOMAIN plan[e].ops
          /\ cur' = [cur EXCEPT ![e] = [cur[e] EXCEPT !.next = made, !.step = k]]
          /\ UNCHANGED <<objectVars, pc, plan, done>>
        BY <1>0, <1>5 DEF ExecuteOp
    <2>2. /\ plan[e] \in Plans /\ cur[e] \in Reads /\ Drafted(plan[e], cur[e])
          /\ plan[e].ops \in Seq(Operations)
        BY <1>0, <2>1, PlansAssumption DEF CallInv
    <2>3. made \in Seq(RawAce)
        <3>1. cur[e].next \in Seq(RawAce) /\ plan[e].ops[k] \in Operations
            BY <2>1, <2>2 DEF Reads
        <3>2. Applied(cur[e].next, plan[e].ops[k], made)
            BY <3>1, OperationApplied, Zenon
        <3> QED
            BY <3>2 DEF Applied
    <2>4. k \in Nat
        BY <2>2 DEF Reads
    <2> HIDE DEF made
    <2>5. /\ cur'[e] \in Reads /\ cur'[e].dacl = cur[e].dacl /\ cur'[e].step = cur[e].step + 1
          /\ cur'[e].next = made
        BY <1>0, <2>1, <2>2, <2>3, <2>4 DEF Reads
    <2>6. Drafted(plan[e], cur'[e])
        BY <2>1, <2>2, <2>5, OperationDrafts DEF made
    <2> HIDE DEF k
    <2>7. CallInv(e)'
        BY <1>0, <2>1, <2>5, <2>6 DEF CallInv
    <2>8. ObjectInv'
        BY <1>0, <2>1 DEF objectVars, ObjectInv
    <2> QED
        BY <1>0, <2>1, <2>7, <2>8, CallStep
<1>6. CASE ExecuteOnly(e)
    <2>1. ObjectInv' /\ UNCHANGED done /\ Return(e, "ok")
        BY <1>0, <1>6 DEF ExecuteOnly, objectVars, ObjectInv
    <2> QED
        BY <1>3, <2>1
<1>7. CASE ExecuteApply(e)
    <2>1. CASE Return(e, "error") /\ UNCHANGED <<objectVars, done>>
        <3>1. ObjectInv'
            BY <1>0, <2>1 DEF objectVars, ObjectInv
        <3> QED
            BY <1>3, <2>1, <3>1
    <2>2. CASE ~(Return(e, "error") /\ UNCHANGED <<objectVars, done>>)
        <3> DEFINE before == ParseDacl(cur[e].dacl)
                   next == Canonicalize(cur[e].next)
                   d == [plan |-> plan[e], read |-> cur[e].dacl, before |-> before, next |-> next,
                         wrote |-> dacl', diff |-> Between(before, next)]
        <3>1. /\ pc[e] = "execute" /\ cur[e].step = Len(plan[e].ops)
              /\ dacl' = DaclToSddl(next) \o Inherit(parent, isProtected)
              /\ owner' = cur[e].owner /\ done' = [done EXCEPT ![e] = d]
              /\ Return(e, "ok") /\ UNCHANGED <<isProtected, parent>>
            BY <1>7, <2>2 DEF ExecuteApply
        <3>2. /\ plan[e] \in Plans /\ cur[e] \in Reads /\ Drafted(plan[e], cur[e])
              /\ parent \in ParentAces /\ isProtected \in BOOLEAN
            BY <1>0, <3>1 DEF CallInv, ObjectInv
        <3>3. /\ d.plan = plan[e] /\ d.read = cur[e].dacl /\ d.wrote = dacl'
              /\ d.diff = Between(before, next)
            OBVIOUS
        <3> HIDE DEF d
        <3>4. dacl' \in Seq(RawAce) /\ (isProtected => Explicit(dacl')) /\ SoundWrite(d)
            BY <3>1, <3>2, <3>3, WriteIsSound
        <3> HIDE DEF before, next
        <3>5. ObjectInv'
            BY <1>0, <3>1, <3>2, <3>4 DEF ObjectInv, Reads
        <3>6. CallInv(e)'
            BY <1>0, <1>1, <3>1, <3>4 DEF Return, CallInv
        <3> QED
            BY <1>0, <3>1, <3>5, <3>6, CallStep DEF Return
    <2> QED
        BY <2>1, <2>2
<1> QED
    BY <1>2, <1>4, <1>5, <1>6, <1>7 DEF EditStep

LEMMA EditKept ==
    ASSUME EditInv, [Next]_vars
    PROVE  EditInv'
<1>0. ObjectInv
    BY DEF EditInv
<1>1. ASSUME NEW e \in Editors, EditStep(e)
      PROVE  EditInv'
    BY <1>1, EditorStep
<1>2. ASSUME NEW s \in InitDacls, SetProtected(s)
      PROVE  EditInv'
    <2>1. ObjectInv'
        BY <1>0, <1>2, DaclsAssumption DEF SetProtected, ObjectInv
    <2> QED
        BY <1>2, <2>1, ObjectStep DEF SetProtected
<1>3. ASSUME NEW aces \in ParentAces, ParentChange(aces)
      PROVE  EditInv'
    <2> DEFINE rest == Filter(dacl, {a \in Elems(dacl) : ~a.inherited})
               added == Inherit(aces, isProtected)
    <2>1. /\ dacl' = rest \o added /\ parent' = aces /\ isProtected' = isProtected /\ owner' = owner
          /\ UNCHANGED <<pc, plan, cur, done>>
        BY <1>3 DEF ParentChange
    <2>2. rest \in Seq(RawAce) /\ \A a \in Elems(rest) : ~a.inherited
        BY <1>0, FilterElems DEF ObjectInv
    <2>3. added \in Seq(RawAce) /\ (isProtected => Elems(added) = {})
        BY <1>0, InheritedElems DEF ObjectInv
    <2> HIDE DEF rest, added
    <2>4. dacl' \in Seq(RawAce) /\ Elems(dacl') = Elems(rest) \cup Elems(added)
        BY <2>1, <2>2, <2>3, ElemsConcat
    <2>5. isProtected => Explicit(dacl')
        BY <2>2, <2>3, <2>4 DEF Explicit
    <2>6. ObjectInv'
        BY <1>0, <2>1, <2>4, <2>5 DEF ObjectInv
    <2> QED
        BY <2>1, <2>6, ObjectStep
<1>4. ASSUME NEW o \in Sids, TakeOwnership(o)
      PROVE  EditInv'
    <2>1. ObjectInv'
        BY <1>0, <1>4 DEF TakeOwnership, ObjectInv
    <2> QED
        BY <1>4, <2>1, ObjectStep DEF TakeOwnership
<1>5. CASE UNCHANGED vars
    <2>1. ObjectInv'
        BY <1>0, <1>5 DEF vars, ObjectInv
    <2> QED
        BY <1>5, <2>1, ObjectStep DEF vars
<1> QED
    BY <1>1, <1>2, <1>3, <1>4, <1>5 DEF Next

\* PermissionEditPlan::execute and write_descriptor, for any trustees, rights,
\* plans and DACLs, any number of editors and whatever the parser knows: what is
\* written over explicit entries is in canonical order, trustees a plan does not
\* name keep their access, what is revoked is gone, what goes is in the diff, and
\* a protected object stays protected.
THEOREM EditsAreSound == Spec => []EditSound
<1>1. Init => EditInv
    BY EditBegins
<1>2. EditInv /\ [Next]_vars => EditInv'
    BY EditKept
<1>3. EditInv => EditSound
    <2> SUFFICES ASSUME EditInv
                 PROVE  EditSound
        OBVIOUS
    <2>1. \A e \in Editors : SoundWrite(done[e])
        BY DEF EditInv, CallInv
    <2>2. ProtectedStaysProtected
        BY DEF EditInv, ObjectInv, ProtectedStaysProtected, Explicit, Elems
    <2> QED
        BY <2>1, <2>2 DEF EditSound, SoundWrite
<1> QED
    BY <1>1, <1>2, <1>3, PTL DEF Spec

-----------------------------------------------------------------------------
(* Registry values and listings: what is joined to a list is read back from *)
(* the places of its terminators.                                          *)

\* The texts joined so far.
JoinedUpTo(l, g) ==
    /\ g \in [0..Len(l) -> Seq(Nat)]
    /\ g[0] = <<>>
    /\ \A n \in 1..Len(l) : g[n] = g[n-1] \o l[n] \o <<0>>

LEMMA Joined ==
    ASSUME NEW l \in Seq(Seq(Nat))
    PROVE  \E g : JoinedUpTo(l, g) /\ Join(l) = g[Len(l)]
<1> DEFINE joined[n \in 0..Len(l)] == IF n = 0 THEN <<>> ELSE joined[n-1] \o l[n] \o <<0>>
           step == [n \in 1..Len(l) |-> [x \in Seq(Nat) |-> x \o l[n] \o <<0>>]]
<1>0. Len(l) \in Nat /\ \A n \in 1..Len(l) : l[n] \in Seq(Nat)
    OBVIOUS
<1>1. step \in [1..Len(l) -> [Seq(Nat) -> Seq(Nat)]]
    <2>1. ASSUME NEW n \in 1..Len(l), NEW x \in Seq(Nat)
          PROVE  x \o l[n] \o <<0>> \in Seq(Nat)
        <3>1. l[n] \in Seq(Nat) /\ <<0>> \in Seq(Nat)
            BY <1>0
        <3>2. x \o l[n] \in Seq(Nat)
            BY <3>1
        <3> QED
            BY <3>1, <3>2
    <2>2. ASSUME NEW n \in 1..Len(l)
          PROVE  [x \in Seq(Nat) |-> x \o l[n] \o <<0>>] \in [Seq(Nat) -> Seq(Nat)]
        BY <2>1, Zenon
    <2> QED
        BY <2>2, Zenon
<1>2. <<>> \in Seq(Nat)
    OBVIOUS
<1>3. PICK g \in [0..Len(l) -> Seq(Nat)] :
          g[0] = <<>> /\ \A n \in 1..Len(l) : g[n] = step[n][g[n-1]]
    <2> HIDE DEF step, joined
    <2>1. StepMaps(Len(l), Seq(Nat), step)
        BY <1>1 DEF StepMaps
    <2>2. PICK g : StepByStep(Len(l), Seq(Nat), <<>>, step, g)
        BY <1>0, <1>2, <2>1, Recursion
    <2> QED
        BY <2>2 DEF StepByStep
<1>4. \A n \in 1..Len(l) : n - 1 \in 0..Len(l) /\ g[n] = g[n-1] \o l[n] \o <<0>>
    <2> SUFFICES ASSUME NEW n \in 1..Len(l)
                 PROVE  n - 1 \in 0..Len(l) /\ g[n] = g[n-1] \o l[n] \o <<0>>
        OBVIOUS
    <2>1. n - 1 \in 0..Len(l)
        BY <1>0
    <2>2. g[n-1] \in Seq(Nat)
        BY <2>1
    <2>3. step[n][g[n-1]] = g[n-1] \o l[n] \o <<0>>
        BY <2>2
    <2> QED
        BY <1>3, <2>1, <2>3
<1>5. g = [n \in 0..Len(l) |-> IF n = 0 THEN <<>> ELSE g[n-1] \o l[n] \o <<0>>]
    <2>1. \A n \in 0..Len(l) : g[n] = IF n = 0 THEN <<>> ELSE g[n-1] \o l[n] \o <<0>>
        <3>1. \A n \in 0..Len(l) : n # 0 => n \in 1..Len(l)
            BY <1>0
        <3> QED
            BY <1>3, <1>4, <3>1
    <2> QED
        BY <2>1
<1>6. joined = [n \in 0..Len(l) |-> IF n = 0 THEN <<>> ELSE joined[n-1] \o l[n] \o <<0>>]
    BY <1>5
<1>7. Join(l) = joined[Len(l)]
    BY DEF Join
<1> HIDE DEF joined
<1>8. joined[Len(l)] = g[Len(l)]
    <2> DEFINE S == {n \in Nat : n \in 0..Len(l) => joined[n] = g[n]}
    <2>1. 0 \in S
        BY <1>3, <1>6
    <2>2. ASSUME NEW n \in Nat, n \in S
          PROVE  n + 1 \in S
        <3> SUFFICES ASSUME n + 1 \in 0..Len(l)
                     PROVE  joined[n+1] = g[n+1]
            OBVIOUS
        <3>1. n \in 0..Len(l) /\ n + 1 \in 1..Len(l) /\ (n + 1) - 1 = n /\ n + 1 # 0
            BY <1>0
        <3>2. joined[n] = g[n]
            BY <2>2, <3>1
        <3>3. joined[n+1] = joined[n] \o l[n+1] \o <<0>>
            BY <1>6, <3>1
        <3>4. g[n+1] = g[n] \o l[n+1] \o <<0>>
            BY <1>4, <3>1
        <3> QED
            BY <3>2, <3>3, <3>4
    <2>3. Nat \subseteq S
        <3> HIDE DEF S
        <3> QED
            BY <2>1, <2>2, SetInduction
    <2> QED
        BY <1>0, <2>3
<1>9. JoinedUpTo(l, g)
    BY <1>3, <1>4 DEF JoinedUpTo
<1> QED
    BY <1>7, <1>8, <1>9

\* A text and its terminator after what is there.
LEMMA Appended ==
    ASSUME NEW a \in Seq(Nat), NEW b \in Seq(Nat), NEW c, c = a \o b \o << 0 >>
    PROVE  /\ c \in Seq(Nat) /\ Len(a) \in Nat /\ Len(b) \in Nat
           /\ Len(c) = Len(a) + Len(b) + 1
           /\ \A i \in 1..Len(a) : c[i] = a[i]
           /\ \A i \in 1..Len(b) : c[Len(a) + i] = b[i]
           /\ c[Len(c)] = 0
<1> DEFINE d == a \o b
<1>1. d \in Seq(Nat) /\ Len(d) = Len(a) + Len(b) /\ Len(a) \in Nat /\ Len(b) \in Nat
    OBVIOUS
<1>2. \A i \in 1..Len(a) : d[i] = a[i] /\ i \in 1..Len(d)
    OBVIOUS
<1>3. \A i \in 1..Len(b) : d[Len(a) + i] = b[i] /\ Len(a) + i \in 1..Len(d)
    OBVIOUS
<1>4. c = d \o <<0>>
    OBVIOUS
<1> HIDE DEF d
<1>5. c \in Seq(Nat) /\ Len(c) = Len(d) + 1 /\ c[Len(d) + 1] = 0 /\ \A i \in 1..Len(d) : c[i] = d[i]
    <2>1. <<0>> \in Seq(Nat) /\ Len(<<0>>) = 1 /\ <<0>>[1] = 0
        OBVIOUS
    <2> DEFINE e == <<0>>
    <2>2. e \in Seq(Nat) /\ Len(e) = 1 /\ e[1] = 0 /\ c = d \o e
        BY <1>4, <2>1
    <2> HIDE DEF e
    <2>3. /\ d \o e \in Seq(Nat) /\ Len(d \o e) = Len(d) + Len(e)
          /\ \A i \in 1..Len(d) + Len(e) : (d \o e)[i] = IF i <= Len(d) THEN d[i] ELSE e[i - Len(d)]
        BY <1>1, <2>2, ConcatProperties
    <2> QED
        BY <2>2, <2>3
<1>6. Len(c) = Len(a) + Len(b) + 1 /\ c[Len(c)] = 0
    BY <1>1, <1>5
<1>7. \A i \in 1..Len(a) : c[i] = a[i]
    BY <1>2, <1>5
<1>8. \A i \in 1..Len(b) : c[Len(a) + i] = b[i]
    BY <1>3, <1>5
<1> QED
    BY <1>1, <1>5, <1>6, <1>7, <1>8

\* The n-th text lies in the data before its terminator at off[n].
TextAt(l, off, data, n) ==
    /\ off[n] = off[n-1] + Len(l[n]) + 1
    /\ \A i \in 1..Len(l[n]) : data[off[n-1] + i] = l[n][i]
    /\ data[off[n]] = 0

\* The first m texts of a list, joined.
Laid(l, off, data, m) ==
    /\ data \in Seq(Nat) /\ Len(data) = off[m]
    /\ \A n \in 1..m : TextAt(l, off, data, n)

\* The joined list ends where its last text does.
LEMMA LaidOut ==
    ASSUME NEW l \in Seq(Seq(Nat))
    PROVE  \E off : Grows(Len(l), off) /\ off[0] = 0 /\ Laid(l, off, Join(l), Len(l))
<1> DEFINE N == Len(l)
<1>1. PICK g : JoinedUpTo(l, g) /\ Join(l) = g[N]
    BY Joined
<1>2. N \in Nat /\ \A n \in 1..N : l[n] \in Seq(Nat) /\ n \in 0..N /\ n - 1 \in 0..N
    <2>1. N \in Nat
        OBVIOUS
    <2>2. \A n \in 1..N : l[n] \in Seq(Nat)
        OBVIOUS
    <2> HIDE DEF N
    <2> QED
        BY <2>1, <2>2
<1> HIDE DEF N
<1>3. \A n \in 0..N : g[n] \in Seq(Nat)
    BY <1>1 DEF JoinedUpTo, N
<1> DEFINE off == [n \in 0..N |-> Len(g[n])]
<1>4. \A n \in 0..N : off[n] \in Nat /\ off[n] = Len(g[n])
    BY <1>3
<1>5. ASSUME NEW n \in 1..N
      PROVE  /\ Len(l[n]) \in Nat
             /\ off[n] = off[n-1] + Len(l[n]) + 1
             /\ \A i \in 1..off[n-1] : g[n][i] = g[n-1][i]
             /\ \A i \in 1..Len(l[n]) : g[n][off[n-1] + i] = l[n][i]
             /\ g[n][off[n]] = 0
    <2> DEFINE a == g[n-1]
               b == l[n]
               c == g[n]
    <2>1. a \in Seq(Nat) /\ b \in Seq(Nat) /\ c = a \o b \o <<0>>
        BY <1>1, <1>2, <1>3 DEF JoinedUpTo, N
    <2>2. off[n-1] = Len(a) /\ off[n] = Len(c)
        BY <1>2
    <2> HIDE DEF a, b, c, off
    <2>3. /\ Len(b) \in Nat /\ Len(c) = Len(a) + Len(b) + 1
          /\ \A i \in 1..Len(a) : c[i] = a[i]
          /\ \A i \in 1..Len(b) : c[Len(a) + i] = b[i]
          /\ c[Len(c)] = 0
        BY <2>1, Appended
    <2> QED
        BY <2>2, <2>3 DEF a, b, c
<1>6. Grows(N, off)
    <2>1. off \in [0..N -> Nat]
        BY <1>3
    <2> HIDE DEF off
    <2>2. ASSUME NEW n \in 1..N
          PROVE  off[n-1] < off[n]
        <3> DEFINE size == Len(l[n])
        <3>1. off[n-1] \in Nat /\ size \in Nat /\ off[n] = off[n-1] + size + 1
            BY <1>2, <1>4, <1>5
        <3> HIDE DEF size
        <3> QED
            BY <3>1
    <2> QED
        BY <2>1, <2>2 DEF Grows
<1>7. off[0] = 0
    BY <1>1, <1>2, <1>4 DEF JoinedUpTo, N
<1> HIDE DEF off
<1> DEFINE S == {m \in Nat : m \in 0..N => Laid(l, off, g[m], m)}
<1>8. 0 \in S
    <2>1. 0 \in 0..N /\ \A n \in 1..0 : FALSE
        BY <1>2
    <2> QED
        BY <1>3, <1>4, <2>1 DEF Laid
<1>9. ASSUME NEW m \in Nat, m \in S
      PROVE  m + 1 \in S
    <2> SUFFICES ASSUME m + 1 \in 0..N
                 PROVE  Laid(l, off, g[m+1], m + 1)
        OBVIOUS
    <2>1. m \in 0..N /\ m + 1 \in 1..N /\ (m + 1) - 1 = m
        BY <1>2
    <2>2. Laid(l, off, g[m], m)
        BY <1>9, <2>1
    <2>3. ASSUME NEW n \in 1..m
          PROVE  TextAt(l, off, g[m+1], n)
        <3>1. TextAt(l, off, g[m], n)
            BY <2>2 DEF Laid
        <3>2. n \in 1..N /\ n \in 0..N /\ n - 1 \in 0..N /\ n <= m
            BY <1>2, <2>1
        <3>3. off[n] \in Nat /\ off[n-1] \in Nat /\ off[m] \in Nat /\ Len(l[n]) \in Nat
            BY <1>4, <1>5, <2>1, <3>2
        <3>4. off[n] <= off[m]
            BY <1>2, <1>6, <2>1, <3>2, <3>3, GrowsBetween
        <3>5. off[n] = off[n-1] + Len(l[n]) + 1
            BY <1>5, <3>2
        <3>6. \A i \in 1..off[m] : g[m+1][i] = g[m][i]
            BY <1>5, <2>1
        <3>7. off[n] \in 1..off[m] /\ \A i \in 1..Len(l[n]) : off[n-1] + i \in 1..off[m]
            <4> DEFINE size == Len(l[n])
            <4>1. size \in Nat /\ off[n] = off[n-1] + size + 1
                BY <3>3, <3>5
            <4> HIDE DEF size
            <4>2. off[n] \in 1..off[m] /\ \A i \in 1..size : off[n-1] + i \in 1..off[m]
                BY <3>3, <3>4, <4>1
            <4> QED
                BY <4>2 DEF size
        <3> QED
            BY <3>1, <3>5, <3>6, <3>7 DEF TextAt
    <2>4. TextAt(l, off, g[m+1], m + 1)
        BY <1>5, <2>1 DEF TextAt
    <2>5. \A n \in 1..m+1 : n \in 1..m \/ n = m + 1
        OBVIOUS
    <2>6. g[m+1] \in Seq(Nat) /\ Len(g[m+1]) = off[m+1]
        BY <1>3, <1>4, <2>1
    <2> QED
        BY <2>3, <2>4, <2>5, <2>6 DEF Laid
<1>10. Nat \subseteq S
    <2> HIDE DEF S
    <2> QED
        BY <1>8, <1>9, SetInduction
<1>11. Laid(l, off, g[N], N)
    <2>1. N \in S /\ N \in 0..N
        BY <1>2, <1>10
    <2> QED
        BY <2>1
<1> QED
    BY <1>1, <1>6, <1>7, <1>11 DEF N

\* The marks of a list's terminators: off[1] to off[N], at least one unit apart,
\* and one more after the last.
Marked(data, N, off) ==
    /\ data \in Seq(Nat)
    /\ off[0] = 0
    /\ \A n \in 1..N : off[n-1] + 1 < off[n]
    /\ Len(data) = off[N] + 1
    /\ Ends(data) = {off[n] : n \in 1..N} \cup {off[N] + 1}

\* The first double terminator is the one after the last text.
LEMMA LastEndFound ==
    ASSUME NEW data, NEW N \in Nat, N # 0, NEW off, Grows(N, off), Marked(data, N, off)
    PROVE  LastEnd(data) = off[N]
<1> DEFINE double == {i \in Ends(data) : i + 1 > Len(data) \/ data[i+1] = 0}
<1>0. /\ \A n \in 0..N : off[n] \in Nat /\ n \in Nat
      /\ \A n \in 1..N : n - 1 \in 0..N /\ n \in 0..N /\ off[n-1] + 1 < off[n]
    <2>1. \A n \in 0..N : off[n] \in Nat /\ n \in Nat
        BY DEF Grows
    <2>2. \A n \in 1..N : n - 1 \in 0..N /\ n \in 0..N
        OBVIOUS
    <2>3. \A n \in 1..N : off[n-1] + 1 < off[n]
        BY DEF Marked
    <2> QED
        BY <2>1, <2>2, <2>3
<1>1. Len(data) = off[N] + 1 /\ Ends(data) = {off[n] : n \in 1..N} \cup {off[N] + 1}
    BY DEF Marked
<1>2. \A i \in 1..Len(data) : data[i] = 0 <=> i \in Ends(data)
    BY DEF Ends
<1>3. \A n \in 1..N : n # N => off[n] < off[N]
    BY <1>0, GrowsBetween
<1>4. ASSUME NEW n \in 1..N, n # N
      PROVE  off[n] \notin double
    <2>0. n \in 0..N /\ N \in 0..N /\ n + 1 \in 1..N /\ n + 1 \in 0..N /\ (n + 1) - 1 = n /\ n \in Nat
        BY <1>0, <1>4
    <2>1. off[n] \in Nat /\ off[n+1] \in Nat /\ off[N] \in Nat /\ off[n] + 1 < off[n+1] /\ off[n] < off[N]
        BY <1>0, <1>3, <1>4, <2>0
    <2>2. off[n] + 1 \in 1..Len(data) /\ ~(off[n] + 1 > Len(data))
        BY <1>1, <2>1
    <2>3. ASSUME NEW m \in 1..N
          PROVE  off[m] # off[n] + 1
        <3>0. m \in 0..N /\ m \in Nat /\ off[m] \in Nat
            BY <1>0
        <3>1. m < n => off[m] < off[n]
            BY <2>0, <3>0, GrowsBetween
        <3>2. n + 1 < m => off[n+1] < off[m]
            BY <2>0, <3>0, GrowsBetween
        <3>3. m = n \/ m = n + 1 \/ m < n \/ n + 1 < m
            BY <2>0, <3>0
        <3> QED
            BY <2>1, <3>0, <3>1, <3>2, <3>3
    <2>4. off[n] + 1 # off[N] + 1
        BY <2>1
    <2>5. off[n] + 1 \notin Ends(data)
        BY <1>1, <2>3, <2>4
    <2> QED
        BY <1>2, <2>2, <2>5
<1>5. off[N] \in double
    <2>1. N \in 1..N /\ off[N] \in Nat
        BY <1>0
    <2>2. off[N] \in Ends(data) /\ off[N] + 1 \in Ends(data) /\ off[N] + 1 \in 1..Len(data)
        BY <1>1, <2>1
    <2> QED
        BY <1>2, <2>2
<1>6. \A j \in double : off[N] <= j
    <2> SUFFICES ASSUME NEW j \in double
                 PROVE  off[N] <= j
        OBVIOUS
    <2>1. j \in Ends(data) /\ off[N] \in Nat
        BY <1>0
    <2>2. j = off[N] + 1 \/ \E n \in 1..N : j = off[n]
        BY <1>1, <2>1
    <2>3. j = off[N] + 1 \/ j = off[N]
        BY <1>4, <2>2
    <2> QED
        BY <2>1, <2>3
<1>7. \A j \in double : j \in Nat
    BY DEF Ends
<1>8. LastEnd(data) = CHOOSE i \in double : \A j \in double : i <= j
    BY <1>5 DEF LastEnd
<1> HIDE DEF double
<1>9. \A i \in double : (\A j \in double : i <= j) => i = off[N]
    BY <1>5, <1>6, <1>7
<1> QED
    BY <1>5, <1>6, <1>8, <1>9

\* The texts between the marks are what is read.
LEMMA ReadBetween ==
    ASSUME NEW data, NEW N \in Nat, N # 0, NEW off, Grows(N, off), Marked(data, N, off)
    PROVE  ReadList(data) = [n \in 1..N |-> SubSeq(data, off[n-1] + 1, off[n] - 1)]
<1> DEFINE marks(n) == {off[m] : m \in 1..n}
           stops == {i \in Ends(data) : i <= LastEnd(data)}
           before(i) == {j \in stops : j < i}
           start(i) == IF before(i) = {} THEN 1
                       ELSE 1 + CHOOSE j \in before(i) : \A k \in before(i) : k <= j
           kept == {i \in stops : i > start(i)}
           nth(n) == CHOOSE i \in kept : Cardinality({j \in kept : j <= i}) = n
<1>0. /\ \A n \in 0..N : off[n] \in Nat /\ n \in Nat
      /\ \A n \in 1..N : n - 1 \in 0..N /\ n \in 0..N /\ off[n-1] + 1 < off[n]
    <2>1. \A n \in 0..N : off[n] \in Nat /\ n \in Nat
        BY DEF Grows
    <2>2. \A n \in 1..N : n - 1 \in 0..N /\ n \in 0..N
        OBVIOUS
    <2>3. \A n \in 1..N : off[n-1] + 1 < off[n]
        BY DEF Marked
    <2> QED
        BY <2>1, <2>2, <2>3
<1>1. /\ LastEnd(data) = off[N] /\ off[0] = 0 /\ Len(data) = off[N] + 1
      /\ Ends(data) = {off[n] : n \in 1..N} \cup {off[N] + 1}
    BY LastEndFound DEF Marked
<1>2. \A a, b \in 0..N : a < b <=> off[a] < off[b]
    <2> SUFFICES ASSUME NEW a \in 0..N, NEW b \in 0..N
                 PROVE  a < b <=> off[a] < off[b]
        OBVIOUS
    <2>1. a \in Nat /\ b \in Nat /\ off[a] \in Nat /\ off[b] \in Nat
        BY <1>0
    <2>2. a < b => off[a] < off[b]
        BY GrowsBetween
    <2>3. b < a => off[b] < off[a]
        BY GrowsBetween
    <2> QED
        BY <2>1, <2>2, <2>3
<1>3. stops = marks(N)
    <2>1. \A n \in 1..N : off[n] <= off[N]
        <3>1. \A n \in 1..N : n = N \/ n < N
            BY <1>0
        <3> QED
            BY <1>0, <1>2, <3>1
    <2>2. ~(off[N] + 1 <= off[N])
        BY <1>0
    <2> QED
        BY <1>1, <2>1, <2>2
<1>4. ASSUME NEW n \in 1..N
      PROVE  start(off[n]) = off[n-1] + 1
    <2>0. n \in Nat /\ n - 1 \in 0..N /\ n \in 0..N /\ off[n] \in Nat /\ off[n-1] \in Nat /\ 0 \in 0..N
        BY <1>0
    <2>1. before(off[n]) = {off[m] : m \in 1..(n-1)}
        <3>1. \A m \in 1..N : off[m] < off[n] <=> m \in 1..(n-1)
            BY <1>0, <1>2, <2>0
        <3>2. \A m \in 1..(n-1) : m \in 1..N
            BY <2>0
        <3> HIDE DEF stops
        <3> QED
            BY <1>3, <3>1, <3>2
    <2>2. CASE n = 1
        <3>1. before(off[n]) = {} /\ off[n-1] = 0
            BY <1>1, <2>1, <2>2
        <3> HIDE DEF before
        <3> QED
            BY <3>1
    <2>3. CASE n # 1
        <3>1. n - 1 \in 1..(n-1) /\ n - 1 \in Nat
            BY <2>0, <2>3
        <3>2. off[n-1] \in before(off[n])
            BY <2>1, <3>1
        <3>3. ASSUME NEW k \in before(off[n])
              PROVE  k \in Nat /\ k <= off[n-1]
            <4>1. PICK m \in 1..(n-1) : k = off[m]
                BY <2>1
            <4>2. m \in 0..N /\ off[m] \in Nat /\ (m < n - 1 \/ m = n - 1)
                BY <1>0, <2>0
            <4>3. m < n - 1 => off[m] < off[n-1]
                BY <1>2, <2>0, <4>2
            <4> QED
                BY <2>0, <4>1, <4>2, <4>3
        <3> HIDE DEF before
        <3>4. \A j \in before(off[n]) : (\A k \in before(off[n]) : k <= j) => j = off[n-1]
            BY <2>0, <3>2, <3>3
        <3>5. off[n-1] = CHOOSE j \in before(off[n]) : \A k \in before(off[n]) : k <= j
            BY <3>2, <3>3, <3>4
        <3>6. start(off[n]) = 1 + off[n-1]
            BY <3>2, <3>5
        <3> HIDE DEF start
        <3> QED
            BY <2>0, <3>6
    <2> QED
        BY <2>2, <2>3
<1>5. kept = marks(N)
    <2>1. \A n \in 1..N : off[n] > start(off[n])
        <3> HIDE DEF start
        <3> QED
            BY <1>0, <1>4
    <2> HIDE DEF start, stops
    <2> QED
        BY <1>3, <2>1
<1>6. Cardinality(kept) = N
    <2>1. N \in 0..N
        OBVIOUS
    <2> HIDE DEF kept
    <2> QED
        BY <1>5, <2>1, ValuesCounted
<1>7. ASSUME NEW n \in 1..N
      PROVE  Cardinality({j \in kept : j <= off[n]}) = n
    <2>1. \A m \in 1..N : off[m] <= off[n] <=> m \in 1..n
        <3> SUFFICES ASSUME NEW m \in 1..N
                     PROVE  off[m] <= off[n] <=> m \in 1..n
            OBVIOUS
        <3>1. m \in 0..N /\ n \in 0..N /\ m \in Nat /\ n \in Nat /\ off[m] \in Nat /\ off[n] \in Nat
            BY <1>0
        <3>2. n < m <=> off[n] < off[m]
            BY <1>2, <3>1
        <3> QED
            BY <3>1, <3>2
    <2>2. \A m \in 1..n : m \in 1..N
        BY <1>0
    <2>3. {j \in kept : j <= off[n]} = {off[m] : m \in 1..n}
        <3> HIDE DEF kept
        <3> QED
            BY <1>5, <2>1, <2>2
    <2>4. n \in 0..N
        BY <1>0
    <2> HIDE DEF kept
    <2> QED
        BY <2>3, <2>4, ValuesCounted
<1> HIDE DEF kept, start
<1>8. ASSUME NEW n \in 1..N
      PROVE  nth(n) = off[n] /\ SubSeq(data, start(nth(n)), nth(n) - 1) = SubSeq(data, off[n-1] + 1, off[n] - 1)
    <2>1. off[n] \in kept
        BY <1>5
    <2>2. \A i \in kept : Cardinality({j \in kept : j <= i}) = n => i = off[n]
        <3> SUFFICES ASSUME NEW i \in kept, Cardinality({j \in kept : j <= i}) = n
                     PROVE  i = off[n]
            OBVIOUS
        <3>1. PICK m \in 1..N : i = off[m]
            BY <1>5
        <3>2. m = n
            BY <1>7, <3>1
        <3> QED
            BY <3>1, <3>2
    <2>3. nth(n) = off[n]
        BY <1>7, <2>1, <2>2
    <2> HIDE DEF nth
    <2> QED
        BY <1>4, <2>3
<1>9. ReadList(data) = [n \in 1..Cardinality(kept) |-> SubSeq(data, start(nth(n)), nth(n) - 1)]
    BY DEF ReadList, kept, start
<1> HIDE DEF nth
<1> QED
    BY <1>6, <1>8, <1>9

\* A list of texts that end nowhere inside is read as it was written.
LEMMA ListRoundTrip ==
    ASSUME NEW l \in Seq(Seq(Nat)), Representable("multi", l)
    PROVE  ReadList(Join(l) \o <<0>>) = l
<1> DEFINE N == Len(l)
           size == [n \in 1..N |-> Len(l[n])]
           text == Join(l)
           data == text \o <<0>>
<1>1. N \in Nat /\ \A n \in 1..N : l[n] \in Seq(Nat)
    OBVIOUS
<1>2. l = [n \in 1..N |-> l[n]]
    OBVIOUS
<1>3. \A n \in 1..N : l[n] # <<>> /\ \A i \in 1..Len(l[n]) : l[n][i] # 0
    <2>1. ASSUME NEW n \in 1..N
          PROVE  l[n] # <<>> /\ \A i \in 1..Len(l[n]) : l[n][i] # 0
        <3>1. n \in DOMAIN l /\ DOMAIN l[n] = 1..Len(l[n])
            BY <1>1
        <3> QED
            BY <3>1 DEF Representable
    <2> QED
        BY <2>1
<1>4. PICK off : Grows(N, off) /\ off[0] = 0 /\ Laid(l, off, text, N)
    BY LaidOut
<1>5. \A n \in 1..N : size[n] \in Nat /\ size[n] # 0 /\ size[n] = Len(l[n])
    BY <1>1, <1>3
<1> HIDE DEF N, size
<1>6. text \in Seq(Nat) /\ Len(text) = off[N]
    BY <1>4 DEF Laid
<1> HIDE DEF text
<1>7. /\ data \in Seq(Nat) /\ Len(data) = off[N] + 1 /\ off[N] \in Nat /\ data[off[N] + 1] = 0
      /\ \A i \in 1..off[N] : data[i] = text[i]
    <2> DEFINE e == <<0>>
    <2>1. e \in Seq(Nat) /\ Len(e) = 1 /\ e[1] = 0
        OBVIOUS
    <2> HIDE DEF e
    <2>2. /\ text \o e \in Seq(Nat) /\ Len(text \o e) = Len(text) + Len(e)
          /\ \A i \in 1..Len(text) + Len(e) :
                 (text \o e)[i] = IF i <= Len(text) THEN text[i] ELSE e[i - Len(text)]
        BY <1>6, <2>1, ConcatProperties
    <2>3. data = text \o e /\ Len(text) \in Nat
        BY <1>6 DEF e
    <2> HIDE DEF data
    <2> QED
        BY <1>6, <2>1, <2>2, <2>3
<1> HIDE DEF data
<1>8. /\ \A n \in 0..N : off[n] \in Nat /\ n \in Nat
      /\ \A n \in 1..N : n - 1 \in 0..N /\ n \in 0..N /\ n \in Nat
    BY <1>1, <1>4 DEF Grows
<1>9. \A n \in 1..N : off[n] <= off[N]
    <2>1. \A n \in 1..N : n = N \/ n < N
        BY <1>1
    <2> QED
        BY <1>1, <1>4, <1>8, <2>1, GrowsBetween
<1>10. ASSUME NEW n \in 1..N
       PROVE  /\ off[n] = off[n-1] + size[n] + 1
              /\ \A i \in 1..size[n] : data[off[n-1] + i] = l[n][i] /\ data[off[n-1] + i] # 0
              /\ data[off[n]] = 0
    <2>1. TextAt(l, off, text, n)
        BY <1>4 DEF Laid
    <2>2. off[n] = off[n-1] + size[n] + 1
        BY <1>5, <2>1 DEF TextAt
    <2>2a. off[n-1] \in Nat /\ off[n] \in Nat /\ off[N] \in Nat /\ size[n] \in Nat /\ off[n] <= off[N]
        BY <1>5, <1>7, <1>8, <1>9
    <2>3. off[n] \in 1..off[N] /\ \A i \in 1..size[n] : off[n-1] + i \in 1..off[N]
        BY <2>2, <2>2a
    <2>4. data[off[n]] = 0
        BY <1>7, <2>1, <2>3 DEF TextAt
    <2>5. \A i \in 1..size[n] : data[off[n-1] + i] = l[n][i]
        BY <1>5, <1>7, <2>1, <2>3 DEF TextAt
    <2>6. \A i \in 1..size[n] : l[n][i] # 0
        BY <1>3, <1>5
    <2> QED
        BY <2>2, <2>4, <2>5, <2>6
<1>11. ASSUME NEW i \in 1..off[N], data[i] = 0
       PROVE  \E n \in 1..N : i = off[n]
    <2> DEFINE T == {n \in 0..N : i <= off[n]}
    <2>1. T \in SUBSET Nat /\ N \in T
        BY <1>1, <1>7, <1>8
    <2>2. PICK n \in T : \A m \in T : n <= m
        <3> HIDE DEF T
        <3> QED
            BY <2>1, NatMin
    <2>3. n # 0 /\ n \in 0..N /\ i <= off[n]
        BY <1>4, <1>7
    <2>4. n \in 1..N /\ n - 1 \in 0..N /\ n \in Nat
        BY <1>8, <2>3
    <2>5. ~(i <= off[n-1])
        BY <2>2, <2>4
    <2>6. off[n-1] \in Nat /\ off[n] \in Nat /\ size[n] \in Nat /\ i \in Nat
        BY <1>5, <1>7, <1>8, <2>4
    <2>7. CASE i # off[n]
        <3>1. i - off[n-1] \in 1..size[n] /\ off[n-1] + (i - off[n-1]) = i
            BY <1>10, <2>3, <2>4, <2>5, <2>6, <2>7
        <3>2. data[off[n-1] + (i - off[n-1])] # 0
            BY <1>10, <2>4, <3>1
        <3> QED
            BY <1>11, <3>1, <3>2
    <2> QED
        BY <2>4, <2>7
<1>12. Ends(data) = {off[n] : n \in 1..N} \cup {off[N] + 1}
    <2>1. \A n \in 1..N : off[n] \in 1..Len(data) /\ data[off[n]] = 0
        <3> SUFFICES ASSUME NEW n \in 1..N
                     PROVE  off[n] \in 1..Len(data) /\ data[off[n]] = 0
            OBVIOUS
        <3>1. off[n] = off[n-1] + size[n] + 1 /\ off[n-1] \in Nat /\ off[n] <= off[N] /\ size[n] \in Nat
            BY <1>5, <1>8, <1>9, <1>10
        <3>2. off[n] \in 1..Len(data)
            BY <1>7, <3>1
        <3> QED
            BY <1>10, <3>2
    <2>2. off[N] + 1 \in 1..Len(data)
        BY <1>7
    <2>3. \A i \in 1..Len(data) : i \in 1..off[N] \/ i = off[N] + 1
        BY <1>7
    <2> DEFINE marks == {off[n] : n \in 1..N} \cup {off[N] + 1}
    <2>4. ASSUME NEW i \in Ends(data)
          PROVE  i \in marks
        <3>1. i \in 1..Len(data) /\ data[i] = 0
            BY DEF Ends
        <3> QED
            BY <1>11, <2>3, <3>1
    <2>5. ASSUME NEW i \in marks
          PROVE  i \in Ends(data)
        <3>1. i \in 1..Len(data) /\ data[i] = 0
            BY <1>7, <2>1, <2>2
        <3> QED
            BY <3>1 DEF Ends
    <2> QED
        BY <2>4, <2>5
<1>13. CASE N = 0
    <2>1. Len(data) = 1 /\ Ends(data) = {1}
        <3>1. off[N] = 0
            BY <1>4, <1>13
        <3> QED
            BY <1>7, <1>12, <1>13, <3>1
    <2>2. LastEnd(data) = 1
        BY <2>1 DEF LastEnd
    <2> DEFINE stops == {i \in Ends(data) : i <= LastEnd(data)}
               before(i) == {j \in stops : j < i}
               start(i) == IF before(i) = {} THEN 1
                           ELSE 1 + CHOOSE j \in before(i) : \A k \in before(i) : k <= j
               kept == {i \in stops : i > start(i)}
               nth(n) == CHOOSE i \in kept : Cardinality({j \in kept : j <= i}) = n
    <2>3. stops = {1}
        BY <2>1, <2>2
    <2>4. before(1) = {}
        <3> HIDE DEF stops
        <3> QED
            BY <2>3
    <2>5. start(1) = 1
        <3> HIDE DEF before
        <3> QED
            BY <2>4
    <2>6. kept = {}
        <3> HIDE DEF stops, start
        <3> QED
            BY <2>3, <2>5
    <2>7. ReadList(data) = [n \in 1..Cardinality(kept) |-> SubSeq(data, start(nth(n)), nth(n) - 1)]
        BY DEF ReadList
    <2>8. Cardinality(kept) = 0
        BY <2>6, FS_EmptySet
    <2> HIDE DEF kept, start, nth
    <2>9. 1..Cardinality(kept) = 1..N
        BY <1>13, <2>8
    <2>10. ReadList(data) = [n \in 1..N |-> SubSeq(data, start(nth(n)), nth(n) - 1)]
        BY <2>7, <2>9
    <2>11. \A n \in 1..N : FALSE
        BY <1>13
    <2>12. [n \in 1..N |-> SubSeq(data, start(nth(n)), nth(n) - 1)] = [n \in 1..N |-> l[n]]
        BY <2>11
    <2> QED
        BY <1>2, <2>10, <2>12 DEF data, text
<1>14. CASE N # 0
    <2>1. Marked(data, N, off)
        <3>1. ASSUME NEW n \in 1..N
              PROVE  off[n-1] + 1 < off[n]
            <4>1. off[n-1] \in Nat /\ size[n] \in Nat /\ size[n] # 0
                BY <1>5, <1>8
            <4>2. off[n] = off[n-1] + size[n] + 1
                BY <1>10
            <4> QED
                BY <4>1, <4>2
        <3> QED
            BY <1>4, <1>7, <1>12, <3>1 DEF Marked
    <2>2. ReadList(data) = [n \in 1..N |-> SubSeq(data, off[n-1] + 1, off[n] - 1)]
        BY <1>1, <1>4, <1>14, <2>1, ReadBetween
    <2>3. ASSUME NEW n \in 1..N
          PROVE  SubSeq(data, off[n-1] + 1, off[n] - 1) = l[n]
        <3> DEFINE a == off[n-1] + 1
                   b == off[n] - 1
                   s == SubSeq(data, a, b)
                   t == l[n]
        <3>1. off[n-1] \in Nat /\ off[n] \in Nat /\ size[n] \in Nat /\ off[n] = off[n-1] + size[n] + 1
              /\ size[n] # 0 /\ off[n] <= off[N]
            BY <1>5, <1>8, <1>9, <1>10
        <3>2. a \in Int /\ b \in Int /\ b - a + 1 = size[n] /\ a <= b
            BY <3>1
        <3>2a. \A i \in a..b : i \in 1..Len(data)
            <4>1. 1 <= a /\ b <= Len(data) /\ Len(data) \in Nat
                BY <1>7, <3>1
            <4> HIDE DEF a, b
            <4> QED
                BY <3>2, <4>1
        <3>3. \A i \in 1..size[n] : a + i - 1 = off[n-1] + i
            BY <3>1
        <3>4. t \in Seq(Nat) /\ Len(t) = size[n] /\ \A i \in 1..size[n] : data[off[n-1] + i] = t[i]
            BY <1>1, <1>5, <1>10
        <3> HIDE DEF a, b, t
        <3>5. \A i \in a..b : data[i] \in Nat
            BY <1>7, <3>2a
        <3>6. /\ s \in Seq(Nat) /\ Len(s) = b - a + 1
              /\ \A i \in 1..(b - a + 1) : s[i] = data[a + i - 1]
            BY <3>2, <3>5, SubSeqProperties
        <3> HIDE DEF s
        <3>7. Len(s) = Len(t) /\ \A i \in 1..Len(s) : s[i] = t[i]
            <4> DEFINE m == size[n]
            <4>1. Len(s) = m /\ Len(t) = m /\ \A i \in 1..m : s[i] = data[a + i - 1]
                BY <3>2, <3>4, <3>6
            <4>2. \A i \in 1..m : a + i - 1 = off[n-1] + i /\ data[off[n-1] + i] = t[i]
                BY <3>3, <3>4
            <4>3. \A i \in 1..m : s[i] = t[i]
                BY <4>1, <4>2
            <4> QED
                BY <4>1, <4>3
        <3>8. s = t
            BY <3>4, <3>6, <3>7, SeqEqual
        <3> QED
            BY <3>8 DEF s, a, b, t
    <2> QED
        BY <1>2, <2>2, <2>3 DEF data, text
<1> QED
    BY <1>13, <1>14 DEF data, text

-----------------------------------------------------------------------------
(* The value.                                                              *)

\* What is read with the type a value was written with.
LEMMA ReadBack ==
    ASSUME NEW kind \in Kinds, NEW v \in Inputs(kind), Representable(kind, v),
           value = write_to_key(kind, v), read_from_key(kind) # None
    PROVE  read_from_key(kind).kind = kind /\ read_from_key(kind).v = v
<1>0. \A x : (CHOOSE y \in {x} : TRUE) = x
    OBVIOUS
<1>1. ASSUME NEW read, NEW x, read = {} \/ read = {x},
             read_from_key(kind) = IF read = {} THEN None ELSE [kind |-> kind, v |-> CHOOSE y \in read : TRUE]
      PROVE  read_from_key(kind).kind = kind /\ read_from_key(kind).v = x
    BY <1>0, <1>1
<1>2. CASE kind = "String"
    <2>1. v \in Seq(Nat)
        BY <1>2, RegistryAssumption DEF Inputs
    <2>2. value.data = v \o <<0>>
        BY <1>2 DEF write_to_key, WriteString
    <2>3. Text(v \o <<0>>) = v
        <3> DEFINE d == v \o <<0>>
        <3>1. d \in Seq(Nat) /\ Len(d) = Len(v) + 1 /\ Len(v) \in Nat /\ \A i \in 1..Len(v) : d[i] = v[i]
            BY <2>1
        <3> HIDE DEF d
        <3>2. SubSeq(d, 1, Len(d) - 1) = v
            <4> DEFINE m == Len(v)
                       s == SubSeq(d, 1, m)
            <4>1. m \in Int /\ 1 \in Int /\ \A i \in 1..m : d[i] \in Nat /\ d[i] = v[i] /\ 1 + i - 1 = i
                BY <2>1, <3>1
            <4>2. Len(d) - 1 = m /\ m \in Nat
                BY <3>1
            <4> HIDE DEF m
            <4>3. /\ s \in Seq(Nat) /\ Len(s) = (IF 1 <= m THEN m - 1 + 1 ELSE 0)
                  /\ \A i \in 1..(m - 1 + 1) : s[i] = d[1 + i - 1]
                BY <4>1, SubSeqProperties
            <4> HIDE DEF s
            <4>4. m - 1 + 1 = m /\ Len(s) = m
                BY <4>2, <4>3
            <4>5. Len(s) = Len(v) /\ \A i \in 1..Len(s) : s[i] = v[i]
                BY <4>1, <4>3, <4>4 DEF m
            <4>6. s = v
                BY <2>1, <4>3, <4>5, SeqEqual
            <4> QED
                BY <4>2, <4>6 DEF s
        <3>3. Text(d) = SubSeq(d, 1, Len(d) - 1)
            BY DEF Text
        <3>4. Text(d) = v
            BY <3>2, <3>3
        <3> QED
            BY <3>4 DEF d
    <2>4. ReadString = {} \/ ReadString = {v}
        BY <2>2, <2>3 DEF ReadString
    <2>5. read_from_key(kind) = IF ReadString = {} THEN None ELSE [kind |-> kind, v |-> CHOOSE y \in ReadString : TRUE]
        BY <1>2 DEF read_from_key
    <2> QED
        BY <1>1, <2>4, <2>5
<1>3. CASE kind = "u32"
    <2>1. value.data[1] = v
        BY <1>3 DEF write_to_key, WriteU32
    <2>2. ReadU32 = {} \/ ReadU32 = {v}
        BY <2>1 DEF ReadU32
    <2>3. read_from_key(kind) = IF ReadU32 = {} THEN None ELSE [kind |-> kind, v |-> CHOOSE y \in ReadU32 : TRUE]
        BY <1>3 DEF read_from_key
    <2> QED
        BY <1>1, <2>2, <2>3
<1>4. CASE kind = "u64"
    <2>1. value.data[1] = v
        BY <1>4 DEF write_to_key, WriteU64
    <2>2. ReadU64 = {} \/ ReadU64 = {v}
        BY <2>1 DEF ReadU64
    <2>3. read_from_key(kind) = IF ReadU64 = {} THEN None ELSE [kind |-> kind, v |-> CHOOSE y \in ReadU64 : TRUE]
        BY <1>4 DEF read_from_key
    <2> QED
        BY <1>1, <2>2, <2>3
<1>5. CASE kind = "bool"
    <2>0. v \in BOOLEAN
        BY <1>5 DEF Inputs
    <2>1. value.data[1] = IF v THEN 1 ELSE 0
        BY <1>5 DEF write_to_key, WriteBool, WriteU32
    <2>2. ReadU32 = {} \/ ReadU32 = {IF v THEN 1 ELSE 0}
        BY <2>1 DEF ReadU32
    <2>4. ReadBool = {} \/ ReadBool = {v}
        <3> DEFINE b == IF v THEN 1 ELSE 0
        <3>1. (b # 0) = v
            <4>1. CASE v = TRUE
                <5>1. b # 0
                    BY <4>1
                <5> HIDE DEF b
                <5> QED
                    BY <4>1, <5>1, Zenon
            <4>2. CASE v = FALSE
                <5>1. ~(b # 0)
                    BY <4>2
                <5> HIDE DEF b
                <5> QED
                    BY <4>2, <5>1, Zenon
            <4> QED
                BY <2>0, <4>1, <4>2
        <3>2. ReadU32 = {} \/ ReadU32 = {b}
            BY <2>2
        <3> HIDE DEF b
        <3>3. {w # 0 : w \in {b}} = {b # 0}
            BY Zenon
        <3>4. CASE ReadU32 = {b}
            <4>1. ReadBool = {b # 0}
                BY <3>3, <3>4 DEF ReadBool
            <4> QED
                BY <3>1, <4>1, Zenon
        <3>5. CASE ReadU32 = {}
            BY <3>5 DEF ReadBool
        <3> QED
            BY <3>2, <3>4, <3>5
    <2>5. read_from_key(kind) = IF ReadBool = {} THEN None ELSE [kind |-> kind, v |-> CHOOSE y \in ReadBool : TRUE]
        BY <1>5 DEF read_from_key
    <2> QED
        BY <1>1, <2>4, <2>5
<1>6. CASE kind = "binary"
    <2>1. value.data = v
        BY <1>6 DEF write_to_key, WriteBinary
    <2>2. ReadBinary = {} \/ ReadBinary = {v}
        BY <2>1 DEF ReadBinary
    <2>3. read_from_key(kind) = IF ReadBinary = {} THEN None ELSE [kind |-> kind, v |-> CHOOSE y \in ReadBinary : TRUE]
        BY <1>6 DEF read_from_key
    <2> QED
        BY <1>1, <2>2, <2>3
<1>7. CASE kind = "multi"
    <2>1. v \in Seq(Seq(Nat)) /\ Representable("multi", v)
        BY <1>7, RegistryAssumption DEF Inputs
    <2>2. value.data = Join(v) \o <<0>>
        BY <1>7 DEF write_to_key, WriteMulti
    <2>3. ReadList(value.data) = v
        BY <2>1, <2>2, ListRoundTrip
    <2>4. ReadMulti = {} \/ ReadMulti = {v}
        BY <2>3 DEF ReadMulti
    <2>5. read_from_key(kind) = IF ReadMulti = {} THEN None ELSE [kind |-> kind, v |-> CHOOSE y \in ReadMulti : TRUE]
        BY <1>7 DEF read_from_key
    <2> QED
        BY <1>1, <2>4, <2>5
<1> QED
    BY <1>2, <1>3, <1>4, <1>5, <1>6, <1>7 DEF Kinds

\* What the caller wrote is in the key until someone writes over it.
ValueKept ==
    wrote # None =>
        \E kind \in Kinds : \E v \in Inputs(kind) :
            wrote = [kind |-> kind, v |-> v] /\ value = write_to_key(kind, v)

ValueInv == ValueKept /\ ReadsWhatWasWritten

LEMMA GetKeepsValue ==
    ASSUME ValueInv, NEW kind \in Kinds, get_value(kind)
    PROVE  ValueInv'
<1>1. value' = value /\ wrote' = wrote /\ got' = read_from_key(kind)
    BY DEF get_value
<1>2. ValueKept'
    BY <1>1 DEF ValueInv, ValueKept
<1>3. ReadsWhatWasWritten'
    <2> SUFFICES ASSUME wrote # None, got' # None, got'.kind = wrote.kind,
                        Representable(wrote.kind, wrote.v)
                 PROVE  got'.v = wrote.v
        BY <1>1 DEF ReadsWhatWasWritten
    <2>1. PICK k \in Kinds : \E v \in Inputs(k) : wrote = [kind |-> k, v |-> v] /\ value = write_to_key(k, v)
        BY DEF ValueInv, ValueKept
    <2>2. PICK v \in Inputs(k) : wrote = [kind |-> k, v |-> v] /\ value = write_to_key(k, v)
        BY <2>1
    <2>3. wrote.kind = k /\ wrote.v = v /\ Representable(k, v)
        BY <2>2
    <2>4. got'.kind = kind
        <3> DEFINE read == CASE kind = "String" -> ReadString
                             [] kind = "u32" -> ReadU32
                             [] kind = "u64" -> ReadU64
                             [] kind = "bool" -> ReadBool
                             [] kind = "binary" -> ReadBinary
                             [] kind = "multi" -> ReadMulti
        <3>1. read_from_key(kind) = IF read = {} THEN None ELSE [kind |-> kind, v |-> CHOOSE y \in read : TRUE]
            BY DEF read_from_key
        <3> HIDE DEF read
        <3>2. read # {}
            BY <1>1, <3>1
        <3> QED
            BY <1>1, <3>1, <3>2
    <2>5. k = kind
        BY <2>3, <2>4
    <2>6. read_from_key(kind).v = v
        BY <1>1, <2>2, <2>3, <2>5, ReadBack
    <2> QED
        BY <1>1, <2>3, <2>6
<1> QED
    BY <1>2, <1>3 DEF ValueInv

LEMMA SetKeepsValue ==
    ASSUME NEW kind \in Kinds, NEW v \in Inputs(kind), set_value(kind, v)
    PROVE  ValueInv'
BY DEF set_value, ValueInv, ValueKept, ReadsWhatWasWritten

LEMMA ValueStep ==
    ASSUME ValueInv, RegistryNext
    PROVE  ValueInv'
<1>1. ASSUME UNCHANGED <<value, wrote, got>>
      PROVE  ValueInv'
    BY <1>1 DEF ValueInv, ValueKept, ReadsWhatWasWritten
<1>2. ASSUME wrote' = None
      PROVE  ValueInv'
    BY <1>2 DEF ValueInv, ValueKept, ReadsWhatWasWritten
<1>3. ASSUME open \/ create \/ builder_open \/ Drop
      PROVE  ValueInv'
    BY <1>1, <1>3 DEF open, create, builder_open, OpenWith, Drop
<1>4. ASSUME value_exists
      PROVE  ValueInv'
    <2>1. value' = value /\ wrote' = wrote /\ got' = [kind |-> "exists", v |-> value # None]
        BY <1>4 DEF value_exists
    <2>2. got'.kind = "exists"
        BY <2>1
    <2>3. wrote # None => wrote.kind \in Kinds
        BY DEF ValueInv, ValueKept
    <2>4. wrote # None => got'.kind # wrote.kind
        BY <2>2, <2>3 DEF Kinds
    <2> QED
        BY <2>1, <2>4 DEF ValueInv, ValueKept, ReadsWhatWasWritten
<1>5. ASSUME delete_value \/ subkeys \/ value_names \/ \E f \in Foreign : OtherWrites(f)
      PROVE  ValueInv'
    BY <1>2, <1>5 DEF delete_value, subkeys, value_names, ListBegin, OtherWrites
<1>6. ASSUME ListStep \/ ListEnd \/ \E k \in Subkeys : Change(k)
      PROVE  ValueInv'
    BY <1>1, <1>6 DEF ListStep, ListEnd, Change
<1> QED
    BY <1>3, <1>4, <1>5, <1>6, GetKeepsValue, SetKeepsValue DEF RegistryNext

-----------------------------------------------------------------------------
(* The listing.                                                            *)

\* A listing under way: unless a key was deleted, what was there at the start
\* and has a rank below the index is in the names; unless one was created, no
\* name is there twice, and the names that still exist have ranks below it.
ListingTypes ==
    listing \in [of : {"subkeys", "values"}, index : Nat, names : Seq(Nat), start : SUBSET Nat,
                 created : BOOLEAN, deleted : BOOLEAN]

NothingMissed(l, K) ==
    /\ l.start \subseteq K
    /\ \A k \in l.start : RankIn(K, k) < l.index => \E i \in 1..Len(l.names) : l.names[i] = k

NothingTwice(l, K) ==
    /\ \A i, j \in 1..Len(l.names) : i # j => l.names[i] # l.names[j]
    /\ \A i \in 1..Len(l.names) : l.names[i] \in K => RankIn(K, l.names[i]) < l.index

ListingInv ==
    /\ keys \in SUBSET Subkeys
    /\ ListingShiftsOnly
    /\ listing # None => /\ ListingTypes
                         /\ ~listing.deleted => NothingMissed(listing, keys)
                         /\ ~listing.created => NothingTwice(listing, keys)

LEMMA KeysFinite ==
    ASSUME NEW K \in SUBSET Subkeys
    PROVE  K \in SUBSET Nat /\ IsFiniteSet(K)
BY RegistryAssumption, FS_Subset

LEMMA ListBegins ==
    ASSUME ListingInv, NEW what \in {"subkeys", "values"}, ListBegin(what)
    PROVE  ListingInv'
<1>1. /\ keys' = keys /\ listed' = listed
      /\ listing' = [of |-> what, index |-> 0, names |-> <<>>, start |-> keys,
                     created |-> FALSE, deleted |-> FALSE]
    BY DEF ListBegin
<1>2. ListingShiftsOnly'
    BY <1>1 DEF ListingInv, ListingShiftsOnly
<1>3. keys \in SUBSET Nat /\ IsFiniteSet(keys)
    BY KeysFinite DEF ListingInv
<1>4. ListingTypes'
    BY <1>1, <1>3 DEF ListingTypes
<1>5. listing'.start = keys /\ listing'.index = 0 /\ listing'.names = <<>>
    BY <1>1
<1>6. NothingMissed(listing', keys')
    <2>1. \A k \in keys : RankIn(keys, k) \in Nat /\ ~(RankIn(keys, k) < 0)
        BY <1>3, RankFacts
    <2> QED
        BY <1>1, <1>5, <2>1 DEF NothingMissed
<1>7. NothingTwice(listing', keys')
    <2>1. \A i \in 1..Len(<<>>) : FALSE
        OBVIOUS
    <2> QED
        BY <1>5, <2>1 DEF NothingTwice
<1> QED
    BY <1>1, <1>2, <1>4, <1>6, <1>7 DEF ListingInv

\* A key is created or deleted before, at or after the index.
LEMMA ChangeShifts ==
    ASSUME ListingInv, NEW k \in Subkeys, Change(k)
    PROVE  ListingInv'
<1>1. /\ listed' = listed
      /\ keys' = IF k \in keys THEN keys \ {k} ELSE keys \cup {k}
    BY DEF Change
<1>2. ListingShiftsOnly' /\ keys' \in SUBSET Subkeys
    BY <1>1 DEF ListingInv, ListingShiftsOnly
<1>3. /\ keys \in SUBSET Nat /\ IsFiniteSet(keys)
      /\ keys' \in SUBSET Nat /\ IsFiniteSet(keys')
    BY <1>2, KeysFinite DEF ListingInv
<1>4. CASE listing = None
    BY <1>2, <1>4 DEF Change, ListingInv
<1>5. CASE listing # None
    <2>1. listing' = [listing EXCEPT !.created = @ \/ k \notin keys, !.deleted = @ \/ k \in keys]
        BY <1>5 DEF Change
    <2>2. ListingTypes
        BY <1>5 DEF ListingInv
    <2>3. /\ listing'.of = listing.of /\ listing'.index = listing.index /\ listing'.names = listing.names
          /\ listing'.start = listing.start
          /\ listing'.created = (listing.created \/ k \notin keys)
          /\ listing'.deleted = (listing.deleted \/ k \in keys)
        BY <2>1, <2>2 DEF ListingTypes
    <2>4. ListingTypes'
        BY <2>1, <2>2 DEF ListingTypes
    <2>5. listing.names \in Seq(Nat) /\ listing.start \in SUBSET Nat /\ listing.index \in Nat
        BY <2>2 DEF ListingTypes
    <2>6. ASSUME ~listing'.deleted
          PROVE  NothingMissed(listing', keys')
        <3>1. ~listing.deleted /\ k \notin keys
            BY <2>3, <2>6
        <3>2. NothingMissed(listing, keys) /\ keys' = keys \cup {k}
            BY <1>1, <1>5, <3>1 DEF ListingInv
        <3>3. \A x \in listing.start : RankIn(keys', x) < listing.index => RankIn(keys, x) < listing.index
            <4> SUFFICES ASSUME NEW x \in listing.start, RankIn(keys', x) < listing.index
                         PROVE  RankIn(keys, x) < listing.index
                OBVIOUS
            <4>1. keys \in SUBSET keys' /\ x \in Nat
                BY <2>5, <3>2
            <4>2. RankIn(keys, x) \in Nat /\ RankIn(keys', x) \in Nat /\ RankIn(keys, x) <= RankIn(keys', x)
                BY <1>3, <4>1, RankGrows
            <4> QED
                BY <2>5, <4>2
        <3> QED
            BY <2>3, <3>2, <3>3 DEF NothingMissed
    <2>7. ASSUME ~listing'.created
          PROVE  NothingTwice(listing', keys')
        <3>1. ~listing.created /\ k \in keys
            BY <2>3, <2>7
        <3>2. NothingTwice(listing, keys) /\ keys' = keys \ {k}
            BY <1>1, <1>5, <3>1 DEF ListingInv
        <3>3. ASSUME NEW x \in keys'
              PROVE  RankIn(keys, x) < listing.index => RankIn(keys', x) < listing.index
            <4>1. keys' \in SUBSET keys /\ x \in Nat
                BY <1>3, <3>2
            <4>2. RankIn(keys, x) \in Nat /\ RankIn(keys', x) \in Nat /\ RankIn(keys', x) <= RankIn(keys, x)
                BY <1>3, <4>1, RankGrows
            <4> QED
                BY <2>5, <4>2
        <3>4. keys' \subseteq keys
            BY <3>2
        <3> QED
            BY <2>3, <3>2, <3>3, <3>4 DEF NothingTwice
    <2> QED
        BY <1>2, <2>4, <2>6, <2>7 DEF ListingInv
<1> QED
    BY <1>4, <1>5

\* The next name is the one key of that rank.
LEMMA NextName ==
    ASSUME ListingInv, listing # None, ~NoMoreItems(listing.index)
    PROVE  /\ AtIndex(listing.index) \in keys
           /\ RankIn(keys, AtIndex(listing.index)) = listing.index
<1>1. keys \in SUBSET Nat /\ IsFiniteSet(keys) /\ listing.index \in Nat
    BY KeysFinite DEF ListingInv, ListingTypes
<1>2. listing.index < Cardinality(keys)
    <2>1. Cardinality(keys) \in Nat
        BY <1>1, FS_CardinalityType
    <2> QED
        BY <1>1, <2>1 DEF NoMoreItems
<1>3. \E k \in keys : RankIn(keys, k) = listing.index
    BY <1>1, <1>2, RankTaken
<1>4. AtIndex(listing.index) = CHOOSE k \in keys : RankIn(keys, k) = listing.index
    BY DEF AtIndex, RankIn
<1> QED
    BY <1>3, <1>4

LEMMA ListSteps ==
    ASSUME ListingInv, ListStep
    PROVE  ListingInv'
<1> DEFINE name == AtIndex(listing.index)
<1>1. /\ listing # None /\ ~NoMoreItems(listing.index)
      /\ keys' = keys /\ listed' = listed
      /\ listing' = IF listing.of = "values" /\ name \in Long THEN None
                    ELSE [listing EXCEPT !.index = @ + 1, !.names = Append(@, name)]
    BY DEF ListStep
<1>2. name \in keys /\ RankIn(keys, name) = listing.index
    BY <1>1, NextName
<1> HIDE DEF name
<1>3. ListingShiftsOnly' /\ keys' \in SUBSET Subkeys
    BY <1>1 DEF ListingInv, ListingShiftsOnly
<1>4. keys \in SUBSET Nat /\ IsFiniteSet(keys) /\ name \in Nat
    BY <1>2, KeysFinite DEF ListingInv
<1>5. CASE listing' = None
    BY <1>3, <1>5 DEF ListingInv
<1>6. CASE listing' # None
    <2>1. listing' = [listing EXCEPT !.index = @ + 1, !.names = Append(@, name)]
        BY <1>1, <1>6
    <2>2. ListingTypes
        BY <1>1 DEF ListingInv
    <2>3. listing.names \in Seq(Nat) /\ listing.start \in SUBSET Nat /\ listing.index \in Nat
        BY <2>2 DEF ListingTypes
    <2>4. /\ listing'.index = listing.index + 1 /\ listing'.names = Append(listing.names, name)
          /\ listing'.start = listing.start /\ listing'.created = listing.created
          /\ listing'.deleted = listing.deleted
        BY <2>1, <2>2 DEF ListingTypes
    <2> DEFINE old == listing.names
               new == listing'.names
    <2>5. /\ new \in Seq(Nat) /\ Len(new) = Len(old) + 1 /\ Len(old) \in Nat
          /\ \A i \in 1..Len(old) : new[i] = old[i]
          /\ new[Len(old) + 1] = name
        BY <1>4, <2>3, <2>4
    <2>6. \A i \in 1..Len(new) : i \in 1..Len(old) \/ i = Len(old) + 1
        BY <2>5
    <2>7. ListingTypes'
        <3>1. Append(listing.names, name) \in Seq(Nat) /\ listing.index + 1 \in Nat
            BY <1>4, <2>3
        <3> QED
            BY <2>1, <2>2, <3>1 DEF ListingTypes
    <2>8. ASSUME ~listing'.deleted
          PROVE  NothingMissed(listing', keys')
        <3>1. NothingMissed(listing, keys)
            BY <1>1, <2>4, <2>8 DEF ListingInv
        <3>2. ASSUME NEW k \in listing.start, RankIn(keys, k) < listing.index + 1
              PROVE  \E i \in 1..Len(new) : new[i] = k
            <4>1. k \in keys /\ RankIn(keys, k) \in Nat
                BY <1>4, <2>3, <3>1, RankFacts DEF NothingMissed
            <4>2. CASE RankIn(keys, k) = listing.index
                <5>1. k = name
                    BY <1>2, <1>4, <4>1, <4>2, RankFacts
                <5>2. Len(old) + 1 \in 1..Len(new)
                    BY <2>5
                <5> QED
                    BY <2>5, <5>1, <5>2
            <4>3. CASE RankIn(keys, k) # listing.index
                <5>1. RankIn(keys, k) < listing.index
                    BY <2>3, <3>2, <4>1, <4>3
                <5>2. PICK i \in 1..Len(old) : old[i] = k
                    BY <3>1, <5>1 DEF NothingMissed
                <5>3. i \in 1..Len(new)
                    BY <2>5
                <5> QED
                    BY <2>5, <5>2, <5>3
            <4> QED
                BY <4>2, <4>3
        <3> QED
            BY <1>1, <2>4, <3>1, <3>2 DEF NothingMissed
    <2>9. ASSUME ~listing'.created
          PROVE  NothingTwice(listing', keys')
        <3>1. NothingTwice(listing, keys)
            BY <1>1, <2>4, <2>9 DEF ListingInv
        <3>2. \A i \in 1..Len(old) : old[i] # name
            <4> SUFFICES ASSUME NEW i \in 1..Len(old), old[i] = name
                         PROVE  FALSE
                OBVIOUS
            <4>1. RankIn(keys, name) < listing.index
                BY <1>2, <3>1 DEF NothingTwice
            <4> QED
                BY <1>2, <2>3, <4>1
        <3>3. ASSUME NEW i \in 1..Len(new), NEW j \in 1..Len(new), i # j
              PROVE  new[i] # new[j]
            <4>1. CASE i \in 1..Len(old) /\ j \in 1..Len(old)
                BY <2>5, <3>1, <3>3, <4>1 DEF NothingTwice
            <4>2. CASE i = Len(old) + 1 /\ j \in 1..Len(old)
                BY <2>5, <3>2, <4>2
            <4>3. CASE i \in 1..Len(old) /\ j = Len(old) + 1
                BY <2>5, <3>2, <4>3
            <4> QED
                BY <2>6, <3>3, <4>1, <4>2, <4>3
        <3>4. ASSUME NEW i \in 1..Len(new), new[i] \in keys
              PROVE  RankIn(keys, new[i]) < listing.index + 1
            <4>1. CASE i \in 1..Len(old)
                <5>1. new[i] = old[i] /\ RankIn(keys, old[i]) < listing.index
                    BY <2>5, <3>1, <3>4, <4>1 DEF NothingTwice
                <5>2. RankIn(keys, new[i]) \in Nat
                    BY <1>4, <3>4, RankFacts
                <5> QED
                    BY <2>3, <5>1, <5>2
            <4>2. CASE i = Len(old) + 1
                <5>1. RankIn(keys, new[i]) = listing.index
                    BY <1>2, <2>5, <4>2
                <5> QED
                    BY <2>3, <5>1
            <4> QED
                BY <2>6, <4>1, <4>2
        <3> QED
            BY <1>1, <2>4, <3>3, <3>4 DEF NothingTwice
    <2> QED
        BY <1>3, <2>7, <2>8, <2>9 DEF ListingInv
<1> QED
    BY <1>5, <1>6

\* At the end the index is past every rank.
LEMMA ListEnds ==
    ASSUME ListingInv, ListEnd
    PROVE  ListingInv'
<1>1. /\ listing # None /\ NoMoreItems(listing.index)
      /\ listed' = listing /\ listing' = None /\ keys' = keys
    BY DEF ListEnd
<1>2. ListingTypes /\ keys \in SUBSET Nat /\ IsFiniteSet(keys)
    BY <1>1, KeysFinite DEF ListingInv
<1>3. listing.names \in Seq(Nat) /\ listing.start \in SUBSET Nat /\ listing.index \in Nat
    BY <1>2 DEF ListingTypes
<1>4. DOMAIN listing.names = 1..Len(listing.names)
    BY <1>3
<1>5. ASSUME ~listing.deleted
      PROVE  listing.start \subseteq {listing.names[i] : i \in DOMAIN listing.names}
    <2>1. NothingMissed(listing, keys)
        BY <1>1, <1>5 DEF ListingInv
    <2>2. ASSUME NEW k \in listing.start
          PROVE  \E i \in DOMAIN listing.names : k = listing.names[i]
        <3>0. k \in keys
            BY <2>1 DEF NothingMissed
        <3>1. k \in keys /\ RankIn(keys, k) \in Nat /\ RankIn(keys, k) < Cardinality(keys)
              /\ Cardinality(keys) \in Nat
            BY <1>2, <3>0, RankFacts
        <3>2. RankIn(keys, k) < listing.index
            BY <1>1, <1>3, <3>1 DEF NoMoreItems
        <3> QED
            BY <1>4, <2>1, <3>2 DEF NothingMissed
    <2> QED
        BY <2>2
<1>6. ~listing.created => \A i, j \in DOMAIN listing.names : i # j => listing.names[i] # listing.names[j]
    BY <1>1, <1>4 DEF ListingInv, NothingTwice
<1>7. ListingShiftsOnly'
    BY <1>1, <1>5, <1>6 DEF ListingShiftsOnly
<1> QED
    BY <1>1, <1>7 DEF ListingInv

LEMMA ListingStep ==
    ASSUME ListingInv, RegistryNext
    PROVE  ListingInv'
<1>1. ASSUME UNCHANGED <<keys, listing>>, listed' = listed \/ listed' = None
      PROVE  ListingInv'
    <2>1. ListingTypes => ListingTypes'
        BY <1>1 DEF ListingTypes
    <2>2. ListingShiftsOnly'
        BY <1>1 DEF ListingInv, ListingShiftsOnly
    <2> QED
        BY <1>1, <2>1, <2>2 DEF ListingInv
<1>2. ASSUME open \/ create \/ builder_open \/ Drop
      PROVE  ListingInv'
    BY <1>1, <1>2 DEF open, create, builder_open, OpenWith, Drop, others
<1>3. ASSUME NEW kind \in Kinds, get_value(kind) \/ \E v \in Inputs(kind) : set_value(kind, v)
      PROVE  ListingInv'
    BY <1>1, <1>3 DEF get_value, set_value, others
<1>4. ASSUME value_exists \/ delete_value \/ \E f \in Foreign : OtherWrites(f)
      PROVE  ListingInv'
    BY <1>1, <1>4 DEF value_exists, delete_value, OtherWrites, others
<1>5. ASSUME subkeys \/ value_names
      PROVE  ListingInv'
    BY <1>5, ListBegins DEF subkeys, value_names
<1> QED
    BY <1>2, <1>3, <1>4, <1>5, ChangeShifts, ListSteps, ListEnds DEF RegistryNext

\* Neither a reader's buffer nor another program at work turns a value or a
\* list of names into a different one (RegistryKey::get_value, set_value,
\* subkeys and value_names): for any texts, lists, buffer sizes and subkeys, and
\* any number of changes.
THEOREM RegistryIsFaithful == RegistrySpec => []RegistryFaithful
<1> DEFINE Inv == ValueInv /\ ListingInv
<1>1. RegistryInit => Inv
    BY DEF RegistryInit, ValueInv, ValueKept, ReadsWhatWasWritten, ListingInv, ListingShiftsOnly
<1>2. Inv /\ [RegistryNext]_registryVars => Inv'
    <2> SUFFICES ASSUME Inv, [RegistryNext]_registryVars
                 PROVE  Inv'
        OBVIOUS
    <2>1. CASE RegistryNext
        BY <2>1, ValueStep, ListingStep
    <2>2. CASE UNCHANGED registryVars
        <3>1. ValueInv'
            BY <2>2 DEF registryVars, ValueInv, ValueKept, ReadsWhatWasWritten
        <3>2. ListingInv'
            BY <2>2 DEF registryVars, ListingInv, ListingShiftsOnly, ListingTypes
        <3> QED
            BY <3>1, <3>2
    <2> QED
        BY <2>1, <2>2
<1>3. Inv => RegistryFaithful
    BY DEF ValueInv, ListingInv, RegistryFaithful
<1> QED
    BY <1>1, <1>2, <1>3, PTL DEF RegistrySpec
=============================================================================
