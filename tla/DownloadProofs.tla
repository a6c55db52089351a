--------------------------- MODULE DownloadProofs ---------------------------
(***************************************************************************)
(* Download for every number of files, fragments, threads and crashes: the *)
(* control file never promises bytes that are not there, a complete file   *)
(* is whole, the maps and lists of the file manager name the same files    *)
(* whatever is added, deleted and completed, and everything has its type:  *)
(* a number in use is one that was given out, and it has a path.           *)
(***************************************************************************)
EXTENDS Download, SequenceTheorems, FiniteSetTheorems, WellFoundedInduction, TLAPS

Active(w) == worker[w].pc \in {"write", "mark"}

(* ------------------------ the inductive invariant ------------------------ *)

\* A file that is open is there: removing it waits until it is closed.
FileInv ==
    /\ data \in [Paths -> {None} \cup SUBSET Fragments]
    /\ DOMAIN ctrl = Paths
    /\ opened \subseteq Paths
    /\ \A p \in opened : data[p] # None

\* The rows have different numbers, none beyond the counter, and their files exist.
RowInv ==
    /\ m_UnusedFileSeq \in Nat
    /\ rows \subseteq [seq : Nat, path : Paths, type : {"DOWNLOAD", "COMPLETE"}]
    /\ \A r \in rows : r.seq <= m_UnusedFileSeq /\ data[r.path] # None
    /\ \A r, q \in rows : r.seq = q.seq => r = q

\* The file numbers in use are those of open files.
MapInv ==
    \A s \in m_FileMap :
        /\ s \in DOMAIN path /\ path[s] \in opened
        /\ s \in Nat /\ s <= m_UnusedFileSeq

\* The number of a file that is being added is nobody else's.
GuiInv ==
    gui.pc # "idle" =>
        /\ DOMAIN gui = {"pc", "path", "seq"}
        /\ gui.path \in opened
        /\ gui.seq \in Nat /\ gui.seq <= m_UnusedFileSeq
        /\ gui.seq \notin m_FileMap
        /\ \A r \in rows : r.seq # gui.seq
        /\ \A w \in Workers : Active(w) => worker[w].seq # gui.seq

\* A worker's file is open and stays at its path, and when the worker is about
\* to clear the bit of a fragment, the bytes are there.
WorkInv ==
    /\ DOMAIN worker = Workers
    /\ \A w \in Workers : Active(w) =>
           /\ DOMAIN worker[w] = {"pc", "seq", "frag"}
           /\ worker[w].seq \in Nat /\ worker[w].seq <= m_UnusedFileSeq
           /\ worker[w].seq \in DOMAIN path /\ path[worker[w].seq] \in opened
           /\ worker[w].pc = "mark" /\ worker[w].frag \in Fragments =>
                  worker[w].frag \in data[path[worker[w].seq]]

IInv == FileInv /\ RowInv /\ MapInv /\ GuiInv /\ WorkInv /\ DoneMeansWritten

(* -------------------------------- lemmas --------------------------------- *)

\* A bounded set of natural numbers has a greatest one.
LEMMA GreatestExists ==
    ASSUME NEW S \in SUBSET Nat, S # {}, NEW n \in Nat, \A i \in S : i <= n
    PROVE  Max(S) \in S /\ \A i \in S : i <= Max(S)
<1> DEFINE Less == {ss \in Nat \X Nat : ss[1] < ss[2]}
           T == {n - i : i \in S}
<1>1. IsWellFoundedOn(Less, Nat)
    BY NatLessThanWellFounded, Zenon DEF OpToRel
<1>2. T \subseteq Nat /\ T # {}
    <2>1. \A i \in S : n - i \in Nat
        OBVIOUS
    <2> QED
        BY <2>1
<1>3. PICK x \in T : \A y \in T : ~(<<y, x>> \in Less)
    <2> HIDE DEF T, Less
    <2> QED
        BY ONLY <1>1, <1>2, WFMin
<1>4. \A y \in T : x <= y
    <2> SUFFICES ASSUME NEW y \in T
                 PROVE  x <= y
        OBVIOUS
    <2> HIDE DEF T
    <2>1. x \in Nat /\ y \in Nat
        BY <1>2
    <2>2. <<y, x>> \notin Less
        BY <1>3
    <2>3. <<y, x>>[1] = y /\ <<y, x>>[2] = x
        OBVIOUS
    <2>4. ~(y < x)
        BY <2>1, <2>2, <2>3
    <2> QED
        BY <2>1, <2>4
<1>5. PICK m \in S : x = n - m
    OBVIOUS
<1>6. \A i \in S : m >= i
    <2> TAKE i \in S
    <2>1. n - m <= n - i
        BY <1>4, <1>5
    <2> QED
        BY <2>1
<1> QED
    BY <1>6 DEF Max

\* The control file has a bit for every fragment.
LEMMA FragmentsHaveBits == Fragments \subseteq Bits
<1>1. FragmentNum \in Nat \ {0} /\ SegmentSize \in Nat \ {0}
    BY DownloadAssumption
<1>2. SegmentNum \in Nat
    BY <1>1 DEF SegmentNum
<1> QED
    BY <1>1, <1>2 DEF Fragments, Bits

\* Adding a file puts at most its own number into the map, and what is loaded are
\* the numbers of rows.
LEMMA AddedNumbers ==
    ASSUME NEW s, NEW c
    PROVE  RefreshDownloadList(AddDownloadFile(Manager, s, c)).fm \subseteq m_FileMap \cup {s}
BY DEF RefreshDownloadList, AddDownloadFile, Manager

\* init() enters the numbers of the rows it keeps.
LEMMA LoadedNumbers == Load(rows).fm = {r.seq : r \in Loaded(rows)}
BY DEF Load, RefreshDownloadList

\* None is no set of fragments, and stays None when a bit is cleared.
LEMMA NoneIsNoFragments == \A S \in SUBSET Fragments : S # None
BY DownloadAssumption DEF Fragments, None

(* ------------------------------- the steps ------------------------------- *)

\* What the invariant speaks of.
watched == <<disk, rows, m_UnusedFileSeq, opened, path, m_FileMap, worker, gui>>

\* Steps that touch none of it.
LEMMA Unmoved == IInv /\ UNCHANGED watched => IInv'
BY DEF IInv, watched, disk, FileInv, RowInv, MapInv, GuiInv, WorkInv, DoneMeansWritten,
       Active, Exists, RowOf

\* IInv, for each action: the file dialog adds a file, ...
LEMMA TryAddKeeps ==
    ASSUME IInv, NEW p \in Paths, TryAddDownloadFile(p)
    PROVE  IInv'
<1> USE DEF IInv
<1> DEFINE s == m_UnusedFileSeq + 1
<1>0. /\ m_UnusedFileSeq' = s /\ s \in Nat
      /\ UNCHANGED <<ctrl, rows, path, m_FileMap, worker>>
    BY DEF TryAddDownloadFile, RowInv, manager
<1>1. CASE ~CanInit(p)
    <2>1. UNCHANGED <<opened, data, gui, suspect>>
        BY <1>1 DEF TryAddDownloadFile
    <2> QED
        BY <1>0, <2>1 DEF FileInv, RowInv, MapInv, GuiInv, WorkInv, DoneMeansWritten,
                          Active, Exists
<1>2. CASE CanInit(p)
    <2>1. /\ opened' = opened \cup {p}
          /\ data' = [data EXCEPT ![p] = IF Exists(data, p) THEN @ ELSE {}]
          /\ gui' = [pc |-> IF Exists(ctrl, p) THEN "insert" ELSE "create",
                     path |-> p, seq |-> s]
          /\ suspect' = IF ~Exists(data, p) /\ Exists(ctrl, p) THEN suspect \cup {p}
                        ELSE suspect
        BY <1>0, <1>2 DEF TryAddDownloadFile
    <2>2. /\ \A q \in Paths : data[q] # None => data'[q] = data[q]
          /\ data'[p] # None
        BY <2>1, NoneIsNoFragments DEF FileInv, Exists
    <2>3. FileInv'
        BY <1>0, <2>1, <2>2 DEF FileInv, Exists
    <2>4. RowInv'
        BY <1>0, <2>2 DEF RowInv
    <2>5. MapInv'
        BY <1>0, <2>1 DEF MapInv, RowInv
    <2>6. GuiInv'
        BY <1>0, <2>1 DEF GuiInv, MapInv, RowInv, WorkInv, Active
    <2>7. WorkInv'
        BY <1>0, <2>1, <2>2 DEF WorkInv, RowInv, FileInv, Active
    <2>8. DoneMeansWritten'
        BY <1>0, <2>1, <2>2 DEF DoneMeansWritten, FileInv, Exists
    <2> QED
        BY <2>3, <2>4, <2>5, <2>6, <2>7, <2>8
<1> QED
    BY <1>1, <1>2

\* ... its control file is made, ...
LEMMA InitCtrlKeeps == IInv /\ InitCtrlFile => IInv'
<1> SUFFICES ASSUME IInv, InitCtrlFile PROVE IInv'
    OBVIOUS
<1> USE DEF IInv
<1>1. PICK ones :
          /\ ctrl' = [ctrl EXCEPT ![gui.path] = ones]
          /\ suspect' = IF ones = Bits THEN suspect \ {gui.path} ELSE suspect \cup {gui.path}
          /\ gui' = [gui EXCEPT !.pc = IF ones = Bits THEN "insert" ELSE "fill"]
    BY DEF InitCtrlFile
<1>2. /\ gui.pc # "idle"
      /\ UNCHANGED <<data, rows, m_UnusedFileSeq, opened, path, m_FileMap, worker>>
    BY DEF InitCtrlFile, manager, objects, database
<1>3. DOMAIN gui' = DOMAIN gui /\ gui'.path = gui.path /\ gui'.seq = gui.seq
    BY <1>1, <1>2 DEF GuiInv
<1>4. GuiInv'
    BY <1>2, <1>3 DEF GuiInv, Active
<1>5. DoneMeansWritten'
    BY <1>1, <1>2, FragmentsHaveBits DEF DoneMeansWritten, FileInv, GuiInv, Exists
<1> QED
    BY <1>1, <1>2, <1>4, <1>5 DEF FileInv, RowInv, MapInv, WorkInv, Active

\* ... it gets its row and its place in the maps.
LEMMA InsertKeeps == IInv /\ InsertFileInfo => IInv'
<1> SUFFICES ASSUME IInv, InsertFileInfo PROVE IInv'
    OBVIOUS
<1> USE DEF IInv
<1> DEFINE s == gui.seq p == gui.path
           r == [seq |-> s, path |-> p, type |-> "DOWNLOAD"]
<1>1. /\ gui.pc # "idle" /\ gui' = Idle
      /\ rows' = rows \cup {r}
      /\ path' = [x \in DOMAIN path \cup {s} |-> IF x = s THEN p ELSE path[x]]
      /\ UNCHANGED <<data, ctrl, suspect, m_UnusedFileSeq, opened, worker>>
    BY DEF InsertFileInfo, disk
<1>2. m_FileMap' \subseteq m_FileMap \cup {s}
    BY AddedNumbers DEF InsertFileInfo, SetManager
<1>3. s \in Nat /\ s <= m_UnusedFileSeq /\ p \in opened /\ p \in Paths /\ data[p] # None
    BY <1>1 DEF GuiInv, FileInv
<1>4. /\ s \notin m_FileMap
      /\ \A q \in rows : q.seq # s
      /\ \A w \in Workers : Active(w) => worker[w].seq # s
    BY <1>1 DEF GuiInv
<1>5. RowInv'
    <2>1. r \in [seq : Nat, path : Paths, type : {"DOWNLOAD", "COMPLETE"}]
          /\ r.seq = s /\ r.path = p
        BY <1>3
    <2> HIDE DEF r, s, p
    <2> QED
        BY <1>1, <1>3, <1>4, <2>1 DEF RowInv
<1>6. MapInv'
    BY <1>1, <1>2, <1>3 DEF MapInv
<1>7. WorkInv'
    BY <1>1, <1>4 DEF WorkInv, Active
<1>8. GuiInv'
    BY <1>1 DEF GuiInv, Idle
<1> QED
    BY <1>1, <1>5, <1>6, <1>7, <1>8 DEF FileInv, DoneMeansWritten, Exists

\* A download is deleted, and files are removed.
LEMMA DeleteKeeps ==
    ASSUME IInv, NEW s \in Seqs, NEW kill \in BOOLEAN, DeleteFile(s, kill)
    PROVE  IInv'
<1> USE DEF IInv
<1>1. /\ rows' \subseteq rows
      /\ UNCHANGED <<data, ctrl, suspect, m_UnusedFileSeq, opened, path, worker, gui>>
    BY DEF DeleteFile, disk, objects
<1>2. m_FileMap' \subseteq m_FileMap
    BY DEF DeleteFile, KillDownloadFile, SetManager, Killed, manager
<1> QED
    BY <1>1, <1>2 DEF FileInv, RowInv, MapInv, GuiInv, WorkInv, DoneMeansWritten,
                      Active, Exists

LEMMA RemoveKeeps ==
    ASSUME IInv, NEW p \in Paths, RemoveFile(p)
    PROVE  IInv'
<1> USE DEF IInv
<1>1. /\ data' = [data EXCEPT ![p] = None]
      /\ p \notin opened
      /\ \A r \in rows : r.path # p
      /\ UNCHANGED <<ctrl, suspect, rows, m_UnusedFileSeq, opened, path, m_FileMap, worker, gui>>
    BY DEF RemoveFile, manager, objects, database
<1>2. FileInv'
    BY <1>1 DEF FileInv
<1>3. RowInv'
    BY <1>1 DEF FileInv, RowInv
<1>4. WorkInv'
    BY <1>1 DEF FileInv, WorkInv, Active
<1>5. MapInv' /\ GuiInv'
    BY <1>1 DEF MapInv, GuiInv, Active
<1>6. DoneMeansWritten'
    BY <1>1 DEF FileInv, DoneMeansWritten, Exists
<1> QED
    BY <1>2, <1>3, <1>4, <1>5, <1>6

\* The hash check, and an answer that is taken, written and marked.
LEMMA Sha1Keeps ==
    ASSUME IInv, NEW s \in Seqs, Sha1Check(s)
    PROVE  IInv'
<1> USE DEF IInv
<1> DEFINE Done(r) == [r EXCEPT !.type = "COMPLETE"]
<1>1. UNCHANGED <<data, ctrl, suspect, m_UnusedFileSeq, opened, path, m_FileMap, worker, gui>>
    BY DEF Sha1Check, disk, objects, manager
<1>2. CASE rows' = rows
    BY <1>1, <1>2, Unmoved DEF watched, disk
<1>3. CASE rows' = (rows \ RowOf(s)) \cup {Done(r) : r \in RowOf(s)}
    <2>1. \A r \in rows : /\ Done(r) \in [seq : Nat, path : Paths, type : {"DOWNLOAD", "COMPLETE"}]
                          /\ Done(r).seq = r.seq /\ Done(r).path = r.path
        BY DEF RowInv
    <2> HIDE DEF Done
    <2>2. \A x \in rows' :
              \/ x \in rows /\ x.seq # s
              \/ \E r \in rows : r.seq = s /\ x = Done(r)
        BY <1>3 DEF RowOf
    <2>3. \A x \in rows' : \E r \in rows : x.seq = r.seq /\ x.path = r.path
        BY <2>1, <2>2
    <2>4. rows' \subseteq [seq : Nat, path : Paths, type : {"DOWNLOAD", "COMPLETE"}]
        BY <2>1, <2>2 DEF RowInv
    <2>5. \A x, y \in rows' : x.seq = y.seq => x = y
        BY <2>1, <2>2 DEF RowInv
    <2>6. RowInv'
        BY <1>1, <2>3, <2>4, <2>5 DEF RowInv
    <2>7. GuiInv'
        BY <1>1, <2>3 DEF GuiInv, Active
    <2> QED
        BY <1>1, <2>6, <2>7 DEF FileInv, MapInv, WorkInv, DoneMeansWritten, Active, Exists
<1> QED
    BY <1>2, <1>3 DEF Sha1Check

LEMMA ReceiveKeeps ==
    ASSUME IInv, NEW w \in Workers, NEW m \in net, Receive(w, m)
    PROVE  IInv'
<1> USE DEF IInv
<1>1. UNCHANGED <<data, ctrl, suspect, rows, m_UnusedFileSeq, opened, path, m_FileMap, gui>>
    BY DEF Receive, disk, objects, manager, database
<1> DEFINE s == FileOf(m[1])
<1>2. CASE UNCHANGED worker
    BY <1>1, <1>2, Unmoved DEF watched, disk
<1>3. CASE s # NoFile /\ worker' = [worker EXCEPT ![w] = [pc |-> "write", seq |-> s, frag |-> m[2]]]
    <2>1. s \in m_FileMap
        BY <1>3 DEF FileOf
    <2> HIDE DEF s
    <2>2. /\ s \in Nat /\ s <= m_UnusedFileSeq /\ s \in DOMAIN path /\ path[s] \in opened
        BY <2>1 DEF MapInv
    <2>3. WorkInv'
        BY <1>1, <1>3, <2>2 DEF WorkInv, Active
    <2>4. GuiInv'
        BY <1>1, <1>3, <2>1 DEF GuiInv, WorkInv, Active
    <2> QED
        BY <1>1, <2>3, <2>4 DEF FileInv, RowInv, MapInv, DoneMeansWritten, Exists
<1> QED
    BY <1>2, <1>3 DEF Receive

LEMMA WriteKeeps ==
    ASSUME IInv, NEW w \in Workers, Write(w)
    PROVE  IInv'
<1> USE DEF IInv
<1> DEFINE p == path[worker[w].seq] f == worker[w].frag
<1>1. /\ worker[w].pc = "write"
      /\ data' = [data EXCEPT ![p] = data[p] \cup ({f} \cap Fragments)]
      /\ worker' = [worker EXCEPT ![w].pc = "mark"]
      /\ UNCHANGED <<ctrl, suspect, rows, m_UnusedFileSeq, opened, path, m_FileMap, gui>>
    BY DEF Write, Written, manager, objects, database
<1>2. /\ DOMAIN worker = Workers /\ DOMAIN worker[w] = {"pc", "seq", "frag"}
      /\ p \in opened /\ p \in Paths
    BY <1>1 DEF WorkInv, Active, FileInv
<1>4. /\ \A v \in Workers \ {w} : worker'[v] = worker[v]
      /\ DOMAIN worker' = Workers
      /\ DOMAIN worker'[w] = {"pc", "seq", "frag"}
      /\ worker'[w].pc = "mark" /\ worker'[w].seq = worker[w].seq /\ worker'[w].frag = f
    BY <1>1, <1>2
<1> HIDE DEF p
<1>3. data[p] \subseteq Fragments
    BY <1>2 DEF FileInv
<1>5. /\ data' \in [Paths -> {None} \cup SUBSET Fragments]
      /\ \A q \in Paths : data[q] \subseteq data'[q]
      /\ \A q \in Paths : q # p => data'[q] = data[q]
      /\ data'[p] \in SUBSET Fragments
      /\ f \in Fragments => f \in data'[p]
    BY <1>1, <1>2, <1>3 DEF FileInv
<1>6. data'[p] # None
    BY <1>5, NoneIsNoFragments
<1>7. FileInv'
    BY <1>1, <1>5, <1>6 DEF FileInv
<1>8. RowInv'
    BY <1>1, <1>5, <1>6 DEF RowInv
<1>9. WorkInv'
    <2> SUFFICES ASSUME NEW v \in Workers, Active(v)'
                 PROVE  /\ DOMAIN worker'[v] = {"pc", "seq", "frag"}
                        /\ worker'[v].seq \in Nat /\ worker'[v].seq <= m_UnusedFileSeq
                        /\ worker'[v].seq \in DOMAIN path /\ path[worker'[v].seq] \in opened
                        /\ worker'[v].pc = "mark" /\ worker'[v].frag \in Fragments =>
                               worker'[v].frag \in data'[path[worker'[v].seq]]
        BY <1>1, <1>4 DEF WorkInv
    <2>1. CASE v = w
        BY <1>1, <1>4, <1>5, <2>1 DEF WorkInv, Active, p
    <2>2. CASE v # w
        <3>1. Active(v) /\ worker'[v] = worker[v]
            BY <1>4, <2>2 DEF Active
        <3>2. path[worker[v].seq] \in Paths
            BY <3>1 DEF WorkInv, FileInv
        <3> QED
            BY <1>5, <3>1, <3>2 DEF WorkInv
    <2> QED
        BY <2>1, <2>2
<1>10. GuiInv'
    BY <1>1, <1>4 DEF GuiInv, Active
<1>11. DoneMeansWritten'
    BY <1>1, <1>2, <1>3, <1>5, NoneIsNoFragments DEF DoneMeansWritten, Exists
<1> QED
    BY <1>1, <1>7, <1>8, <1>9, <1>10, <1>11 DEF MapInv

LEMMA MarkKeeps ==
    ASSUME IInv, NEW w \in Workers, WriteBinary(w)
    PROVE  IInv'
<1> USE DEF IInv
<1> DEFINE p == path[worker[w].seq] f == worker[w].frag
<1>1. PICK i \in (IF f = NoFragment THEN Fragments ELSE {f}) :
          /\ ctrl' = [ctrl EXCEPT ![p] = ctrl[p] \ {i}]
          /\ suspect' = IF f = NoFragment THEN suspect \cup {p} ELSE suspect
    BY DEF WriteBinary
<1>2. /\ worker[w].pc = "mark"
      /\ worker' = [worker EXCEPT ![w] = Idle]
      /\ UNCHANGED <<data, rows, m_UnusedFileSeq, opened, path, m_FileMap, gui>>
    BY DEF WriteBinary, manager, objects, database
<1>3. p \in Paths /\ (f \in Fragments => f \in data[p])
    BY <1>2 DEF WorkInv, FileInv, Active
<1>4. WorkInv'
    BY <1>2 DEF WorkInv, Active, Idle
<1>5. GuiInv'
    BY <1>2 DEF GuiInv, WorkInv, Active, Idle
<1>6. FileInv' /\ RowInv' /\ MapInv'
    BY <1>1, <1>2 DEF FileInv, RowInv, MapInv
<1>7. DoneMeansWritten'
    <2> HIDE DEF p, f
    <2>1. CASE f = NoFragment
        BY <1>1, <1>2, <1>3, <2>1 DEF DoneMeansWritten, Exists, FileInv
    <2>2. CASE f # NoFragment
        <3>1. i = f /\ suspect' = suspect /\ ctrl' = [ctrl EXCEPT ![p] = ctrl[p] \ {f}]
            BY <1>1, <2>2
        <3>2. ctrl[p] = None => ctrl[p] \ {f} = None
            BY <2>2 DEF None, NoFragment
        <3> QED
            BY <1>2, <1>3, <3>1, <3>2 DEF DoneMeansWritten, Exists, FileInv
    <2> QED
        BY <2>1, <2>2
<1> QED
    BY <1>4, <1>5, <1>6, <1>7

\* The process ends and starts again, with the rows that are there.
LEMMA BootKeeps == IInv /\ CrashAndBoot => IInv'
<1> SUFFICES ASSUME IInv, CrashAndBoot PROVE IInv'
    OBVIOUS
<1> USE DEF IInv
<1>1. /\ m_FileMap' = {r.seq : r \in Loaded(rows)}
      /\ m_UnusedFileSeq' = MaxFileSeq(rows)
      /\ opened' = {r.path : r \in Pending(rows)}
      /\ path' = [s \in {r.seq : r \in rows} |-> (CHOOSE r \in RowOf(s) : TRUE).path]
      /\ worker' = [w \in Workers |-> Idle]
      /\ gui' = Idle
      /\ UNCHANGED <<data, ctrl, suspect, rows>>
    BY LoadedNumbers DEF CrashAndBoot, Boot, SetManager, disk
<1>2. Loaded(rows) \subseteq Pending(rows) /\ Pending(rows) \subseteq rows
    BY DEF Loaded, Pending
<1>3. m_UnusedFileSeq' \in Nat /\ \A r \in rows : r.seq <= m_UnusedFileSeq'
    <2>1. CASE rows = {}
        BY <1>1, <2>1 DEF MaxFileSeq
    <2>2. CASE rows # {}
        <3> DEFINE S == {r.seq : r \in rows}
        <3>1. S \subseteq Nat /\ S # {} /\ \A i \in S : i <= m_UnusedFileSeq
            BY <2>2 DEF RowInv
        <3>2. m_UnusedFileSeq \in Nat /\ m_UnusedFileSeq' = Max(S)
            BY <1>1, <2>2 DEF MaxFileSeq, RowInv
        <3> HIDE DEF S
        <3>3. Max(S) \in S /\ \A i \in S : i <= Max(S)
            BY <3>1, <3>2, GreatestExists
        <3> QED
            BY <3>1, <3>2, <3>3 DEF S
    <2> QED
        BY <2>1, <2>2
<1>4. \A r \in rows : r.seq \in DOMAIN path' /\ path'[r.seq] = r.path
    <2> TAKE r \in rows
    <2>1. \A q \in RowOf(r.seq) : q = r
        BY DEF RowOf, RowInv
    <2>2. r \in RowOf(r.seq)
        BY DEF RowOf
    <2>3. (CHOOSE q \in RowOf(r.seq) : TRUE) = r
        BY <2>1, <2>2
    <2> QED
        BY <1>1, <2>3
<1>5. FileInv'
    BY <1>1, <1>2 DEF FileInv, RowInv
<1>6. RowInv'
    BY <1>1, <1>3 DEF RowInv
<1>7. MapInv'
    <2> SUFFICES ASSUME NEW r \in Loaded(rows)
                 PROVE  /\ r.seq \in DOMAIN path' /\ path'[r.seq] \in opened'
                        /\ r.seq \in Nat /\ r.seq <= m_UnusedFileSeq'
        BY <1>1 DEF MapInv
    <2>1. r \in Pending(rows) /\ r \in rows
        BY <1>2
    <2>2. r.seq \in Nat
        BY <2>1 DEF RowInv
    <2>3. r.path \in opened'
        BY <1>1, <2>1
    <2> QED
        BY <1>3, <1>4, <2>1, <2>2, <2>3
<1>8. GuiInv' /\ WorkInv'
    BY <1>1 DEF GuiInv, WorkInv, Active, Idle
<1>9. DoneMeansWritten'
    BY <1>1 DEF DoneMeansWritten, Exists
<1> QED
    BY <1>5, <1>6, <1>7, <1>8, <1>9

LEMMA InitIInv == Init => IInv
<1> SUFFICES ASSUME Init PROVE IInv
    OBVIOUS
<1>1. FileInv
    BY DEF Init, FileInv
<1>2. RowInv /\ MapInv /\ GuiInv /\ WorkInv
    BY DEF Init, RowInv, MapInv, GuiInv, WorkInv, Active, Idle
<1>3. DoneMeansWritten
    BY DEF Init, DoneMeansWritten, Exists
<1> QED
    BY <1>1, <1>2, <1>3 DEF IInv

LEMMA NextIInv == IInv /\ [Next]_vars => IInv'
<1> SUFFICES ASSUME IInv, [Next]_vars PROVE IInv'
    OBVIOUS
<1>1. CASE UNCHANGED vars
    BY <1>1, Unmoved DEF vars, watched, manager, objects, database, disk
<1>2. ASSUME NEW p \in Paths, TryAddDownloadFile(p) PROVE IInv'
    BY <1>2, TryAddKeeps
<1>3. ASSUME NEW s \in Seqs, NEW kill \in BOOLEAN, DeleteFile(s, kill) PROVE IInv'
    BY <1>3, DeleteKeeps
<1>4. ASSUME NEW p \in Paths, RemoveFile(p) PROVE IInv'
    BY <1>4, RemoveKeeps
<1>5. CASE DownloadTask
    BY <1>5, Unmoved DEF DownloadTask, watched, objects, database
<1>6. CASE GetTask
    BY <1>6, Unmoved DEF GetTask, watched, manager, database
<1>7. CASE CheckDownloadFile
    BY <1>7, Unmoved DEF CheckDownloadFile, watched, objects, database
<1>8. ASSUME NEW found \in BOOLEAN, Request(found) PROVE IInv'
    BY <1>8, Unmoved DEF Request, watched, manager, objects, database
<1>9. ASSUME NEW s \in Seqs, Sha1Check(s) PROVE IInv'
    BY <1>9, Sha1Keeps
<1>10. ASSUME NEW w \in Workers, NEW m \in net, Receive(w, m) PROVE IInv'
    BY <1>10, ReceiveKeeps
<1>11. ASSUME NEW w \in Workers, Write(w) PROVE IInv'
    BY <1>11, WriteKeeps
<1>12. ASSUME NEW w \in Workers, WriteBinary(w) PROVE IInv'
    BY <1>12, MarkKeeps
<1>13. ASSUME NEW c \in Contents, PartnerGoes(c) PROVE IInv'
    BY <1>13, Unmoved DEF PartnerGoes, watched, manager, objects, database
<1> QED
    BY <1>1, <1>2, <1>3, <1>4, <1>5, <1>6, <1>7, <1>8, <1>9, <1>10, <1>11, <1>12, <1>13,
       InitCtrlKeeps, InsertKeeps, BootKeeps DEF Next

\* Whenever the process ends, and however its threads interleave, a fragment that
\* the control file has for done is in the file (complete_fragment), unless its
\* control file is suspect.
THEOREM DoneFragmentsAreWritten == Spec => []DoneMeansWritten
<1>1. IInv => DoneMeansWritten
    BY DEF IInv
<1> QED
    BY InitIInv, NextIInv, <1>1, PTL DEF Spec

(* --------------------------- complete is whole --------------------------- *)

\* The hash check reads the file of the row it is about to mark.
RowPaths == \A r \in rows : r.seq \in DOMAIN path /\ path[r.seq] = r.path

WholeInv == RowPaths /\ CompleteMeansWhole

LEMMA WholeInvStep == IInv /\ WholeInv /\ [Next]_vars => WholeInv'
<1> SUFFICES ASSUME IInv, WholeInv, [Next]_vars PROVE WholeInv'
    OBVIOUS
<1> USE DEF WholeInv
<1>0. /\ rows \subseteq [seq : Nat, path : Paths, type : {"DOWNLOAD", "COMPLETE"}]
      /\ \A r \in rows : data[r.path] # None
      /\ data \in [Paths -> {None} \cup SUBSET Fragments]
    BY DEF IInv, RowInv, FileInv
<1>1. CASE UNCHANGED <<data, rows, path>>
    BY <1>1 DEF RowPaths, CompleteMeansWhole, Whole
<1>2. ASSUME NEW p \in Paths, TryAddDownloadFile(p) PROVE WholeInv'
    <2>1. UNCHANGED <<rows, path>>
        BY <1>2 DEF TryAddDownloadFile
    <2>2. \A q \in Paths : data[q] # None => data'[q] = data[q]
        BY <1>0, <1>2 DEF TryAddDownloadFile, Exists
    <2> QED
        BY <1>0, <2>1, <2>2 DEF RowPaths, CompleteMeansWhole, Whole
<1>3. CASE InsertFileInfo
    <2> DEFINE s == gui.seq p == gui.path
               r == [seq |-> s, path |-> p, type |-> "DOWNLOAD"]
    <2>1. /\ gui.pc # "idle"
          /\ rows' = rows \cup {r}
          /\ path' = [x \in DOMAIN path \cup {s} |-> IF x = s THEN p ELSE path[x]]
          /\ data' = data
        BY <1>3 DEF InsertFileInfo, disk
    <2>2. \A q \in rows : q.seq # s
        BY <2>1 DEF IInv, GuiInv
    <2>3. r.seq = s /\ r.path = p /\ r.type # "COMPLETE"
        OBVIOUS
    <2> HIDE DEF r, s, p
    <2> QED
        BY <2>1, <2>2, <2>3 DEF RowPaths, CompleteMeansWhole, Whole
<1>4. ASSUME NEW s \in Seqs, NEW kill \in BOOLEAN, DeleteFile(s, kill) PROVE WholeInv'
    <2>1. rows' \subseteq rows /\ UNCHANGED <<data, path>>
        BY <1>4 DEF DeleteFile, disk, objects
    <2> QED
        BY <2>1 DEF RowPaths, CompleteMeansWhole, Whole
<1>5. ASSUME NEW p \in Paths, RemoveFile(p) PROVE WholeInv'
    <2>1. /\ UNCHANGED <<rows, path>>
          /\ \A r \in rows : r.path # p
          /\ data' = [data EXCEPT ![p] = None]
        BY <1>5 DEF RemoveFile, objects, database
    <2> QED
        BY <1>0, <2>1 DEF RowPaths, CompleteMeansWhole, Whole
<1>6. ASSUME NEW s \in Seqs, Sha1Check(s) PROVE WholeInv'
    <2> DEFINE Done(r) == [r EXCEPT !.type = "COMPLETE"]
    <2>1. UNCHANGED <<data, path>>
        BY <1>6 DEF Sha1Check, disk, objects
    <2>2. CASE rows' = rows
        BY <1>1, <2>1, <2>2
    <2>3. CASE Sha1Equal(s) /\ rows' = (rows \ RowOf(s)) \cup {Done(r) : r \in RowOf(s)}
        <3>1. \A r \in rows : Done(r).seq = r.seq /\ Done(r).path = r.path
            BY <1>0
        <3> HIDE DEF Done
        <3>2. \A x \in rows' : \/ x \in rows
                               \/ \E r \in rows : r.seq = s /\ x = Done(r)
            BY <2>3 DEF RowOf
        <3>3. \A r \in rows : r.seq = s => Whole(r.path)
            BY <2>3 DEF RowPaths, Sha1Equal
        <3> QED
            BY <2>1, <3>1, <3>2, <3>3 DEF RowPaths, CompleteMeansWhole, Whole
    <2> QED
        BY <1>6, <2>2, <2>3 DEF Sha1Check
<1>7. ASSUME NEW w \in Workers, Write(w) PROVE WholeInv'
    <2> DEFINE p == path[worker[w].seq]
    <2>1. /\ UNCHANGED <<rows, path>>
          /\ data' = [data EXCEPT ![p] = data[p] \cup ({worker[w].frag} \cap Fragments)]
        BY <1>7 DEF Write, Written, objects, database
    <2> HIDE DEF p
    <2>2. \A q \in Paths : data[q] = Fragments => data'[q] = Fragments
        BY <1>0, <2>1
    <2> QED
        BY <1>0, <2>1, <2>2 DEF RowPaths, CompleteMeansWhole, Whole
<1>8. CASE CrashAndBoot
    <2>1. /\ UNCHANGED <<data, rows>>
          /\ path' = [s \in {r.seq : r \in rows} |-> (CHOOSE r \in RowOf(s) : TRUE).path]
        BY <1>8 DEF CrashAndBoot, Boot, disk
    <2>2. ASSUME NEW r \in rows PROVE r.seq \in DOMAIN path' /\ path'[r.seq] = r.path
        <3>1. r \in RowOf(r.seq) /\ \A q \in RowOf(r.seq) : q = r
            BY DEF RowOf, IInv, RowInv
        <3>2. (CHOOSE q \in RowOf(r.seq) : TRUE) = r
            BY <3>1
        <3> QED
            BY <2>1, <3>2
    <2> QED
        BY <2>1, <2>2 DEF RowPaths, CompleteMeansWhole, Whole
<1>9. CASE UNCHANGED vars
    BY <1>1, <1>9 DEF vars, disk, objects, database
<1>10. CASE InitCtrlFile \/ DownloadTask \/ GetTask \/ CheckDownloadFile
    BY <1>1, <1>10 DEF InitCtrlFile, DownloadTask, GetTask, CheckDownloadFile,
                       disk, objects, database
<1>11. ASSUME NEW found \in BOOLEAN, Request(found) PROVE WholeInv'
    BY <1>1, <1>11 DEF Request, disk, objects, database
<1>12. ASSUME NEW w \in Workers, NEW m \in net, Receive(w, m) PROVE WholeInv'
    BY <1>1, <1>12 DEF Receive, disk, objects, database
<1>13. ASSUME NEW w \in Workers, WriteBinary(w) PROVE WholeInv'
    BY <1>1, <1>13 DEF WriteBinary, objects, database
<1>14. ASSUME NEW c \in Contents, PartnerGoes(c) PROVE WholeInv'
    BY <1>1, <1>14 DEF PartnerGoes, disk, objects, database
<1> QED
    BY <1>2, <1>3, <1>4, <1>5, <1>6, <1>7, <1>8, <1>9, <1>10, <1>11, <1>12, <1>13, <1>14 DEF Next

\* What the interface shows as complete has been checked against its hash by
\* thread_sha1_check, at the path of its row, and stays whole as long as it is shown.
THEOREM CompleteFilesAreWhole == Spec => []CompleteMeansWhole
<1>1. Init => WholeInv
    BY DEF Init, WholeInv, RowPaths, CompleteMeansWhole
<1>2. WholeInv => CompleteMeansWhole
    BY DEF WholeInv
<1> QED
    BY InitIInv, NextIInv, WholeInvStep, <1>1, <1>2, PTL DEF Spec

(* ----------------------- the maps and the lists -------------------------- *)

AllListed == m_DownloadList \o m_WaitList

\* The lists, and the index into the first of them.
ListInv ==
    /\ m_DownloadList \in Seq(Nat) /\ m_WaitList \in Seq(Nat)
    /\ Len(m_DownloadList) <= m_MaxDownloadNum
    /\ InLists \subseteq m_FileMap
    /\ IsInjective(AllListed)
    /\ m_CurDownload \in Nat
    /\ m_CurDownload < Len(m_DownloadList) \/ m_CurDownload = 0

\* The two maps.
AgreeInv ==
    /\ m_SeqMap \in [Contents -> Nat]
    /\ \A c \in Contents : m_SeqMap[c] # NoFile =>
          m_SeqMap[c] \in m_FileMap /\ ContentOf[path[m_SeqMap[c]]] = c
    /\ \A s \in m_FileMap : m_SeqMap[ContentOf[path[s]]] = s

\* No file has the number that stands for no file.
NumberInv ==
    /\ m_UnusedFileSeq > 0
    /\ NoFile \notin m_FileMap
    /\ \A r \in rows : r.seq > 0
    /\ gui.pc # "idle" => gui.seq > 0

LInv == ListInv /\ AgreeInv /\ NumberInv

(* Lists: what erasing, refilling and adding do to them. *)

\* r is q without its k-th element.
Drops(q, k, r) ==
    /\ Len(r) = Len(q) - 1
    /\ \A i \in 1 .. Len(r) : r[i] = IF i < k THEN q[i] ELSE q[i + 1]

\* A set of natural numbers that has an element has a first one.
LEMMA FirstExists ==
    ASSUME NEW S \in SUBSET Nat, S # {}
    PROVE  First(S) \in S /\ \A i \in S : First(S) <= i
<1> DEFINE Less == {ss \in Nat \X Nat : ss[1] < ss[2]}
<1>1. IsWellFoundedOn(Less, Nat)
    BY NatLessThanWellFounded, Zenon DEF OpToRel
<1>2. PICK x \in S : \A y \in S : ~(<<y, x>> \in Less)
    <2> HIDE DEF Less
    <2> QED
        BY ONLY <1>1, S \in SUBSET Nat, S # {}, WFMin
<1>3. \A y \in S : x <= y
    <2> TAKE y \in S
    <2>1. x \in Nat /\ y \in Nat
        OBVIOUS
    <2>2. <<y, x>> \notin Less
        BY <1>2
    <2>3. <<y, x>>[1] = y /\ <<y, x>>[2] = x
        OBVIOUS
    <2>4. ~(y < x)
        BY <2>1, <2>2, <2>3
    <2> QED
        BY <2>1, <2>4
<1> QED
    BY <1>3 DEF First

\* An erasing loop takes out one element, wherever that is, ...
LEMMA ErasedDrops ==
    ASSUME NEW list \in Seq(Nat), NEW s, Contains(list, s)
    PROVE  /\ Erased(s, list) \in Seq(Nat)
           /\ \E k \in 1 .. Len(list) : list[k] = s /\ Drops(list, k, Erased(s, list))
<1> DEFINE S == {i \in DOMAIN list : list[i] = s}
           k == First(S)
           A == SubSeq(list, 1, k - 1)
           B == SubSeq(list, k + 1, Len(list))
<1>1. Len(list) \in Nat /\ DOMAIN list = 1 .. Len(list) /\ \A i \in 1 .. Len(list) : list[i] \in Nat
    BY LenProperties
<1>2. S \in SUBSET Nat /\ S # {}
    BY <1>1 DEF Contains
<1>3. k \in S
    <2> HIDE DEF S
    <2> QED
        BY <1>2, FirstExists
<1>4. k \in 1 .. Len(list) /\ list[k] = s
    BY <1>1, <1>3
<1>5. Erased(s, list) = A \o B
    BY DEF Erased, RemoveAt
<1> HIDE DEF k, S
<1>6. A \in Seq(Nat) /\ Len(A) = k - 1 /\ \A i \in 1 .. k - 1 : A[i] = list[i]
    <2>1. \A i \in 1 .. k - 1 : list[i] \in Nat
        BY <1>1, <1>4
    <2>2. /\ A \in Seq(Nat) /\ Len(A) = IF 1 <= k - 1 THEN k - 1 - 1 + 1 ELSE 0
          /\ \A i \in 1 .. k - 1 - 1 + 1 : A[i] = list[1 + i - 1]
        <3>1. 1 \in Int /\ k - 1 \in Int
            BY <1>1, <1>4
        <3> QED
            BY <2>1, <3>1, SubSeqProperties
    <2> QED
        BY <1>1, <1>4, <2>2
<1>7. /\ B \in Seq(Nat) /\ Len(B) = Len(list) - k
      /\ \A i \in 1 .. Len(list) - k : B[i] = list[k + i]
    <2>1. \A i \in k + 1 .. Len(list) : list[i] \in Nat
        BY <1>1, <1>4
    <2>2. /\ B \in Seq(Nat) /\ Len(B) = IF k + 1 <= Len(list) THEN Len(list) - (k + 1) + 1 ELSE 0
          /\ \A i \in 1 .. Len(list) - (k + 1) + 1 : B[i] = list[k + 1 + i - 1]
        <3>1. k + 1 \in Int /\ Len(list) \in Int
            BY <1>1, <1>4
        <3> QED
            BY <2>1, <3>1, SubSeqProperties
    <2>0. \A l, n \in Nat : n <= l =>
              (IF n + 1 <= l THEN l - (n + 1) + 1 ELSE 0) = l - n /\ l - (n + 1) + 1 = l - n
        OBVIOUS
    <2>3. Len(B) = Len(list) - k /\ Len(list) - (k + 1) + 1 = Len(list) - k
        <3>1. k \in Nat /\ k <= Len(list) /\ Len(list) \in Nat
            BY <1>1, <1>4
        <3>2. Len(B) = IF k + 1 <= Len(list) THEN Len(list) - (k + 1) + 1 ELSE 0
            BY <2>2
        <3> HIDE DEF B
        <3> QED
            BY <2>0, <3>1, <3>2
    <2>4. ASSUME NEW i \in 1 .. Len(list) - k PROVE B[i] = list[k + i]
        <3>1. k + 1 + i - 1 = k + i
            BY <1>1, <1>4
        <3>2. B[i] = list[k + 1 + i - 1]
            BY <2>2, <2>3
        <3> QED
            BY <3>1, <3>2
    <2> QED
        BY <2>2, <2>3, <2>4
<1> HIDE DEF A, B
<1>8. /\ A \o B \in Seq(Nat) /\ Len(A \o B) = Len(A) + Len(B)
      /\ \A i \in 1 .. Len(A) + Len(B) : (A \o B)[i] = IF i <= Len(A) THEN A[i] ELSE B[i - Len(A)]
    BY <1>6, <1>7, ConcatProperties
<1>9. Drops(list, k, A \o B)
    <2>1. Len(A \o B) = Len(list) - 1
        BY <1>1, <1>4, <1>6, <1>7, <1>8
    <2>2. ASSUME NEW i \in 1 .. Len(list) - 1
          PROVE  (A \o B)[i] = IF i < k THEN list[i] ELSE list[i + 1]
        <3>1. CASE i < k
            BY <1>1, <1>4, <1>6, <1>7, <1>8, <3>1
        <3>2. CASE ~(i < k)
            <4> DEFINE j == i - (k - 1)
            <4>1. j \in 1 .. Len(list) - k /\ k + j = i + 1 /\ ~(i <= Len(A)) /\ i - Len(A) = j
                BY <1>1, <1>4, <1>6, <3>2
            <4>2. (A \o B)[i] = B[i - Len(A)]
                BY <1>1, <1>4, <1>6, <1>7, <1>8, <4>1
            <4> QED
                BY <1>7, <3>2, <4>1, <4>2
        <3> QED
            BY <3>1, <3>2
    <2> QED
        BY <2>1, <2>2 DEF Drops
<1> QED
    BY <1>4, <1>5, <1>8, <1>9

\* ... or none, when there is none to take out.
LEMMA NothingErased == ASSUME NEW list, NEW s, ~Contains(list, s) PROVE Erased(s, list) = list
BY DEF Erased

\* What is left of a list without repetitions has none, and lacks what was dropped.
LEMMA DropKeeps ==
    ASSUME NEW q \in Seq(Nat), IsInjective(q), NEW k \in 1 .. Len(q), NEW r \in Seq(Nat),
           Drops(q, k, r)
    PROVE  IsInjective(r) /\ Range(r) = Range(q) \ {q[k]}
<1>1. /\ Len(q) \in Nat /\ DOMAIN q = 1 .. Len(q)
      /\ DOMAIN r = 1 .. Len(r) /\ Len(r) = Len(q) - 1
    BY LenProperties DEF Drops
<1> DEFINE from(i) == IF i < k THEN i ELSE i + 1   \* where r[i] comes from
<1>2. \A i \in DOMAIN r : r[i] = q[from(i)]
    BY <1>1 DEF Drops
<1>6. \A i \in DOMAIN r : from(i) \in DOMAIN q /\ from(i) # k
    BY <1>1
<1>7. \A i, j \in DOMAIN r : from(i) = from(j) => i = j
    <2>1. DOMAIN r \subseteq Int /\ k \in Int
        BY <1>1
    <2>2. \A i, j \in Int : from(i) = from(j) => i = j
        BY <2>1
    <2> QED
        BY <2>1, <2>2
<1> HIDE DEF from
<1>3. IsInjective(r)
    BY <1>2, <1>6, <1>7 DEF IsInjective
<1>4. Range(r) \subseteq Range(q) \ {q[k]}
    <2>1. k \in DOMAIN q
        BY <1>1
    <2> QED
        BY <1>2, <1>6, <2>1 DEF Range, IsInjective
<1>5. ASSUME NEW j \in DOMAIN q, j # k PROVE q[j] \in Range(r)
    <2>1. CASE j < k
        <3>1. j \in DOMAIN r /\ from(j) = j
            BY <1>1, <1>5, <2>1 DEF from
        <3> QED
            BY <1>2, <3>1 DEF Range
    <2>2. CASE j > k
        <3>1. j - 1 \in DOMAIN r /\ r[j - 1] = q[j]
            <4>1. j - 1 \in DOMAIN r /\ from(j - 1) = j
                BY <1>1, <2>2 DEF from
            <4> QED
                BY <1>2, <4>1
        <3> QED
            BY <3>1 DEF Range
    <2> QED
        BY <1>1, <1>5, <2>1, <2>2
<1> QED
    BY <1>3, <1>4, <1>5 DEF Range

\* What is dropped from one of two lists is dropped from the two together.
LEMMA DropsFromFirst ==
    ASSUME NEW q \in Seq(Nat), NEW t \in Seq(Nat), NEW k \in 1 .. Len(q), NEW r \in Seq(Nat),
           Drops(q, k, r)
    PROVE  Drops(q \o t, k, r \o t) /\ k \in 1 .. Len(q \o t) /\ (q \o t)[k] = q[k]
<1>1. Len(q) \in Nat /\ Len(t) \in Nat /\ Len(r) \in Nat
    BY LenProperties
<1>2. /\ Len(q \o t) = Len(q) + Len(t) /\ Len(r \o t) = Len(r) + Len(t)
      /\ \A i \in 1 .. Len(q) + Len(t) : (q \o t)[i] = IF i <= Len(q) THEN q[i] ELSE t[i - Len(q)]
      /\ \A i \in 1 .. Len(r) + Len(t) : (r \o t)[i] = IF i <= Len(r) THEN r[i] ELSE t[i - Len(r)]
    BY ConcatProperties
<1>3. \A i \in 1 .. Len(r) + Len(t) : (r \o t)[i] = IF i < k THEN (q \o t)[i] ELSE (q \o t)[i + 1]
    <2> SUFFICES ASSUME NEW i \in 1 .. Len(r) + Len(t)
                 PROVE  (r \o t)[i] = IF i < k THEN (q \o t)[i] ELSE (q \o t)[i + 1]
        OBVIOUS
    <2>1. Len(r) = Len(q) - 1
        BY DEF Drops
    <2>2. CASE i <= Len(r)
        <3>1. r[i] = IF i < k THEN q[i] ELSE q[i + 1]
            BY <1>1, <2>2 DEF Drops
        <3> QED
            BY <1>1, <1>2, <2>1, <2>2, <3>1
    <2>3. CASE i > Len(r)
        <3>1. (r \o t)[i] = t[i - Len(r)] /\ (q \o t)[i + 1] = t[i + 1 - Len(q)]
            BY <1>1, <1>2, <2>1, <2>3
        <3>2. i + 1 - Len(q) = i - Len(r) /\ ~(i < k)
            BY <1>1, <2>1, <2>3
        <3> QED
            BY <3>1, <3>2
    <2>4. i <= Len(r) \/ i > Len(r)
        BY <1>1
    <2> QED
        BY <2>2, <2>3, <2>4
<1>4. Len(r \o t) = Len(q \o t) - 1
    BY <1>1, <1>2 DEF Drops
<1>5. Drops(q \o t, k, r \o t)
    <2> HIDE DEF Drops
    <2>1. \A i \in 1 .. Len(r \o t) : (r \o t)[i] = IF i < k THEN (q \o t)[i] ELSE (q \o t)[i + 1]
        BY <1>2, <1>3
    <2> QED
        BY ONLY <1>4, <2>1 DEF Drops
<1>6. k \in 1 .. Len(q \o t) /\ (q \o t)[k] = q[k]
    BY <1>1, <1>2
<1> QED
    BY <1>5, <1>6

\* What drops from one list drops from the two lists in a row.
LEMMA DropsFromSecond ==
    ASSUME NEW q \in Seq(Nat), NEW t \in Seq(Nat), NEW k \in 1 .. Len(t), NEW r \in Seq(Nat),
           Drops(t, k, r)
    PROVE  /\ Drops(q \o t, Len(q) + k, q \o r) /\ Len(q) + k \in 1 .. Len(q \o t)
           /\ (q \o t)[Len(q) + k] = t[k]
<1>1. Len(q) \in Nat /\ Len(t) \in Nat /\ Len(r) \in Nat
    BY LenProperties
<1>2. /\ Len(q \o t) = Len(q) + Len(t) /\ Len(q \o r) = Len(q) + Len(r)
      /\ \A i \in 1 .. Len(q) + Len(t) : (q \o t)[i] = IF i <= Len(q) THEN q[i] ELSE t[i - Len(q)]
      /\ \A i \in 1 .. Len(q) + Len(r) : (q \o r)[i] = IF i <= Len(q) THEN q[i] ELSE r[i - Len(q)]
    BY ConcatProperties
<1>3. \A i \in 1 .. Len(q) + Len(r) :
          (q \o r)[i] = IF i < Len(q) + k THEN (q \o t)[i] ELSE (q \o t)[i + 1]
    <2> SUFFICES ASSUME NEW i \in 1 .. Len(q) + Len(r)
                 PROVE  (q \o r)[i] = IF i < Len(q) + k THEN (q \o t)[i] ELSE (q \o t)[i + 1]
        OBVIOUS
    <2>1. Len(r) = Len(t) - 1
        BY DEF Drops
    <2>2. CASE i <= Len(q)
        BY <1>1, <1>2, <2>1, <2>2
    <2>3. CASE i > Len(q)
        <3> DEFINE j == i - Len(q)
        <3>1. j \in 1 .. Len(r) /\ i = Len(q) + j
            BY <1>1, <2>3
        <3>2. r[j] = IF j < k THEN t[j] ELSE t[j + 1]
            BY <3>1 DEF Drops
        <3>3. (q \o r)[i] = r[j]
            BY <1>1, <1>2, <2>3
        <3>4. (q \o t)[i] = t[j] /\ (q \o t)[i + 1] = t[i + 1 - Len(q)]
            BY <1>1, <1>2, <2>1, <2>3
        <3>5. i + 1 - Len(q) = j + 1 /\ (i < Len(q) + k <=> j < k)
            BY <1>1
        <3> QED
            BY <3>2, <3>3, <3>4, <3>5
    <2>4. i <= Len(q) \/ i > Len(q)
        BY <1>1
    <2> QED
        BY <2>2, <2>3, <2>4
<1>4. Len(q) + k \in 1 .. Len(q \o t) /\ (q \o t)[Len(q) + k] = t[k]
    BY <1>1, <1>2
<1>5. Len(q \o r) = Len(q \o t) - 1
    <2>1. Len(r) = Len(t) - 1
        BY DEF Drops
    <2> QED
        BY <1>1, <1>2, <2>1
<1> QED
    BY <1>1, <1>2, <1>3, <1>4, <1>5 DEF Drops


\* Three lists in a row are one list, however they are joined.
LEMMA Associative ==
    ASSUME NEW s \in Seq(Nat), NEW t \in Seq(Nat), NEW u \in Seq(Nat)
    PROVE  (s \o t) \o u = s \o (t \o u)
BY ConcatAssociative

\* Refilling the first list from the second leaves the two together as they were.
LEMMA RefreshKeeps ==
    ASSUME NEW m, m = [fm |-> m.fm, sm |-> m.sm, dl |-> m.dl, wl |-> m.wl],
           m.dl \in Seq(Nat), m.wl \in Seq(Nat), Len(m.dl) <= m_MaxDownloadNum,
           NEW r, r = RefreshDownloadList(m)
    PROVE  /\ r.fm = m.fm /\ r.sm = m.sm
           /\ r.dl \in Seq(Nat) /\ r.wl \in Seq(Nat) /\ r.dl \o r.wl = m.dl \o m.wl
           /\ Len(m.dl) <= Len(r.dl) /\ Len(r.dl) <= m_MaxDownloadNum
<1> DEFINE dl == m.dl
           wl == m.wl
           room == m_MaxDownloadNum - Len(dl)
           n == IF room < Len(wl) THEN room ELSE Len(wl)
           A == SubSeq(wl, 1, n)
           B == SubSeq(wl, n + 1, Len(wl))
<1>1. r.fm = m.fm /\ r.sm = m.sm /\ r.dl = dl \o A /\ r.wl = B
    BY DEF RefreshDownloadList
<1>0. dl \in Seq(Nat) /\ wl \in Seq(Nat) /\ Len(dl) <= m_MaxDownloadNum
    OBVIOUS
<1> HIDE DEF dl, wl
<1>2. /\ Len(wl) \in Nat /\ Len(dl) \in Nat /\ m_MaxDownloadNum \in Nat
      /\ \A i \in 1 .. Len(wl) : wl[i] \in Nat
    BY <1>0, LenProperties, DownloadAssumption
<1>3. n \in Nat /\ n <= Len(wl) /\ Len(dl) + n <= m_MaxDownloadNum
    BY <1>0, <1>2
<1> HIDE DEF n
<1>4. A \in Seq(Nat) /\ Len(A) = n /\ \A i \in 1 .. n : A[i] = wl[i]
    <2>1. \A i \in 1 .. n : wl[i] \in Nat
        BY <1>2, <1>3
    <2>2. /\ A \in Seq(Nat) /\ Len(A) = IF 1 <= n THEN n - 1 + 1 ELSE 0
          /\ \A i \in 1 .. n - 1 + 1 : A[i] = wl[1 + i - 1]
        <3>1. 1 \in Int /\ n \in Int
            BY <1>3
        <3> QED
            BY <2>1, <3>1, SubSeqProperties
    <2> QED
        BY <1>2, <1>3, <2>2
<1>5. /\ B \in Seq(Nat) /\ Len(B) = Len(wl) - n
      /\ \A i \in 1 .. Len(wl) - n : B[i] = wl[n + i]
    <2>1. \A i \in n + 1 .. Len(wl) : wl[i] \in Nat
        BY <1>2, <1>3
    <2>2. /\ B \in Seq(Nat) /\ Len(B) = IF n + 1 <= Len(wl) THEN Len(wl) - (n + 1) + 1 ELSE 0
          /\ \A i \in 1 .. Len(wl) - (n + 1) + 1 : B[i] = wl[n + 1 + i - 1]
        <3>1. n + 1 \in Int /\ Len(wl) \in Int
            BY <1>2, <1>3
        <3> QED
            BY <2>1, <3>1, SubSeqProperties
    <2> HIDE DEF B
    <2>3. \A l, k \in Nat : k <= l =>
              (IF k + 1 <= l THEN l - (k + 1) + 1 ELSE 0) = l - k /\ l - (k + 1) + 1 = l - k
        OBVIOUS
    <2>4. Len(B) = Len(wl) - n /\ Len(wl) - (n + 1) + 1 = Len(wl) - n
        BY <1>2, <1>3, <2>2, <2>3
    <2>5. ASSUME NEW i \in 1 .. Len(wl) - n PROVE B[i] = wl[n + i]
        <3>1. n + 1 + i - 1 = n + i
            BY <1>3
        <3>2. B[i] = wl[n + 1 + i - 1]
            BY <2>2, <2>4
        <3> QED
            BY <3>1, <3>2
    <2> QED
        BY <2>2, <2>4, <2>5
<1> HIDE DEF A, B
<1>6. A \o B = wl
    <2>1. /\ A \o B \in Seq(Nat) /\ Len(A \o B) = Len(A) + Len(B)
          /\ \A i \in 1 .. Len(A) + Len(B) : (A \o B)[i] = IF i <= Len(A) THEN A[i] ELSE B[i - Len(A)]
        BY <1>4, <1>5, ConcatProperties
    <2>2. Len(A \o B) = Len(wl)
        BY <1>2, <1>3, <1>4, <1>5, <2>1
    <2>3. ASSUME NEW i \in 1 .. Len(A \o B) PROVE (A \o B)[i] = wl[i]
        <3>1. CASE i <= n
            BY <1>2, <1>3, <1>4, <1>5, <2>1, <3>1
        <3>2. CASE i > n
            <4>1. i - n \in 1 .. Len(wl) - n /\ n + (i - n) = i
                BY <1>2, <1>3, <2>2, <3>2
            <4>2. (A \o B)[i] = B[i - n]
                BY <1>2, <1>3, <1>4, <2>1, <2>2, <3>2
            <4> QED
                BY <1>5, <4>1, <4>2
        <3>3. i <= n \/ i > n
            BY <1>3
        <3> QED
            BY <3>1, <3>2, <3>3
    <2> QED
        BY <1>0, <2>1, <2>2, <2>3, SeqEqual
<1>7. (dl \o A) \o B = dl \o (A \o B)
    BY <1>0, <1>4, <1>5, Associative
<1>8. dl \o A \in Seq(Nat) /\ Len(dl \o A) = Len(dl) + n
    BY <1>0, <1>4, ConcatProperties
<1>9. Len(dl) <= Len(dl) + n
    BY <1>2, <1>3
<1>10. r.dl \o r.wl = dl \o wl
    BY <1>1, <1>6, <1>7
<1>11. Len(dl) <= Len(r.dl) /\ Len(r.dl) <= m_MaxDownloadNum
    BY <1>1, <1>3, <1>8, <1>9
<1>12. r.dl \in Seq(Nat) /\ r.wl \in Seq(Nat)
    BY <1>1, <1>5, <1>8
<1> QED
    BY <1>1, <1>10, <1>11, <1>12 DEF dl, wl

\* A new number at the end of the second list.
LEMMA AppendKeeps ==
    ASSUME NEW dl \in Seq(Nat), NEW wl \in Seq(Nat), IsInjective(dl \o wl), NEW s \in Nat,
           s \notin Range(dl \o wl)
    PROVE  /\ Append(wl, s) \in Seq(Nat)
           /\ IsInjective(dl \o Append(wl, s))
           /\ Range(dl \o Append(wl, s)) = Range(dl \o wl) \cup {s}
<1> DEFINE q == dl \o wl
           r == dl \o Append(wl, s)
<1>1. q \in Seq(Nat) /\ r = Append(q, s) /\ Append(wl, s) \in Seq(Nat)
    BY ConcatProperties, AppendProperties, AppendIsConcat, ConcatAssociative
<1> HIDE DEF q, r
<1>2. /\ r \in Seq(Nat) /\ Len(r) = Len(q) + 1
      /\ \A i \in 1 .. Len(q) : r[i] = q[i]
      /\ r[Len(q) + 1] = s
    BY <1>1, AppendProperties
<1>3. Len(q) \in Nat /\ DOMAIN q = 1 .. Len(q) /\ DOMAIN r = 1 .. Len(q) + 1
    BY <1>1, <1>2, LenProperties
<1>4. DOMAIN r = DOMAIN q \cup {Len(q) + 1} /\ Len(q) + 1 \notin DOMAIN q
    BY <1>3
<1>5. \A i \in DOMAIN q : q[i] # s
    BY DEF q, Range
<1>6. IsInjective(r)
    <2>1. IsInjective(q)
        BY DEF q
    <2> QED
        BY <1>2, <1>3, <1>4, <1>5, <2>1 DEF IsInjective
<1>7. Range(r) = Range(q) \cup {s}
    <2>1. \A i \in DOMAIN q : r[i] = q[i]
        BY <1>2, <1>3
    <2>2. Range(r) = {r[i] : i \in DOMAIN q} \cup {r[Len(q) + 1]}
        BY <1>4 DEF Range
    <2>3. {r[i] : i \in DOMAIN q} = Range(q)
        BY <2>1 DEF Range
    <2> QED
        BY <1>2, <2>2, <2>3
<1> QED
    BY <1>1, <1>6, <1>7 DEF q, r

(* What is loaded when a process begins. *)

Increasing(q) == \A i, j \in DOMAIN q : i < j => q[i] < q[j]

\* The numbers of a bounded set can be put in order.
LEMMA OrderExists ==
    ASSUME NEW b \in Nat, NEW S \in SUBSET (0 .. b)
    PROVE  \E q \in [1 .. Cardinality(S) -> S] : Increasing(q)
<1> DEFINE Ordered(R) == \E q \in [1 .. Cardinality(R) -> R] : Increasing(q)
           T == {n \in Nat : \E R \in SUBSET (0 .. n - 1) : ~Ordered(R)}
           Less == {ss \in Nat \X Nat : ss[1] < ss[2]}
<1>1. SUFFICES T = {}
    <2>1. b + 1 \notin T /\ b + 1 \in Nat
        <3> HIDE DEF T
        <3> QED
            OBVIOUS
    <2>2. S \in SUBSET (0 .. b + 1 - 1)
        <3>1. b + 1 - 1 = b
            OBVIOUS
        <3> QED
            BY <3>1
    <2> HIDE DEF Ordered
    <2>3. Ordered(S)
        BY <2>1, <2>2
    <2> QED
        BY <2>3 DEF Ordered
<1>2. SUFFICES ASSUME T # {} PROVE FALSE
    OBVIOUS
<1>3. IsWellFoundedOn(Less, Nat)
    BY NatLessThanWellFounded, Zenon DEF OpToRel
<1> HIDE DEF Ordered
<1>4. T \subseteq Nat
    OBVIOUS
<1>5. PICK n \in T : \A m \in T : ~(<<m, n>> \in Less)
    <2> HIDE DEF Less, T
    <2> QED
        BY ONLY <1>2, <1>3, <1>4, WFMin
<1>6. PICK R \in SUBSET (0 .. n - 1) : ~Ordered(R)
    OBVIOUS
<1>7. n \in Nat
    OBVIOUS
<1>8. ASSUME NEW m \in Nat, m < n, NEW Q \in SUBSET (0 .. m - 1) PROVE Ordered(Q)
    <2>1. <<m, n>> \in Less
        BY <1>7, <1>8
    <2>2. m \notin T
        BY <1>5, <2>1
    <2> QED
        BY <1>8, <2>2
<1> HIDE DEF T, Less
<1>9. IsFiniteSet(R)
    <2>1. R \in SUBSET Nat /\ \A i \in R : i <= n
        BY <1>6, <1>7
    <2> QED
        BY <1>7, <2>1, FS_BoundedSetOfNaturals
<1>10. n > 0
    <2> SUFFICES ASSUME n = 0 PROVE FALSE
        BY <1>7
    <2>0. \A i \in 0 .. n - 1 : FALSE
        OBVIOUS
    <2>1. R = {} /\ Cardinality(R) = 0
        BY <1>6, <2>0, FS_EmptySet
    <2>2. [i \in 1 .. 0 |-> 0] \in [1 .. Cardinality(R) -> R]
        BY <2>1
    <2>3. Increasing([i \in 1 .. 0 |-> 0])
        BY DEF Increasing
    <2> QED
        BY <1>6, <2>2, <2>3 DEF Ordered
<1>11. n - 1 \in R
    <2> SUFFICES ASSUME n - 1 \notin R PROVE FALSE
        OBVIOUS
    <2>1. R \in SUBSET (0 .. n - 1 - 1) /\ n - 1 \in Nat /\ n - 1 < n
        BY <1>6, <1>7, <1>10
    <2> QED
        BY <1>6, <1>8, <2>1
<1> DEFINE Q == R \ {n - 1}
<1>12. PICK q \in [1 .. Cardinality(Q) -> Q] : Increasing(q)
    <2>1. Q \in SUBSET (0 .. n - 1 - 1) /\ n - 1 \in Nat /\ n - 1 < n
        BY <1>6, <1>7, <1>10
    <2> HIDE DEF Q
    <2>2. Ordered(Q)
        BY <1>8, <2>1
    <2> QED
        BY <2>2 DEF Ordered
<1>13. Cardinality(R) \in Nat /\ Cardinality(R) > 0 /\ Cardinality(Q) = Cardinality(R) - 1
    <2>1. Cardinality(Q) = Cardinality(R) - 1 /\ IsFiniteSet(Q)
        BY <1>9, <1>11, FS_RemoveElement
    <2>2. Cardinality(R) \in Nat /\ Cardinality(Q) \in Nat
        BY <1>9, <2>1, FS_CardinalityType
    <2> HIDE DEF Q
    <2> QED
        BY <2>1, <2>2
<1> DEFINE c == Cardinality(R)
           p == [i \in 1 .. c |-> IF i = c THEN n - 1 ELSE q[i]]
<1>14. \A i \in 1 .. c : i # c => q[i] \in Q /\ i \in DOMAIN q
    <2> HIDE DEF Q
    <2>1. \A i \in 1 .. c : i # c => i \in 1 .. Cardinality(Q)
        BY <1>13
    <2> QED
        BY <2>1
<1>15. \A i \in Q : i \in R /\ i \in Int /\ i < n - 1
    BY <1>6, <1>7, <1>10
<1>16. p \in [1 .. c -> R]
    BY <1>11, <1>14, <1>15
<1>17. Increasing(p)
    <2> SUFFICES ASSUME NEW i \in 1 .. c, NEW j \in 1 .. c, i < j PROVE p[i] < p[j]
        BY DEF Increasing
    <2> HIDE DEF Q
    <2>1. i # c /\ p[i] = q[i]
        BY <1>13
    <2>2. CASE j = c
        BY <1>14, <1>15, <2>1, <2>2
    <2>3. CASE j # c
        BY <1>12, <1>14, <2>1, <2>3 DEF Increasing
    <2> QED
        BY <2>2, <2>3
<1> HIDE DEF p
<1> QED
    BY <1>6, <1>16, <1>17 DEF Ordered

\* A set of numbers in order: each once, and nothing else.
LEMMA InOrderIs ==
    ASSUME NEW b \in Nat, NEW S \in SUBSET (0 .. b)
    PROVE  /\ InOrder(S) \in Seq(Nat) /\ IsInjective(InOrder(S)) /\ Range(InOrder(S)) \subseteq S
<1> DEFINE q == InOrder(S)
           n == Cardinality(S)
<1>1. q \in [1 .. n -> S] /\ \A i, j \in DOMAIN q : i < j => q[i] < q[j]
    BY OrderExists DEF InOrder, Increasing
<1>2. n \in Nat
    <2>1. S \in SUBSET Nat /\ \A i \in S : i <= b
        OBVIOUS
    <2> QED
        BY <2>1, FS_BoundedSetOfNaturals, FS_CardinalityType
<1> HIDE DEF q, n
<1>3. q \in Seq(Nat)
    <2>1. S \subseteq Nat
        OBVIOUS
    <2>2. q \in [1 .. n -> Nat]
        BY <1>1, <2>1
    <2> QED
        BY <1>2, <2>2
<1>4. IsInjective(q)
    <2> SUFFICES ASSUME NEW i \in 1 .. n, NEW j \in 1 .. n, q[i] = q[j], i # j PROVE FALSE
        BY <1>1 DEF IsInjective
    <2>1. q[i] \in Int /\ q[j] \in Int
        <3>1. q[i] \in S /\ q[j] \in S
            BY <1>1
        <3>2. S \subseteq Int
            OBVIOUS
        <3> QED
            BY <3>1, <3>2
    <2>2. i < j \/ j < i
        BY <1>2
    <2> QED
        BY <1>1, <2>1, <2>2
<1> QED
    BY <1>1, <1>3, <1>4 DEF q, Range

\* What init_file leaves in the manager: a file of each content at most, all of
\* them listed once.
LEMMA Loads ==
    ASSUME RowInv, \A r \in rows : r.seq > 0, NEW L, L = Load(rows)
    PROVE  /\ L.fm = {r.seq : r \in Loaded(rows)}
           /\ L.sm \in [Contents -> Nat]
           /\ \A c \in Contents : L.sm[c] # NoFile =>
                 \E r \in Loaded(rows) : L.sm[c] = r.seq /\ ContentOf[r.path] = c
           /\ \A r \in Loaded(rows) : L.sm[ContentOf[r.path]] = r.seq
           /\ L.dl \in Seq(Nat) /\ L.wl \in Seq(Nat)
           /\ Len(L.dl) <= m_MaxDownloadNum
           /\ IsInjective(L.dl \o L.wl) /\ Range(L.dl \o L.wl) \subseteq L.fm
<1> DEFINE loaded == Loaded(rows)
           seqs == {r.seq : r \in loaded}
           OfContent(c) == {r \in loaded : ContentOf[r.path] = c}
           sm == [c \in Contents |-> IF OfContent(c) = {} THEN NoFile
                                     ELSE (CHOOSE r \in OfContent(c) : TRUE).seq]
<1>1. loaded \subseteq rows
    BY DEF Loaded, Pending
<1>2. L = RefreshDownloadList([fm |-> seqs, sm |-> sm, dl |-> <<>>, wl |-> InOrder(seqs)])
    BY DEF Load
<1>3. /\ rows \subseteq [seq : Nat, path : Paths, type : {"DOWNLOAD", "COMPLETE"}]
      /\ m_UnusedFileSeq \in Nat
      /\ \A r \in rows : r.seq <= m_UnusedFileSeq
      /\ \A r, q \in rows : r.seq = q.seq => r = q
    BY DEF RowInv
<1>4. \A r, q \in loaded : ContentOf[r.path] = ContentOf[q.path] => r = q
    <2> SUFFICES ASSUME NEW r \in loaded, NEW q \in loaded, ContentOf[r.path] = ContentOf[q.path]
                 PROVE  r = q
        OBVIOUS
    <2>1. r.seq <= q.seq /\ q.seq <= r.seq
        BY DEF Loaded
    <2>2. r \in rows /\ q \in rows /\ r.seq \in Nat /\ q.seq \in Nat
        BY <1>1, <1>3
    <2>3. r.seq = q.seq
        BY <2>1, <2>2
    <2> QED
        BY <1>3, <2>2, <2>3
<1>5. seqs \in SUBSET (0 .. m_UnusedFileSeq)
    BY <1>1, <1>3
<1> HIDE DEF loaded
<1>6. \A r \in loaded : ContentOf[r.path] \in Contents /\ r.seq \in Nat
    BY <1>1, <1>3, DownloadAssumption
<1>7. ASSUME NEW c \in Contents, OfContent(c) # {}
      PROVE  \E r \in OfContent(c) : sm[c] = r.seq
    <2> DEFINE r == CHOOSE r \in OfContent(c) : TRUE
    <2>1. r \in OfContent(c)
        BY <1>7
    <2>2. sm[c] = r.seq
        BY <1>7
    <2> HIDE DEF r
    <2> QED
        BY <2>1, <2>2
<1>8. \A c \in Contents : OfContent(c) = {} => sm[c] = NoFile
    OBVIOUS
<1>9. DOMAIN sm = Contents /\ sm = [c \in Contents |-> sm[c]]
    OBVIOUS
<1> HIDE DEF sm
<1>10. sm \in [Contents -> Nat]
    <2>1. \A c \in Contents : sm[c] \in Nat
        BY <1>6, <1>7, <1>8 DEF NoFile
    <2> QED
        BY <1>9, <2>1
<1>11. \A c \in Contents : sm[c] # NoFile => \E r \in loaded : sm[c] = r.seq /\ ContentOf[r.path] = c
    BY <1>7, <1>8
<1>12. \A r \in loaded : sm[ContentOf[r.path]] = r.seq
    <2> TAKE r \in loaded
    <2>1. r \in OfContent(ContentOf[r.path])
        OBVIOUS
    <2>2. PICK q \in OfContent(ContentOf[r.path]) : sm[ContentOf[r.path]] = q.seq
        BY <1>6, <1>7, <2>1
    <2> QED
        BY <1>4, <2>2
<1> DEFINE wl == InOrder(seqs)
<1>13. wl \in Seq(Nat) /\ IsInjective(wl) /\ Range(wl) \subseteq seqs
    <2> HIDE DEF seqs
    <2> QED
        BY <1>3, <1>5, InOrderIs
<1> HIDE DEF wl, seqs
<1>14. /\ L.fm = seqs /\ L.sm = sm
       /\ L.dl \in Seq(Nat) /\ L.wl \in Seq(Nat) /\ L.dl \o L.wl = <<>> \o wl
       /\ Len(L.dl) <= m_MaxDownloadNum
    <2> DEFINE m == [fm |-> seqs, sm |-> sm, dl |-> <<>>, wl |-> wl]
    <2>1. /\ m = [fm |-> m.fm, sm |-> m.sm, dl |-> m.dl, wl |-> m.wl]
          /\ m.dl = <<>> /\ m.wl = wl /\ m.fm = seqs /\ m.sm = sm
        OBVIOUS
    <2>2. L = RefreshDownloadList(m)
        BY <1>2 DEF wl
    <2> HIDE DEF m
    <2>3. m.dl \in Seq(Nat) /\ m.wl \in Seq(Nat) /\ Len(m.dl) <= m_MaxDownloadNum
        BY <1>13, <2>1, DownloadAssumption
    <2>4. /\ L.fm = m.fm /\ L.sm = m.sm
          /\ L.dl \in Seq(Nat) /\ L.wl \in Seq(Nat) /\ L.dl \o L.wl = m.dl \o m.wl
          /\ Len(L.dl) <= m_MaxDownloadNum
        BY <2>1, <2>2, <2>3, RefreshKeeps
    <2> QED
        BY <2>1, <2>4
<1>15. <<>> \o wl = wl
    BY <1>13, ConcatEmptySeq
<1> QED
    BY <1>10, <1>11, <1>12, <1>13, <1>14, <1>15 DEF seqs, loaded

\* Two lists in a row list what either does.
LEMMA ListedTogether ==
    ASSUME NEW d \in Seq(Nat), NEW w \in Seq(Nat)
    PROVE  Range(d \o w) = Range(d) \cup Range(w)
BY RangeConcatenation

LEMMA InitLInv == Init => LInv
<1> SUFFICES ASSUME Init PROVE LInv
    OBVIOUS
<1>1. /\ m_DownloadList = <<>> /\ m_WaitList = <<>> /\ m_CurDownload = 0
      /\ m_FileMap = {} /\ m_SeqMap = [c \in Contents |-> NoFile]
      /\ m_UnusedFileSeq = 1 /\ rows = {} /\ gui = Idle
    BY DEF Init
<1>2. AllListed = <<>> /\ <<>> \in Seq(Nat) /\ Len(<<>>) = 0 /\ DOMAIN <<>> = {}
    BY <1>1 DEF AllListed
<1>3. InLists = {} /\ IsInjective(AllListed)
    BY <1>1, <1>2 DEF InLists, Range, IsInjective
<1>4. ListInv
    BY <1>1, <1>2, <1>3, DownloadAssumption DEF ListInv
<1>5. AgreeInv /\ NumberInv
    BY <1>1 DEF AgreeInv, NumberInv, Idle, NoFile
<1> QED
    BY <1>4, <1>5 DEF LInv

\* Most steps leave the maps and the lists alone.
LEMMA LInvUnmoved == LInv /\ UNCHANGED <<manager, rows, m_UnusedFileSeq, path, gui>> => LInv'
BY DEF LInv, ListInv, AgreeInv, NumberInv, manager, InLists, AllListed

\* Erasing a file from the list it is in.
LEMMA KilledLists ==
    ASSUME ListInv, NEW s, NEW K, K = Killed(s)
    PROVE  /\ K.dl \in Seq(Nat) /\ K.wl \in Seq(Nat) /\ Len(K.dl) <= Len(m_DownloadList)
           /\ IsInjective(K.dl \o K.wl)
           /\ Range(K.dl \o K.wl) = Range(AllListed) \ {s}
<1> DEFINE dl == m_DownloadList
           wl == m_WaitList
<1>0. /\ dl \in Seq(Nat) /\ wl \in Seq(Nat) /\ IsInjective(dl \o wl) /\ dl \o wl \in Seq(Nat)
      /\ Len(dl) \in Nat
    BY ConcatProperties, LenProperties DEF ListInv, AllListed
<1>1. K.dl = Erased(s, dl) /\ K.wl = IF Contains(dl, s) THEN wl ELSE Erased(s, wl)
    BY DEF Killed
<1>2. CASE Contains(dl, s)
    <2> DEFINE r == Erased(s, dl)
    <2>1. PICK k \in 1 .. Len(dl) : dl[k] = s /\ Drops(dl, k, r)
        BY <1>0, <1>2, ErasedDrops
    <2>2. r \in Seq(Nat) /\ r \o wl \in Seq(Nat)
        BY <1>0, <1>2, ErasedDrops, ConcatProperties
    <2> HIDE DEF r, dl, wl
    <2>3. Drops(dl \o wl, k, r \o wl) /\ k \in 1 .. Len(dl \o wl) /\ (dl \o wl)[k] = s
        BY <1>0, <2>1, <2>2, DropsFromFirst
    <2>4. IsInjective(r \o wl) /\ Range(r \o wl) = Range(dl \o wl) \ {s}
        BY <1>0, <2>2, <2>3, DropKeeps
    <2>5. Len(r) = Len(dl) - 1
        BY <2>1 DEF Drops
    <2>6. Len(r) <= Len(dl)
        BY <1>0, <2>5
    <2> QED
        BY <1>0, <1>1, <1>2, <2>2, <2>4, <2>6 DEF r, AllListed, dl, wl
<1>3. CASE ~Contains(dl, s) /\ Contains(wl, s)
    <2> DEFINE r == Erased(s, wl)
    <2>1. PICK k \in 1 .. Len(wl) : wl[k] = s /\ Drops(wl, k, r)
        BY <1>0, <1>3, ErasedDrops
    <2>2. r \in Seq(Nat) /\ dl \o r \in Seq(Nat)
        BY <1>0, <1>3, ErasedDrops, ConcatProperties
    <2>3. K.dl = dl /\ K.wl = r
        BY <1>1, <1>3, NothingErased
    <2> HIDE DEF r, dl, wl
    <2>4. /\ Drops(dl \o wl, Len(dl) + k, dl \o r) /\ Len(dl) + k \in 1 .. Len(dl \o wl)
          /\ (dl \o wl)[Len(dl) + k] = s
        BY <1>0, <2>1, <2>2, DropsFromSecond
    <2>5. IsInjective(dl \o r) /\ Range(dl \o r) = Range(dl \o wl) \ {s}
        BY <1>0, <2>2, <2>4, DropKeeps
    <2>6. Len(dl) <= Len(dl)
        BY <1>0
    <2> QED
        BY <1>0, <2>2, <2>3, <2>5, <2>6 DEF AllListed, dl, wl
<1>4. CASE ~Contains(dl, s) /\ ~Contains(wl, s)
    <2>1. K.dl = dl /\ K.wl = wl
        BY <1>1, <1>4, NothingErased
    <2>2. s \notin Range(dl) /\ s \notin Range(wl)
        BY <1>0, <1>4, LenProperties DEF Contains, Range
    <2>3. s \notin Range(dl \o wl)
        BY <1>0, <2>2, ListedTogether
    <2>4. Len(dl) <= Len(dl)
        BY <1>0
    <2> QED
        BY <1>0, <2>1, <2>3, <2>4 DEF AllListed
<1> QED
    BY <1>2, <1>3, <1>4

\* A file that is deleted leaves its list and the maps.
LEMMA DeleteKeepsLists ==
    ASSUME IInv, LInv, NEW s \in Seqs, NEW kill \in BOOLEAN, DeleteFile(s, kill)
    PROVE  LInv'
<1> USE DEF LInv
<1>1. rows' \subseteq rows /\ UNCHANGED <<m_UnusedFileSeq, path, gui>>
    BY DEF DeleteFile, objects
<1>2. CASE UNCHANGED manager
    BY <1>1, <1>2 DEF ListInv, AgreeInv, NumberInv, manager, InLists, AllListed
<1>3. CASE s \in m_FileMap /\ SetManager(Killed(s)) /\ m_CurDownload' = 0
    <2> DEFINE K == Killed(s)
    <2>1. /\ m_FileMap' = m_FileMap \ {s}
          /\ m_SeqMap' = [m_SeqMap EXCEPT ![ContentOf[path[s]]] = NoFile]
          /\ m_DownloadList' = K.dl /\ m_WaitList' = K.wl
        BY <1>3 DEF SetManager, Killed
    <2>2. /\ K.dl \in Seq(Nat) /\ K.wl \in Seq(Nat) /\ Len(K.dl) <= Len(m_DownloadList)
          /\ IsInjective(K.dl \o K.wl)
          /\ Range(K.dl \o K.wl) = Range(AllListed) \ {s}
        BY KilledLists
    <2> HIDE DEF K
    <2>3. ListInv'
        <3>1. m_DownloadList' \in Seq(Nat) /\ m_WaitList' \in Seq(Nat)
            BY <2>1, <2>2
        <3>2. Len(m_DownloadList') <= m_MaxDownloadNum
            <4>1. /\ Len(K.dl) \in Nat /\ Len(m_DownloadList) \in Nat
                  /\ Len(m_DownloadList) <= m_MaxDownloadNum
                BY <2>2, LenProperties DEF ListInv
            <4> QED
                BY <2>1, <2>2, <4>1, DownloadAssumption
        <3>3. AllListed' = K.dl \o K.wl
            BY <2>1 DEF AllListed
        <3>4. InLists' = Range(AllListed')
            BY <3>1, ListedTogether DEF InLists, AllListed
        <3>5. Range(AllListed) \subseteq m_FileMap
            BY ListedTogether DEF ListInv, InLists, AllListed
        <3>6. InLists' \subseteq m_FileMap'
            BY <2>1, <2>2, <3>3, <3>4, <3>5
        <3> QED
            BY <1>3, <2>2, <3>1, <3>2, <3>3, <3>6 DEF ListInv
    <2>4. AgreeInv'
        <3>1. ContentOf[path[s]] \in Contents
            BY <1>3, DownloadAssumption DEF IInv, MapInv, FileInv
        <3> QED
            BY <1>1, <1>3, <2>1, <3>1 DEF AgreeInv, NoFile
    <2>5. NumberInv'
        BY <1>1, <2>1 DEF NumberInv
    <2> QED
        BY <2>3, <2>4, <2>5
<1> QED
    BY <1>2, <1>3 DEF DeleteFile, KillDownloadFile

\* A file that is whole moves from one list to the other.
LEMMA CheckKeepsLists ==
    ASSUME LInv, CheckDownloadFile
    PROVE  LInv'
<1> USE DEF LInv
<1> DEFINE s == downloader.seq
           r == Erased(s, m_DownloadList)
<1>1. /\ m_CurDownload' = 0
      /\ UNCHANGED <<m_FileMap, m_SeqMap, m_WaitList, rows, m_UnusedFileSeq, path, gui>>
    BY DEF CheckDownloadFile, objects, database
<1>2. AgreeInv' /\ NumberInv'
    BY <1>1 DEF AgreeInv, NumberInv
<1>3. CASE UNCHANGED m_DownloadList
    BY <1>1, <1>2, <1>3 DEF ListInv, InLists, AllListed
<1>4. CASE Contains(m_DownloadList, s) /\ m_DownloadList' = r
    <2> DEFINE dl == m_DownloadList
               wl == m_WaitList
    <2>0. /\ dl \in Seq(Nat) /\ wl \in Seq(Nat) /\ IsInjective(dl \o wl) /\ dl \o wl \in Seq(Nat)
          /\ Len(dl) \in Nat /\ Len(dl) <= m_MaxDownloadNum
        BY ConcatProperties, LenProperties DEF ListInv, AllListed
    <2>1. PICK k \in 1 .. Len(dl) : dl[k] = s /\ Drops(dl, k, r)
        BY <1>4, <2>0, ErasedDrops
    <2>2. r \in Seq(Nat) /\ r \o wl \in Seq(Nat)
        BY <1>4, <2>0, ErasedDrops, ConcatProperties
    <2> HIDE DEF r, dl, wl, s
    <2>3. Drops(dl \o wl, k, r \o wl) /\ k \in 1 .. Len(dl \o wl) /\ (dl \o wl)[k] = s
        BY <2>0, <2>1, <2>2, DropsFromFirst
    <2>4. IsInjective(r \o wl) /\ Range(r \o wl) = Range(dl \o wl) \ {s}
        BY <2>0, <2>2, <2>3, DropKeeps
    <2>5. Len(r) <= m_MaxDownloadNum
        <3>1. Len(r) = Len(dl) - 1
            BY <2>1 DEF Drops
        <3> QED
            BY <2>0, <3>1, DownloadAssumption
    <2>6. AllListed' = r \o wl /\ AllListed = dl \o wl
        BY <1>1, <1>4 DEF AllListed, dl, wl
    <2>7. InLists' = Range(AllListed') /\ InLists = Range(AllListed)
        BY <1>1, <1>4, <2>0, <2>2, ListedTogether DEF InLists, AllListed, dl, wl
    <2>8. InLists' \subseteq m_FileMap'
        BY <1>1, <2>4, <2>6, <2>7 DEF ListInv
    <2>9. m_DownloadList' \in Seq(Nat) /\ m_WaitList' \in Seq(Nat)
        BY <1>1, <1>4, <2>0, <2>2 DEF wl
    <2>10. ListInv'
        BY <1>1, <1>4, <2>4, <2>5, <2>6, <2>8, <2>9 DEF ListInv
    <2> QED
        BY <1>2, <2>10
<1> QED
    BY <1>3, <1>4 DEF CheckDownloadFile

\* A file that is added goes to the end of the downloads.
LEMMA InsertKeepsLists ==
    ASSUME IInv, LInv, InsertFileInfo
    PROVE  LInv'
<1> USE DEF LInv
<1> DEFINE s == gui.seq
           p == gui.path
           c == ContentOf[p]
           m == AddDownloadFile(Manager, s, c)
           r == RefreshDownloadList(m)
<1>1. /\ gui.pc # "idle" /\ gui' = Idle
      /\ rows' = rows \cup {[seq |-> s, path |-> p, type |-> "DOWNLOAD"]}
      /\ path' = [x \in DOMAIN path \cup {s} |-> IF x = s THEN p ELSE path[x]]
      /\ UNCHANGED <<m_CurDownload, m_UnusedFileSeq>>
      /\ m_FileMap' = r.fm /\ m_SeqMap' = r.sm /\ m_DownloadList' = r.dl /\ m_WaitList' = r.wl
    BY DEF InsertFileInfo, SetManager
<1>2. /\ s \in Nat /\ s > 0 /\ s \notin m_FileMap /\ c \in Contents
      /\ \A x \in m_FileMap : x \in DOMAIN path /\ path[x] \in Paths
    BY <1>1, DownloadAssumption DEF IInv, GuiInv, NumberInv, FileInv, MapInv
<1>3. NumberInv'
    <2>1. m_FileMap' \subseteq m_FileMap \cup {s}
        BY <1>1, AddedNumbers
    <2>2. \A x \in rows' : x \in rows \/ x.seq = s
        BY <1>1
    <2> HIDE DEF s, p, m, r
    <2> QED
        BY <1>1, <1>2, <2>1, <2>2 DEF NumberInv, Idle, NoFile
<1>4. \A x \in m_FileMap : path'[x] = path[x]
    BY <1>1, <1>2
<1>5. path'[s] = p
    BY <1>1
<1>6. /\ m_DownloadList \in Seq(Nat) /\ m_WaitList \in Seq(Nat)
      /\ Len(m_DownloadList) <= m_MaxDownloadNum
      /\ IsInjective(m_DownloadList \o m_WaitList)
      /\ Range(m_DownloadList \o m_WaitList) \subseteq m_FileMap
    BY ListedTogether DEF ListInv, InLists, AllListed
<1>7. /\ m = [fm |-> m.fm, sm |-> m.sm, dl |-> m.dl, wl |-> m.wl]
      /\ m.dl = m_DownloadList
      /\ \/ /\ m.fm = m_FileMap /\ m.sm = m_SeqMap /\ m.wl = m_WaitList
         \/ /\ m_SeqMap[c] = NoFile
            /\ m.fm = m_FileMap \cup {s} /\ m.sm = [m_SeqMap EXCEPT ![c] = s]
            /\ m.wl = Append(m_WaitList, s)
    BY DEF AddDownloadFile, Manager
<1>8. /\ m.wl \in Seq(Nat) /\ IsInjective(m_DownloadList \o m.wl)
      /\ Range(m_DownloadList \o m.wl) \subseteq m.fm
    <2> HIDE DEF m, s
    <2>1. CASE m.fm = m_FileMap /\ m.wl = m_WaitList
        BY <1>6, <2>1
    <2>2. CASE m.fm = m_FileMap \cup {s} /\ m.wl = Append(m_WaitList, s)
        <3>1. s \notin Range(m_DownloadList \o m_WaitList)
            BY <1>2, <1>6
        <3> QED
            BY <1>2, <1>6, <2>2, <3>1, AppendKeeps
    <2> QED
        BY <1>7, <2>1, <2>2
<1>9. /\ r.fm = m.fm /\ r.sm = m.sm
      /\ r.dl \in Seq(Nat) /\ r.wl \in Seq(Nat) /\ r.dl \o r.wl = m_DownloadList \o m.wl
      /\ Len(m_DownloadList) <= Len(r.dl) /\ Len(r.dl) <= m_MaxDownloadNum
    <2> HIDE DEF m
    <2> QED
        BY <1>6, <1>7, <1>8, RefreshKeeps
<1> HIDE DEF m, r
<1>10. ListInv'
    <2>1. InLists' = Range(r.dl \o r.wl)
        BY <1>1, <1>9, ListedTogether DEF InLists
    <2>2. AllListed' = r.dl \o r.wl
        BY <1>1 DEF AllListed
    <2>3. m_CurDownload' < Len(m_DownloadList') \/ m_CurDownload' = 0
        <3>1. Len(m_DownloadList) \in Nat /\ Len(r.dl) \in Nat /\ m_CurDownload \in Nat
            BY <1>6, <1>9, LenProperties DEF ListInv
        <3> QED
            BY <1>1, <1>9, <3>1 DEF ListInv
    <2>4. m_CurDownload' \in Nat
        BY <1>1 DEF ListInv
    <2>5. InLists' \subseteq m_FileMap' /\ IsInjective(AllListed')
        BY <1>1, <1>8, <1>9, <2>1, <2>2
    <2>6. m_DownloadList' \in Seq(Nat) /\ m_WaitList' \in Seq(Nat) /\ Len(m_DownloadList') <= m_MaxDownloadNum
        BY <1>1, <1>9
    <2> QED
        BY <2>3, <2>4, <2>5, <2>6 DEF ListInv
<1>11. AgreeInv'
    <2>1. m_FileMap' = m.fm /\ m_SeqMap' = m.sm
        BY <1>1, <1>9
    <2> HIDE DEF s, p, c
    <2>2. CASE m.fm = m_FileMap /\ m.sm = m_SeqMap
        BY <1>4, <2>1, <2>2 DEF AgreeInv
    <2>3. CASE /\ m_SeqMap[c] = NoFile
               /\ m.fm = m_FileMap \cup {s} /\ m.sm = [m_SeqMap EXCEPT ![c] = s]
        <3>1. ContentOf[path'[s]] = c
            BY <1>5 DEF c
        <3>2. m_SeqMap' \in [Contents -> Nat]
            BY <1>2, <2>1, <2>3 DEF AgreeInv
        <3>3. m_SeqMap'[c] = s /\ \A d \in Contents : d # c => m_SeqMap'[d] = m_SeqMap[d]
            BY <1>2, <2>1, <2>3 DEF AgreeInv
        <3>4. ASSUME NEW d \in Contents, m_SeqMap'[d] # NoFile
              PROVE  m_SeqMap'[d] \in m_FileMap' /\ ContentOf[path'[m_SeqMap'[d]]] = d
            BY <1>4, <2>1, <2>3, <3>1, <3>3, <3>4 DEF AgreeInv
        <3>5. ASSUME NEW x \in m_FileMap' PROVE m_SeqMap'[ContentOf[path'[x]]] = x
            <4>1. CASE x = s
                BY <3>1, <3>3, <4>1
            <4>2. CASE x # s
                <5>1. x \in m_FileMap /\ path'[x] = path[x]
                    BY <1>4, <2>1, <2>3, <4>2
                <5>2. m_SeqMap[ContentOf[path[x]]] = x /\ x # NoFile /\ ContentOf[path[x]] \in Contents
                    BY <1>2, <5>1, DownloadAssumption DEF AgreeInv, NumberInv
                <5>3. ContentOf[path[x]] # c
                    BY <2>3, <5>2
                <5> QED
                    BY <3>3, <5>1, <5>2, <5>3
            <4> QED
                BY <4>1, <4>2
        <3> QED
            BY <3>2, <3>4, <3>5 DEF AgreeInv
    <2> QED
        BY <1>7, <2>2, <2>3
<1> QED
    BY <1>3, <1>10, <1>11

\* A start fills the lists anew, in the order of the numbers.
LEMMA BootKeepsLists ==
    ASSUME IInv, LInv, CrashAndBoot
    PROVE  LInv'
<1> DEFINE L == Load(rows)
<1>1. /\ m_FileMap' = L.fm /\ m_SeqMap' = L.sm /\ m_DownloadList' = L.dl /\ m_WaitList' = L.wl
      /\ m_CurDownload' = 0 /\ m_UnusedFileSeq' = MaxFileSeq(rows)
      /\ path' = [s \in {r.seq : r \in rows} |-> (CHOOSE r \in RowOf(s) : TRUE).path]
      /\ gui' = Idle /\ rows' = rows
    BY DEF CrashAndBoot, Boot, SetManager
<1>2. /\ RowInv /\ \A r \in rows : r.seq > 0 /\ r.seq \in Nat
      /\ \A r, q \in rows : r.seq = q.seq => r = q
    BY DEF IInv, LInv, NumberInv, RowInv
<1>3. /\ L.fm = {r.seq : r \in Loaded(rows)}
      /\ L.sm \in [Contents -> Nat]
      /\ \A c \in Contents : L.sm[c] # NoFile =>
            \E r \in Loaded(rows) : L.sm[c] = r.seq /\ ContentOf[r.path] = c
      /\ \A r \in Loaded(rows) : L.sm[ContentOf[r.path]] = r.seq
      /\ L.dl \in Seq(Nat) /\ L.wl \in Seq(Nat)
      /\ Len(L.dl) <= m_MaxDownloadNum
      /\ IsInjective(L.dl \o L.wl) /\ Range(L.dl \o L.wl) \subseteq L.fm
    BY <1>2, Loads
<1> HIDE DEF L
<1>4. Loaded(rows) \subseteq rows
    BY DEF Loaded, Pending
<1>5. \A r \in rows : path'[r.seq] = r.path
    <2> TAKE r \in rows
    <2>1. r \in RowOf(r.seq) /\ \A q \in RowOf(r.seq) : q = r
        BY <1>2 DEF RowOf
    <2>2. (CHOOSE q \in RowOf(r.seq) : TRUE) = r
        BY <2>1
    <2> QED
        BY <1>1, <2>2
<1>6. AgreeInv'
    <2>1. ASSUME NEW c \in Contents, m_SeqMap'[c] # NoFile
          PROVE  m_SeqMap'[c] \in m_FileMap' /\ ContentOf[path'[m_SeqMap'[c]]] = c
        <3>1. PICK r \in Loaded(rows) : L.sm[c] = r.seq /\ ContentOf[r.path] = c
            BY <1>1, <1>3, <2>1
        <3>2. m_SeqMap'[c] = r.seq /\ r.seq \in m_FileMap' /\ path'[r.seq] = r.path
            BY <1>1, <1>3, <1>4, <1>5, <3>1
        <3> QED
            BY <3>1, <3>2
    <2>2. ASSUME NEW s \in m_FileMap' PROVE m_SeqMap'[ContentOf[path'[s]]] = s
        <3>1. PICK r \in Loaded(rows) : s = r.seq
            BY <1>1, <1>3
        <3>2. path'[s] = r.path /\ L.sm[ContentOf[r.path]] = r.seq
            BY <1>3, <1>4, <1>5, <3>1
        <3>3. m_SeqMap' = L.sm
            BY <1>1
        <3> QED
            BY <3>1, <3>2, <3>3
    <2> QED
        BY <1>1, <1>3, <2>1, <2>2 DEF AgreeInv
<1>7. ListInv'
    <2>1. InLists' = Range(L.dl \o L.wl) /\ AllListed' = L.dl \o L.wl
        BY <1>1, <1>3, ListedTogether DEF InLists, AllListed
    <2> QED
        BY <1>1, <1>3, <2>1 DEF ListInv
<1>8. NumberInv'
    <2>1. m_UnusedFileSeq' > 0
        <3>1. CASE rows = {}
            BY <1>1, <3>1 DEF MaxFileSeq
        <3>2. CASE rows # {}
            <4> DEFINE S == {r.seq : r \in rows}
            <4>1. S \subseteq Nat /\ S # {} /\ \A i \in S : i <= m_UnusedFileSeq
                BY <1>2, <3>2 DEF RowInv
            <4>2. m_UnusedFileSeq \in Nat /\ m_UnusedFileSeq' = Max(S) /\ \A i \in S : i > 0
                BY <1>1, <1>2, <3>2 DEF MaxFileSeq, RowInv
            <4> HIDE DEF S
            <4>3. Max(S) \in S
                BY <4>1, <4>2, GreatestExists
            <4> QED
                BY <4>2, <4>3
        <3> QED
            BY <3>1, <3>2
    <2>2. NoFile \notin m_FileMap'
        BY <1>1, <1>2, <1>3, <1>4 DEF NoFile
    <2> QED
        BY <1>1, <1>2, <2>1, <2>2 DEF NumberInv, Idle
<1> QED
    BY <1>6, <1>7, <1>8 DEF LInv

LEMMA LInvStep == IInv /\ LInv /\ [Next]_vars => LInv'
<1> SUFFICES ASSUME IInv, LInv, [Next]_vars PROVE LInv'
    OBVIOUS
<1>1. CASE UNCHANGED vars
    BY <1>1, LInvUnmoved DEF vars, manager, objects, database
<1>2. ASSUME NEW p \in Paths, TryAddDownloadFile(p) PROVE LInv'
    <2>1. /\ UNCHANGED <<manager, rows, path>> /\ m_UnusedFileSeq' = m_UnusedFileSeq + 1
          /\ gui' = gui \/ gui'.seq = m_UnusedFileSeq + 1
        BY <1>2 DEF TryAddDownloadFile
    <2>2. m_UnusedFileSeq \in Nat
        BY DEF IInv, RowInv
    <2> QED
        BY <2>1, <2>2 DEF LInv, ListInv, AgreeInv, NumberInv, manager, InLists, AllListed
<1>3. CASE InitCtrlFile
    <2>1. PICK pc : gui' = [gui EXCEPT !.pc = pc]
        BY <1>3 DEF InitCtrlFile
    <2>2. gui.pc # "idle" /\ UNCHANGED <<manager, rows, m_UnusedFileSeq, path>>
        BY <1>3 DEF InitCtrlFile, objects, database
    <2>3. gui'.seq = gui.seq
        BY <2>1, <2>2 DEF IInv, GuiInv
    <2> QED
        BY <2>2, <2>3 DEF LInv, ListInv, AgreeInv, NumberInv, manager, InLists, AllListed
<1>4. CASE InsertFileInfo
    BY <1>4, InsertKeepsLists
<1>5. ASSUME NEW s \in Seqs, NEW kill \in BOOLEAN, DeleteFile(s, kill) PROVE LInv'
    BY <1>5, DeleteKeepsLists
<1>6. ASSUME NEW p \in Paths, RemoveFile(p) PROVE LInv'
    BY <1>6, LInvUnmoved DEF RemoveFile, objects, database
<1>7. CASE DownloadTask
    <2> DEFINE n == Len(m_DownloadList)
    <2>1. /\ m_DownloadList # <<>> /\ m_CurDownload' = (m_CurDownload + 1) % n
          /\ UNCHANGED <<m_FileMap, m_SeqMap, m_DownloadList, m_WaitList, rows,
                         m_UnusedFileSeq, path, gui>>
        BY <1>7 DEF DownloadTask, objects, database
    <2>2. n \in Nat /\ n > 0 /\ m_CurDownload \in Nat
        <3>1. m_DownloadList \in Seq(Nat) /\ m_CurDownload \in Nat
            BY DEF LInv, ListInv
        <3> QED
            BY <2>1, <3>1, EmptySeq, LenProperties
    <2> HIDE DEF n
    <2>3. m_CurDownload' \in 0 .. n - 1
        BY <2>1, <2>2
    <2>4. m_CurDownload' \in Nat /\ m_CurDownload' < n
        BY <2>2, <2>3
    <2> QED
        BY <2>1, <2>4 DEF LInv, ListInv, AgreeInv, NumberInv, InLists, AllListed, n
<1>8. CASE GetTask
    BY <1>8, LInvUnmoved DEF GetTask, database
<1>9. CASE CheckDownloadFile
    BY <1>9, CheckKeepsLists
<1>10. ASSUME NEW found \in BOOLEAN, Request(found) PROVE LInv'
    BY <1>10, LInvUnmoved DEF Request, objects, database
<1>11. ASSUME NEW s \in Seqs, Sha1Check(s) PROVE LInv'
    <2>1. UNCHANGED <<manager, m_UnusedFileSeq, path, gui>>
        BY <1>11 DEF Sha1Check, objects
    <2>2. \A x \in rows' : x.seq > 0
        <3>1. ASSUME NEW r \in rows PROVE [r EXCEPT !.type = "COMPLETE"].seq = r.seq
            BY DEF IInv, RowInv
        <3>2. \A x \in rows' : x \in rows \/ \E r \in rows : x = [r EXCEPT !.type = "COMPLETE"]
            BY <1>11 DEF Sha1Check, RowOf
        <3> QED
            BY <3>1, <3>2 DEF LInv, NumberInv
    <2> QED
        BY <2>1, <2>2 DEF LInv, ListInv, AgreeInv, NumberInv, manager, InLists, AllListed
<1>12. ASSUME NEW w \in Workers, NEW m \in net, Receive(w, m) PROVE LInv'
    BY <1>12, LInvUnmoved DEF Receive, objects, database
<1>13. ASSUME NEW w \in Workers, Write(w) PROVE LInv'
    BY <1>13, LInvUnmoved DEF Write, objects, database
<1>14. ASSUME NEW w \in Workers, WriteBinary(w) PROVE LInv'
    BY <1>14, LInvUnmoved DEF WriteBinary, objects, database
<1>15. ASSUME NEW c \in Contents, PartnerGoes(c) PROVE LInv'
    BY <1>15, LInvUnmoved DEF PartnerGoes, objects, database
<1>16. CASE CrashAndBoot
    BY <1>16, BootKeepsLists
<1> QED
    BY <1>1, <1>2, <1>3, <1>4, <1>5, <1>6, <1>7, <1>8, <1>9, <1>10, <1>11, <1>12, <1>13,
       <1>14, <1>15, <1>16 DEF Next

\* Whatever the user adds and deletes, the download thread takes off its list and a
\* new process loads, the two maps and the two lists of the file manager agree
\* (add_download_file, kill_download_file, check_download_file, init_file).
THEOREM MapsAndListsAgree == Spec => []ListsAgree
<1>1. LInv => ListsAgree
    BY DEF LInv, ListInv, AgreeInv, ListsAgree, AllListed
<1> QED
    BY InitIInv, NextIInv, InitLInv, LInvStep, <1>1, PTL DEF Spec

\* download_task never indexes past the end of the list, although other threads
\* take files out of it between two of its calls.
THEOREM IndexStaysInList == Spec => []CurDownloadInRange
<1>1. LInv => CurDownloadInRange
    <2> SUFFICES ASSUME LInv, m_DownloadList # <<>> PROVE m_CurDownload < Len(m_DownloadList)
        BY DEF CurDownloadInRange
    <2>1. m_DownloadList \in Seq(Nat)
        BY DEF LInv, ListInv
    <2>2. Len(m_DownloadList) \in Nat /\ Len(m_DownloadList) > 0
        BY <2>1, EmptySeq, LenProperties
    <2> QED
        BY <2>2 DEF LInv, ListInv
<1> QED
    BY InitIInv, NextIInv, InitLInv, LInvStep, <1>1, PTL DEF Spec

(* -------------------------------- types ---------------------------------- *)

\* The file numbers given away are those of the downloads the user added.
NumberTypes ==
    /\ adds \in 0 .. MaxAdds /\ crashes \in Nat /\ losses \in Nat
    /\ m_UnusedFileSeq \in 1 .. adds + 1
    /\ \A r \in rows : r.seq > 1

\* While a control file is being filled, one of its bits is still missing.
CtrlTypes ==
    /\ ctrl \in [Paths -> {None} \cup SUBSET Bits]
    /\ suspect \subseteq Paths
    /\ gui \in {Idle} \cup [pc : {"create", "fill", "insert"}, path : Paths, seq : Seqs]
    /\ gui.pc = "fill" => ctrl[gui.path] \in SUBSET Bits /\ ctrl[gui.path] # Bits

FileTypes ==
    /\ DOMAIN path \subseteq Seqs
    /\ \A s \in DOMAIN path : path[s] \in Paths
    /\ cur \in [Seqs -> 0 .. FragmentNum]
    /\ checks \subseteq Seqs

\* The file the download thread is at has a path.
ThreadTypes ==
    /\ downloader \in [pc : {"pick", "task", "check", "request"}, seq : Seqs \cup {NoFile},
                       frag : Fragments \cup {NoFragment}]
    /\ downloader.pc # "pick" => downloader.seq \in DOMAIN path
    /\ \A w \in Workers : worker[w] \in {Idle} \cup
          [pc : {"write", "mark"}, seq : Seqs, frag : Fragments \cup {NoFragment}]
    /\ net \subseteq Contents \X (Fragments \cup {NoFragment})

Types == NumberTypes /\ CtrlTypes /\ FileTypes /\ ThreadTypes

\* The number of a file in the maps is one that was given away.
LEMMA FileMapTyped == IInv /\ Types => m_FileMap \subseteq DOMAIN path /\ m_FileMap \subseteq Seqs
BY DEF IInv, MapInv, Types, FileTypes

\* The types of all variables follow.
LEMMA TypesGiveTypeOK == IInv /\ LInv /\ Types => TypeOK
<1> SUFFICES ASSUME IInv, LInv, Types PROVE TypeOK
    OBVIOUS
<1>1. m_FileMap \subseteq Seqs
    BY FileMapTyped
<1>2. MaxAdds \in Nat
    BY DownloadAssumption
<1>3. m_UnusedFileSeq \in Seqs \cup {1} /\ {adds, crashes, losses} \subseteq Nat
    BY <1>2 DEF Types, NumberTypes, Seqs
<1>4. rows \subseteq [seq : Seqs, path : Paths, type : {"DOWNLOAD", "COMPLETE"}]
    <2> SUFFICES ASSUME NEW r \in rows
                 PROVE  r \in [seq : Seqs, path : Paths, type : {"DOWNLOAD", "COMPLETE"}]
        OBVIOUS
    <2>1. /\ r \in [seq : Nat, path : Paths, type : {"DOWNLOAD", "COMPLETE"}]
          /\ r.seq <= m_UnusedFileSeq
        BY DEF IInv, RowInv
    <2>2. r.seq \in Seqs
        BY <1>2, <2>1 DEF Types, NumberTypes, Seqs
    <2> QED
        BY <2>1, <2>2
<1>5. m_SeqMap \in [Contents -> Seqs \cup {NoFile}]
    BY <1>1 DEF LInv, AgreeInv
<1>6. InLists \cup checks \subseteq Seqs
    BY <1>1 DEF LInv, ListInv, Types, FileTypes
<1>7. Range(path) \subseteq Paths
    BY DEF Types, FileTypes, Range
<1> QED
    BY <1>1, <1>3, <1>4, <1>5, <1>6, <1>7
    DEF TypeOK, IInv, FileInv, LInv, ListInv, Types, CtrlTypes, FileTypes, ThreadTypes

LEMMA InitTypes == Init => Types
<1> SUFFICES ASSUME Init PROVE Types
    OBVIOUS
<1>1. NumberTypes
    BY DownloadAssumption DEF Init, NumberTypes
<1>2. CtrlTypes
    BY DEF Init, CtrlTypes, Idle
<1>3. FileTypes
    BY DownloadAssumption DEF Init, FileTypes
<1>4. ThreadTypes
    BY DEF Init, ThreadTypes
<1> QED
    BY <1>1, <1>2, <1>3, <1>4 DEF Types

\* A control file that is not filled yet has a bit for the number of those it has,
\* which is the one init_ctrl_file sets next.
LEMMA NextBit ==
    ASSUME NEW S \in SUBSET Bits, S # Bits
    PROVE  Cardinality(S) \in Bits
<1>1. FragmentNum \in Nat \ {0} /\ SegmentNum \in Nat
    BY DownloadAssumption DEF SegmentNum
<1> DEFINE n == FragmentNum + SegmentNum
<1>2. n \in Nat /\ Bits = 0 .. n - 1
    BY <1>1 DEF Bits
<1>3. IsFiniteSet(Bits) /\ Cardinality(Bits) = n
    BY <1>1, <1>2, FS_Interval
<1>4. Cardinality(S) \in Nat /\ Cardinality(S) < n
    BY <1>3, FS_Subset, FS_CardinalityType
<1> QED
    BY <1>2, <1>4

\* The types, for each action.
LEMMA TryAddTypes ==
    ASSUME IInv, LInv, Types, NEW p \in Paths, TryAddDownloadFile(p)
    PROVE  Types'
<1>1. /\ adds < MaxAdds /\ adds' = adds + 1 /\ m_UnusedFileSeq' = m_UnusedFileSeq + 1
      /\ UNCHANGED <<ctrl, rows, path, cur, downloader, worker, checks, net, losses, crashes>>
    BY DEF TryAddDownloadFile, peers
<1>2. NumberTypes' /\ m_UnusedFileSeq' \in Seqs
    BY <1>1, DownloadAssumption DEF Types, NumberTypes, Seqs
<1>3. CtrlTypes'
    BY <1>1, <1>2 DEF Types, CtrlTypes, TryAddDownloadFile, Idle
<1> QED
    BY <1>1, <1>2, <1>3 DEF Types, FileTypes, ThreadTypes

LEMMA InitCtrlTypes ==
    ASSUME Types, InitCtrlFile
    PROVE  Types'
<1> DEFINE p == gui.path
           ones == IF gui.pc = "create" THEN {} ELSE ctrl[p] \cup {Cardinality(ctrl[p])}
<1>1. /\ gui.pc \in {"create", "fill"}
      /\ ctrl' = [ctrl EXCEPT ![p] = ones]
      /\ suspect' = IF ones = Bits THEN suspect \ {p} ELSE suspect \cup {p}
      /\ gui' = [gui EXCEPT !.pc = IF ones = Bits THEN "insert" ELSE "fill"]
      /\ UNCHANGED <<rows, m_UnusedFileSeq, path, cur, downloader, worker, checks, net, losses,
                     adds, crashes>>
    BY DEF InitCtrlFile, objects, database, peers
<1>2. gui \in [pc : {"create", "fill", "insert"}, path : Paths, seq : Seqs]
    BY <1>1 DEF Types, CtrlTypes, Idle
<1>3. ones \in SUBSET Bits
    <2>1. CASE gui.pc = "create"
        BY <2>1
    <2>2. CASE gui.pc = "fill"
        BY <2>2, NextBit DEF Types, CtrlTypes
    <2> QED
        BY <1>1, <2>1, <2>2
<1> HIDE DEF ones
<1>4. CtrlTypes'
    <2>1. ctrl' \in [Paths -> {None} \cup SUBSET Bits] /\ ctrl'[p] = ones
        BY <1>1, <1>2, <1>3 DEF Types, CtrlTypes
    <2>2. /\ gui' \in [pc : {"create", "fill", "insert"}, path : Paths, seq : Seqs]
          /\ gui'.path = p
          /\ gui'.pc = "fill" => ones # Bits
        BY <1>1, <1>2
    <2>3. suspect' \subseteq Paths
        BY <1>1, <1>2 DEF Types, CtrlTypes
    <2> QED
        BY <1>3, <2>1, <2>2, <2>3 DEF CtrlTypes
<1> QED
    BY <1>1, <1>4 DEF Types, NumberTypes, FileTypes, ThreadTypes

LEMMA InsertTypes ==
    ASSUME Types, InsertFileInfo
    PROVE  Types'
<1> DEFINE s == gui.seq
           p == gui.path
<1>1. /\ gui.pc = "insert" /\ gui' = Idle
      /\ rows' = rows \cup {[seq |-> s, path |-> p, type |-> "DOWNLOAD"]}
      /\ path' = [x \in DOMAIN path \cup {s} |-> IF x = s THEN p ELSE path[x]]
      /\ cur' = [cur EXCEPT ![s] = 0]
      /\ UNCHANGED <<ctrl, suspect, m_UnusedFileSeq, downloader, worker, checks, net, losses,
                     adds, crashes>>
    BY DEF InsertFileInfo, disk, peers
<1>2. s \in Seqs /\ p \in Paths
    BY <1>1 DEF Types, CtrlTypes, Idle
<1>3. NumberTypes'
    BY <1>1, <1>2, DownloadAssumption DEF Types, NumberTypes, Seqs
<1>4. CtrlTypes'
    BY <1>1 DEF Types, CtrlTypes, Idle
<1>5. FileTypes'
    BY <1>1, <1>2, DownloadAssumption DEF Types, FileTypes
<1>6. ThreadTypes'
    BY <1>1 DEF Types, ThreadTypes
<1> QED
    BY <1>3, <1>4, <1>5, <1>6 DEF Types

LEMMA DownloadTaskTypes ==
    ASSUME IInv, LInv, Types, DownloadTask
    PROVE  Types'
<1> DEFINE s == m_DownloadList[m_CurDownload + 1]
<1>1. /\ m_DownloadList # <<>>
      /\ downloader' = [downloader EXCEPT !.pc = "task", !.seq = s]
      /\ UNCHANGED <<ctrl, suspect, gui, rows, m_UnusedFileSeq, path, cur, worker, checks, net,
                     losses, adds, crashes>>
    BY DEF DownloadTask, disk, objects, database, peers
<1>2. s \in InLists
    <2>1. m_DownloadList \in Seq(Nat) /\ m_CurDownload \in Nat
        BY DEF LInv, ListInv
    <2>2. Len(m_DownloadList) \in Nat /\ Len(m_DownloadList) > 0
        BY <1>1, <2>1, EmptySeq, LenProperties
    <2>3. m_CurDownload + 1 \in DOMAIN m_DownloadList
        BY <2>1, <2>2, LenProperties DEF LInv, ListInv
    <2> QED
        BY <2>3 DEF InLists, Range
<1>3. s \in DOMAIN path /\ s \in Seqs
    BY <1>2, FileMapTyped DEF LInv, ListInv
<1> HIDE DEF s
<1>4. ThreadTypes'
    BY <1>1, <1>3 DEF Types, ThreadTypes
<1> QED
    BY <1>1, <1>4 DEF Types, NumberTypes, CtrlTypes, FileTypes

LEMMA GetTaskTypes ==
    ASSUME Types, GetTask
    PROVE  Types'
<1> DEFINE s == downloader.seq
           found == NextWanted(s)
<1>1. /\ downloader.pc = "task"
      /\ \/ /\ found # {}
            /\ downloader' = [downloader EXCEPT !.pc = "request", !.frag = First(found)]
            /\ cur' = [cur EXCEPT ![s] = First(found) + 1]
         \/ /\ downloader' = [downloader EXCEPT !.pc = "check"]
            /\ cur' = [cur EXCEPT ![s] = FragmentNum]
      /\ UNCHANGED <<ctrl, suspect, gui, rows, m_UnusedFileSeq, path, worker, checks, net,
                     losses, adds, crashes>>
    BY DEF GetTask, disk, database, peers
<1>2. s \in DOMAIN path /\ s \in Seqs /\ FragmentNum \in Nat
    BY <1>1, DownloadAssumption DEF Types, ThreadTypes, FileTypes
<1>3. found \subseteq Fragments
    BY DEF NextWanted, WantedFrom, Wanted
<1>4. found # {} => First(found) \in Fragments
    <2>1. Fragments \subseteq Nat
        BY DEF Fragments
    <2> QED
        BY <1>3, <2>1, FirstExists
<1> HIDE DEF found
<1>5. found # {} => First(found) + 1 \in 0 .. FragmentNum
    BY <1>2, <1>4 DEF Fragments
<1>6. FileTypes'
    BY <1>1, <1>2, <1>5 DEF Types, FileTypes
<1>7. ThreadTypes'
    BY <1>1, <1>4 DEF Types, ThreadTypes
<1> QED
    BY <1>1, <1>6, <1>7 DEF Types, NumberTypes, CtrlTypes

LEMMA CheckTypes ==
    ASSUME Types, CheckDownloadFile
    PROVE  Types'
<1>1. /\ downloader.pc = "check"
      /\ \/ /\ checks' = checks \cup {downloader.seq}
            /\ downloader' = [downloader EXCEPT !.pc = "pick", !.seq = NoFile]
         \/ /\ downloader' = [downloader EXCEPT !.pc = "request"]
            /\ checks' = checks
      /\ UNCHANGED <<ctrl, suspect, gui, rows, m_UnusedFileSeq, path, cur, worker, net, losses,
                     adds, crashes>>
    BY DEF CheckDownloadFile, disk, objects, database, peers
<1>2. FileTypes'
    BY <1>1 DEF Types, FileTypes, ThreadTypes
<1>3. ThreadTypes'
    BY <1>1 DEF Types, ThreadTypes
<1> QED
    BY <1>1, <1>2, <1>3 DEF Types, NumberTypes, CtrlTypes

LEMMA RequestTypes ==
    ASSUME Types, NEW found \in BOOLEAN, Request(found)
    PROVE  Types'
<1> DEFINE m == <<ContentOf[path[downloader.seq]], downloader.frag>>
<1>1. /\ downloader.pc = "request"
      /\ net' \subseteq net \cup {m}
      /\ downloader' = [downloader EXCEPT !.pc = "pick", !.seq = NoFile]
      /\ UNCHANGED <<ctrl, suspect, gui, rows, m_UnusedFileSeq, path, cur, worker, checks,
                     losses, adds, crashes>>
    BY DEF Request, disk, objects, database
<1>2. m \in Contents \X (Fragments \cup {NoFragment})
    BY <1>1, DownloadAssumption DEF Types, ThreadTypes, FileTypes
<1> HIDE DEF m
<1>3. ThreadTypes'
    BY <1>1, <1>2 DEF Types, ThreadTypes
<1> QED
    BY <1>1, <1>3 DEF Types, NumberTypes, CtrlTypes, FileTypes

LEMMA ReceiveTypes ==
    ASSUME IInv, Types, NEW w \in Workers, NEW m \in net, Receive(w, m)
    PROVE  Types'
<1> DEFINE s == FileOf(m[1])
<1>1. /\ net' \subseteq net
      /\ \/ /\ s # NoFile
            /\ worker' = [worker EXCEPT ![w] = [pc |-> "write", seq |-> s, frag |-> m[2]]]
         \/ worker' = worker
      /\ UNCHANGED <<ctrl, suspect, gui, rows, m_UnusedFileSeq, path, cur, downloader, checks,
                     losses, adds, crashes>>
    BY DEF Receive, disk, objects, database
<1>2. m[2] \in Fragments \cup {NoFragment}
    BY DEF Types, ThreadTypes
<1>3. s # NoFile => s \in Seqs
    BY FileMapTyped DEF FileOf
<1> HIDE DEF s
<1>4. ThreadTypes'
    BY <1>1, <1>2, <1>3 DEF Types, ThreadTypes, IInv, WorkInv
<1> QED
    BY <1>1, <1>4 DEF Types, NumberTypes, CtrlTypes, FileTypes

LEMMA WriteTypes ==
    ASSUME IInv, Types, NEW w \in Workers, Write(w)
    PROVE  Types'
<1>1. /\ worker[w].pc = "write"
      /\ worker' = [worker EXCEPT ![w].pc = "mark"]
      /\ UNCHANGED <<ctrl, suspect, gui, rows, m_UnusedFileSeq, path, cur, downloader, checks,
                     net, losses, adds, crashes>>
    BY DEF Write, objects, database, peers
<1>2. worker[w] \in [pc : {"write", "mark"}, seq : Seqs, frag : Fragments \cup {NoFragment}]
    BY <1>1 DEF Types, ThreadTypes, Idle
<1>3. worker'[w] \in [pc : {"write", "mark"}, seq : Seqs, frag : Fragments \cup {NoFragment}]
    BY <1>1, <1>2 DEF IInv, WorkInv
<1>4. \A v \in Workers : v # w => worker'[v] = worker[v]
    BY <1>1 DEF IInv, WorkInv
<1>5. ThreadTypes'
    BY <1>1, <1>3, <1>4 DEF Types, ThreadTypes
<1> QED
    BY <1>1, <1>5 DEF Types, NumberTypes, CtrlTypes, FileTypes

LEMMA MarkTypes ==
    ASSUME IInv, Types, NEW w \in Workers, WriteBinary(w)
    PROVE  Types'
<1> DEFINE p == path[worker[w].seq]
           f == worker[w].frag
<1>1. PICK i \in IF f = NoFragment THEN Fragments ELSE {f} :
          /\ worker[w].pc = "mark"
          /\ ctrl' = [ctrl EXCEPT ![p] = @ \ {i}]
          /\ suspect' = IF f = NoFragment THEN suspect \cup {p} ELSE suspect
          /\ worker' = [worker EXCEPT ![w] = Idle]
          /\ UNCHANGED <<gui, rows, m_UnusedFileSeq, path, cur, downloader, checks, net,
                         losses, adds, crashes>>
    BY DEF WriteBinary, objects, database, peers
<1>2. p \in Paths /\ i \in Fragments
    <2>1. worker[w] \in [pc : {"write", "mark"}, seq : Seqs, frag : Fragments \cup {NoFragment}]
        BY <1>1 DEF Types, ThreadTypes, Idle
    <2>2. Active(w)
        BY <1>1 DEF Active
    <2> QED
        BY <2>1, <2>2 DEF IInv, WorkInv, FileInv
<1> HIDE DEF p, f
<1>3. ThreadTypes'
    BY <1>1 DEF Types, ThreadTypes, IInv, WorkInv
<1>4. ASSUME NEW S \in {None} \cup SUBSET Bits
      PROVE  S \ {i} \in {None} \cup SUBSET Bits /\ (S \in SUBSET Bits => S \ {i} # Bits)
    BY <1>2, FragmentsHaveBits DEF Fragments, None
<1>5. CtrlTypes'
    <2>1. ctrl' \in [Paths -> {None} \cup SUBSET Bits]
        BY <1>1, <1>2, <1>4 DEF Types, CtrlTypes
    <2>2. suspect' \subseteq Paths
        BY <1>1, <1>2 DEF Types, CtrlTypes
    <2>3. ASSUME gui'.pc = "fill" PROVE ctrl'[gui'.path] \in SUBSET Bits /\ ctrl'[gui'.path] # Bits
        <3>1. gui' = gui /\ gui.path \in Paths
            BY <1>1, <2>3 DEF Types, CtrlTypes, Idle
        <3>2. ctrl[gui.path] \in SUBSET Bits /\ ctrl[gui.path] # Bits
            BY <2>3, <3>1 DEF Types, CtrlTypes
        <3>3. ctrl'[gui.path] = ctrl[gui.path] \/ ctrl'[gui.path] = ctrl[gui.path] \ {i}
            BY <1>1, <1>2, <3>1 DEF Types, CtrlTypes
        <3> QED
            BY <1>4, <3>1, <3>2, <3>3
    <2> QED
        BY <1>1, <2>1, <2>2, <2>3 DEF Types, CtrlTypes
<1> QED
    BY <1>1, <1>3, <1>5 DEF Types, NumberTypes, FileTypes

LEMMA BootTypes ==
    ASSUME IInv, Types, CrashAndBoot
    PROVE  Types'
<1>1. /\ m_UnusedFileSeq' = MaxFileSeq(rows)
      /\ path' = [s \in {r.seq : r \in rows} |-> (CHOOSE r \in RowOf(s) : TRUE).path]
      /\ cur' = [s \in Seqs |-> 0]
      /\ downloader' = [pc |-> "pick", seq |-> NoFile, frag |-> NoFragment]
      /\ worker' = [w \in Workers |-> Idle]
      /\ checks' = {} /\ gui' = Idle /\ net' = {} /\ crashes' = crashes + 1
      /\ UNCHANGED <<ctrl, suspect, rows, adds, losses>>
    BY DEF CrashAndBoot, Boot, disk
<1>2. /\ MaxAdds \in Nat /\ FragmentNum \in Nat
      /\ adds \in 0 .. MaxAdds /\ m_UnusedFileSeq \in 1 .. adds + 1
    BY DownloadAssumption DEF Types, NumberTypes
<1>3. \A r \in rows : r.seq \in 2 .. m_UnusedFileSeq /\ r.path \in Paths
    <2> TAKE r \in rows
    <2>1. r.seq \in Nat /\ r.path \in Paths /\ r.seq <= m_UnusedFileSeq /\ r.seq > 1
        BY DEF IInv, RowInv, Types, NumberTypes
    <2> QED
        BY <1>2, <2>1
<1>4. m_UnusedFileSeq' \in 1 .. m_UnusedFileSeq
    <2>1. CASE rows = {}
        BY <1>1, <1>2, <2>1 DEF MaxFileSeq
    <2>2. CASE rows # {}
        <3> DEFINE S == {r.seq : r \in rows}
        <3>1. S \subseteq 2 .. m_UnusedFileSeq /\ S # {} /\ m_UnusedFileSeq' = Max(S)
            BY <1>1, <1>3, <2>2 DEF MaxFileSeq
        <3> HIDE DEF S
        <3>2. S \in SUBSET Nat /\ \A i \in S : i <= m_UnusedFileSeq
            BY <1>2, <3>1
        <3>3. Max(S) \in S
            BY <1>2, <3>1, <3>2, GreatestExists
        <3>4. Max(S) \in 2 .. m_UnusedFileSeq
            BY ONLY <3>1, <3>3
        <3> QED
            BY <1>2, <3>1, <3>4
    <2> QED
        BY <2>1, <2>2
<1>5. NumberTypes'
    BY <1>1, <1>2, <1>4 DEF Types, NumberTypes
<1>6. CtrlTypes'
    BY <1>1 DEF Types, CtrlTypes, Idle
<1>7. FileTypes'
    <2>1. DOMAIN path' \subseteq Seqs
        BY <1>1, <1>2, <1>3 DEF Seqs
    <2>2. ASSUME NEW s \in DOMAIN path' PROVE path'[s] \in Paths
        <3>1. PICK r \in rows : r.seq = s
            BY <1>1
        <3>2. r \in RowOf(s) /\ RowOf(s) \subseteq rows
            BY <3>1 DEF RowOf
        <3>3. (CHOOSE q \in RowOf(s) : TRUE) \in rows
            BY <3>2
        <3> QED
            BY <1>1, <1>3, <3>3
    <2>3. cur' \in [Seqs -> 0 .. FragmentNum] /\ checks' \subseteq Seqs
        <3>1. 0 \in 0 .. FragmentNum
            BY <1>2
        <3> QED
            BY <1>1, <3>1
    <2> QED
        BY <2>1, <2>2, <2>3 DEF FileTypes
<1>8. ThreadTypes'
    BY <1>1 DEF ThreadTypes
<1> QED
    BY <1>5, <1>6, <1>7, <1>8 DEF Types

LEMMA TypesStep == IInv /\ LInv /\ Types /\ [Next]_vars => Types'
<1> SUFFICES ASSUME IInv, LInv, Types, [Next]_vars PROVE Types'
    OBVIOUS
<1> USE DEF Types
<1>1. CASE UNCHANGED vars
    BY <1>1 DEF vars, disk, objects, database, peers, NumberTypes, CtrlTypes, FileTypes, ThreadTypes
<1>2. ASSUME NEW p \in Paths, TryAddDownloadFile(p) PROVE Types'
    BY <1>2, TryAddTypes
<1>3. CASE InitCtrlFile
    BY <1>3, InitCtrlTypes
<1>4. CASE InsertFileInfo
    BY <1>4, InsertTypes
<1>5. ASSUME NEW s \in Seqs, NEW kill \in BOOLEAN, DeleteFile(s, kill) PROVE Types'
    BY <1>5 DEF DeleteFile, disk, objects, peers, NumberTypes, CtrlTypes, FileTypes, ThreadTypes
<1>6. ASSUME NEW p \in Paths, RemoveFile(p) PROVE Types'
    BY <1>6 DEF RemoveFile, objects, database, peers, NumberTypes, CtrlTypes, FileTypes, ThreadTypes
<1>7. CASE DownloadTask
    BY <1>7, DownloadTaskTypes
<1>8. CASE GetTask
    BY <1>8, GetTaskTypes
<1>9. CASE CheckDownloadFile
    BY <1>9, CheckTypes
<1>10. ASSUME NEW found \in BOOLEAN, Request(found) PROVE Types'
    BY <1>10, RequestTypes
<1>11. ASSUME NEW s \in Seqs, Sha1Check(s) PROVE Types'
    <2>1. \A x \in rows' : x.seq > 1
        <3>1. ASSUME NEW r \in rows PROVE [r EXCEPT !.type = "COMPLETE"].seq = r.seq
            BY DEF IInv, RowInv
        <3>2. \A x \in rows' : x \in rows \/ \E r \in rows : x = [r EXCEPT !.type = "COMPLETE"]
            BY <1>11 DEF Sha1Check, RowOf
        <3> QED
            BY <3>1, <3>2 DEF NumberTypes
    <2> QED
        BY <1>11, <2>1 DEF Sha1Check, disk, objects, peers, NumberTypes, CtrlTypes, FileTypes, ThreadTypes
<1>12. ASSUME NEW w \in Workers, NEW m \in net, Receive(w, m) PROVE Types'
    BY <1>12, ReceiveTypes
<1>13. ASSUME NEW w \in Workers, Write(w) PROVE Types'
    BY <1>13, WriteTypes
<1>14. ASSUME NEW w \in Workers, WriteBinary(w) PROVE Types'
    BY <1>14, MarkTypes
<1>15. ASSUME NEW c \in Contents, PartnerGoes(c) PROVE Types'
    BY <1>15 DEF PartnerGoes, disk, objects, database, NumberTypes, CtrlTypes, FileTypes, ThreadTypes
<1>16. CASE CrashAndBoot
    BY <1>16, BootTypes
<1> QED
    BY <1>1, <1>2, <1>3, <1>4, <1>5, <1>6, <1>7, <1>8, <1>9, <1>10, <1>11, <1>12, <1>13,
       <1>14, <1>15, <1>16 DEF Next

\* Nothing leaves its type: init_ctrl_file sets no bit behind the end of the control
\* file, the walk of get_task ends at the last fragment, and the download thread is
\* never at a file without a path, whatever was killed since it picked it.
THEOREM DownloadTypes == Spec => []TypeOK
<1> QED
    BY InitIInv, NextIInv, InitLInv, LInvStep, InitTypes, TypesStep, TypesGiveTypeOK, PTL DEF Spec

=============================================================================
