------------------------------ MODULE Download ------------------------------
(***************************************************************************)
(* How files are downloaded: the file manager's maps and lists             *)
(* (module_file/file_manager.cpp), the control file that records which     *)
(* fragments are there (file_ctrl/file_ctrl_incomplete.cpp), the download  *)
(* thread, the hash check and the interface's commands (app_ctrl.cpp), and *)
(* the handler of the answers (module_handler/handler_file.cpp).           *)
(*                                                                         *)
(* The process may end at any moment.  What it wrote through its mapped    *)
(* files stays, whatever it kept in memory goes, and the next process      *)
(* starts from the database and the control files.                         *)
(***************************************************************************)
EXTENDS Integers, Sequences, FiniteSets, SequencesExt, Functions

CONSTANTS
    Paths,              \* where the user saves files
    Contents,           \* what files hold, known by its SHA1
    ContentOf,          \* the content of the link the user saves at a path
    Workers,            \* the threads that handle answers
    FragmentNum,        \* fragments of a file
    SegmentSize,        \* fragments of a segment, 64
    m_MaxDownloadNum,   \* files downloaded at a time, 8
    MaxAdds,            \* bound: downloads the user ever adds
    MaxCrashes,         \* bound: how often the process ends
    MaxLosses           \* bound: how often a partner goes away before it has answered

ASSUME DownloadAssumption ==
    /\ ContentOf \in [Paths -> Contents]
    /\ {FragmentNum, SegmentSize, m_MaxDownloadNum} \subseteq Nat \ {0}
    /\ {MaxAdds, MaxCrashes, MaxLosses} \subseteq Nat

Fragments == 0 .. FragmentNum - 1
SegmentNum == (FragmentNum + SegmentSize - 1) \div SegmentSize
Bits == 0 .. FragmentNum + SegmentNum - 1   \* of a control file: fragments, segments
SegmentBit(i) == FragmentNum + (i \div SegmentSize)
Seqs == 2 .. MaxAdds + 1                    \* file numbers
NoFile == 0
NoFragment == -1   \* in FragmentStart: not assigned yet
Idle == [pc |-> "idle"]

VARIABLES
    data,           \* the fragments whose bytes are in the file; None if there is no file
    ctrl,           \* the bits of the control file that are 1; None if there is none
    suspect,        \* history: paths whose control file was not written to the end,
                    \* belongs to an earlier file or has marked a torn fragment
    rows,           \* the table FILE_INFO; its key is seq, which grows as rows are added
    m_UnusedFileSeq,
    opened,         \* paths this process holds open
    path, cur,      \* of each FileCtrlIncmpl: its path, m_CurFragment
    m_FileMap, m_SeqMap, m_DownloadList, m_WaitList, m_CurDownload,
    downloader,     \* thread_loop_download: its step, FileCtrl and FragmentStart
    worker,         \* the answer each handler thread is at
    checks,         \* FileCtrls handed to thread_sha1_check
    gui,            \* the interface's thread
    net,            \* fragments asked for and not answered
    adds, crashes, losses

disk == <<data, ctrl, suspect>>
manager == <<m_FileMap, m_SeqMap, m_DownloadList, m_WaitList, m_CurDownload>>
objects == <<opened, path, cur>>
database == <<rows, m_UnusedFileSeq>>
peers == <<net, losses>>
vars == <<disk, manager, objects, database, downloader, worker, checks, gui, peers,
          adds, crashes>>

None == {-1}   \* no such file
Exists(f, p) == f[p] # None
Whole(p) == data[p] = Fragments
RowOf(s) == {r \in rows : r.seq = s}
InLists == Range(m_DownloadList) \cup Range(m_WaitList)

-----------------------------------------------------------------------------
(* FileManager: every operation holds m_FileMgrMutex.                      *)

\* add_download_file followed by refresh_download_list, from the maps and lists m.
RefreshDownloadList(m) ==
    LET room == m_MaxDownloadNum - Len(m.dl)
        n == IF room < Len(m.wl) THEN room ELSE Len(m.wl)
    IN  [m EXCEPT !.dl = @ \o SubSeq(m.wl, 1, n), !.wl = SubSeq(@, n + 1, Len(@))]

AddDownloadFile(m, s, c) ==
    IF s \in m.fm \/ m.sm[c] # NoFile THEN m
    ELSE [m EXCEPT !.fm = @ \cup {s}, !.sm[c] = s, !.wl = Append(@, s)]

Manager == [fm |-> m_FileMap, sm |-> m_SeqMap, dl |-> m_DownloadList, wl |-> m_WaitList]

SetManager(m) ==
    /\ m_FileMap' = m.fm
    /\ m_SeqMap' = m.sm
    /\ m_DownloadList' = m.dl
    /\ m_WaitList' = m.wl

First(S) == CHOOSE i \in S : \A j \in S : i <= j

\* The first place of s in the list is erased.
Erased(s, list) ==
    IF Contains(list, s) THEN RemoveAt(list, First({i \in DOMAIN list : list[i] = s})) ELSE list

\* Slip: only a download under way leaves its list.
SlipKillForgetsWaiting(s) ==
    [fm |-> m_FileMap \ {s}, sm |-> [m_SeqMap EXCEPT ![ContentOf[path[s]]] = NoFile],
     dl |-> Erased(s, m_DownloadList), wl |-> m_WaitList]

Killed(s) ==
    [fm |-> m_FileMap \ {s}, sm |-> [m_SeqMap EXCEPT ![ContentOf[path[s]]] = NoFile],
     dl |-> Erased(s, m_DownloadList),
     wl |-> IF Contains(m_DownloadList, s) THEN m_WaitList ELSE Erased(s, m_WaitList)]

\* Slip: the index stays where it was.
SlipKillKeepsIndex(s) ==
    IF s \notin m_FileMap THEN UNCHANGED manager
    ELSE SetManager(Killed(s)) /\ UNCHANGED m_CurDownload

KillDownloadFile(s) ==
    IF s \notin m_FileMap THEN UNCHANGED manager
    ELSE SetManager(Killed(s)) /\ m_CurDownload' = 0

\* file_ctrl: the file a content is looked up to.
FileOf(c) == IF m_SeqMap[c] \in m_FileMap THEN m_SeqMap[c] ELSE NoFile

-----------------------------------------------------------------------------
(* FileCtrlIncmpl                                                          *)

\* Fragments get_task would still ask for, walking on from m_CurFragment.
Wanted(p) == {i \in Fragments : {i, SegmentBit(i)} \subseteq ctrl[p]}
WantedFrom(s) == {i \in Wanted(path[s]) : i >= cur[s]}

\* Slip: check_task goes on where get_task stopped.
SlipNoSecondLook(s) == WantedFrom(s)

\* What get_task or, if that finds nothing, check_task from the first fragment sees.
NextWanted(s) == IF WantedFrom(s) # {} THEN WantedFrom(s) ELSE Wanted(path[s])
\* open_file fails on a path whose earlier FileCtrlIncmpl has not let go of it,
\* and none ever does: close() has no caller and the destructor deletes nothing.
CanInit(p) == p \notin opened /\ (Exists(data, p) => Exists(ctrl, p))

-----------------------------------------------------------------------------
(* The interface's thread                                                  *)

\* try_add_download_file up to init(): the file is created if there is none, and
\* then the control file.  select_file_seq compares the column with an unquoted
\* word, which SQLite refuses: it never finds a row, so no link is turned away.
TryAddDownloadFile(p) ==
    /\ gui = Idle
    /\ adds < MaxAdds
    /\ adds' = adds + 1
    /\ m_UnusedFileSeq' = m_UnusedFileSeq + 1
    /\ IF CanInit(p)
       THEN /\ opened' = opened \cup {p}
            /\ data' = [data EXCEPT ![p] = IF Exists(data, p) THEN @ ELSE {}]
            /\ gui' = [pc |-> IF Exists(ctrl, p) THEN "insert" ELSE "create", path |-> p,
                       seq |-> m_UnusedFileSeq']
            /\ suspect' = IF ~Exists(data, p) /\ Exists(ctrl, p) THEN suspect \cup {p}
                          ELSE suspect
       ELSE UNCHANGED <<opened, data, gui, suspect>>
    /\ UNCHANGED <<ctrl, manager, rows, path, cur, downloader, worker, checks, peers, crashes>>

\* init_ctrl_file: create_file fills the file with zeros, then one bit after the other is set.
InitCtrlFile ==
    /\ gui.pc \in {"create", "fill"}
    /\ LET p == gui.path
           ones == IF gui.pc = "create" THEN {} ELSE ctrl[p] \cup {Cardinality(ctrl[p])}
       IN  /\ ctrl' = [ctrl EXCEPT ![p] = ones]
           /\ suspect' = IF ones = Bits THEN suspect \ {p} ELSE suspect \cup {p}
           /\ gui' = [gui EXCEPT !.pc = IF ones = Bits THEN "insert" ELSE "fill"]
    /\ UNCHANGED <<data, manager, objects, database, downloader, worker, checks, peers, adds,
                   crashes>>

\* The rest of try_add_download_file: the row, the maps and lists.
InsertFileInfo ==
    /\ gui.pc = "insert"
    /\ LET s == gui.seq p == gui.path
       IN  /\ rows' = rows \cup {[seq |-> s, path |-> p, type |-> "DOWNLOAD"]}
           /\ path' = [x \in DOMAIN path \cup {s} |-> IF x = s THEN p ELSE path[x]]
           /\ cur' = [cur EXCEPT ![s] = 0]
           /\ SetManager(RefreshDownloadList(AddDownloadFile(Manager, s, ContentOf[p])))
    /\ gui' = Idle
    /\ UNCHANGED <<disk, m_CurDownload, m_UnusedFileSeq, opened, downloader, worker, checks,
                   peers, adds, crashes>>

\* The user deletes a download: from the download list, which also kills it, or
\* from the page of all files, which only deletes the row.
DeleteFile(s, kill) ==
    /\ gui = Idle
    /\ RowOf(s) # {}
    /\ rows' = rows \ RowOf(s)
    /\ IF kill THEN KillDownloadFile(s) ELSE UNCHANGED manager
    /\ UNCHANGED <<disk, objects, m_UnusedFileSeq, downloader, worker, checks, gui, peers, adds,
                   crashes>>

\* The user removes a file that no process holds open; the control file is hidden.
RemoveFile(p) ==
    /\ p \notin opened
    /\ Exists(data, p)
    /\ \A r \in rows : r.path # p
    /\ data' = [data EXCEPT ![p] = None]
    /\ UNCHANGED <<ctrl, suspect, manager, objects, database, downloader, worker, checks, gui,
                   peers, adds, crashes>>

-----------------------------------------------------------------------------
(* thread_loop_download                                                    *)

DownloadTask ==
    /\ downloader.pc = "pick"
    /\ m_DownloadList # <<>>
    /\ downloader' = [downloader EXCEPT !.pc = "task",
                                        !.seq = m_DownloadList[m_CurDownload + 1]]
    /\ m_CurDownload' = (m_CurDownload + 1) % Len(m_DownloadList)
    /\ UNCHANGED <<disk, m_FileMap, m_SeqMap, m_DownloadList, m_WaitList, objects, database,
                   worker, checks, gui, peers, adds, crashes>>

\* get_task and check_task.  Bits only turn from 1 to 0 while they walk, so the
\* walk is as good as atomic.
GetTask ==
    /\ downloader.pc = "task"
    /\ LET s == downloader.seq
           found == NextWanted(s)
       IN  IF found # {}
           THEN /\ downloader' = [downloader EXCEPT !.pc = "request", !.frag = First(found)]
                /\ cur' = [cur EXCEPT ![s] = First(found) + 1]
           ELSE /\ downloader' = [downloader EXCEPT !.pc = "check"]
                /\ cur' = [cur EXCEPT ![s] = FragmentNum]
    /\ UNCHANGED <<disk, manager, opened, path, database, worker, checks, gui, peers, adds,
                   crashes>>

\* check_download_file.  If the file was killed in the meantime the thread goes on
\* to ask for the fragment of an earlier round.
CheckDownloadFile ==
    /\ downloader.pc = "check"
    /\ m_CurDownload' = 0
    /\ LET s == downloader.seq
       IN  IF Contains(m_DownloadList, s)
           THEN /\ m_DownloadList' = Erased(s, m_DownloadList)
                /\ checks' = checks \cup {s}
                /\ downloader' = [downloader EXCEPT !.pc = "pick", !.seq = NoFile]
           ELSE /\ downloader' = [downloader EXCEPT !.pc = "request"]
                /\ UNCHANGED <<m_DownloadList, checks>>
    /\ UNCHANGED <<disk, m_FileMap, m_SeqMap, m_WaitList, objects, database, worker, gui, peers,
                   adds, crashes>>

\* search_cid, session() and send_reliable: if there is no partner at the moment,
\* the fragment is passed over.
Request(found) ==
    /\ downloader.pc = "request"
    /\ net' = IF found THEN net \cup {<<ContentOf[path[downloader.seq]], downloader.frag>>} ELSE net
    /\ downloader' = [downloader EXCEPT !.pc = "pick", !.seq = NoFile]
    /\ UNCHANGED <<disk, manager, objects, database, worker, checks, gui, losses, adds, crashes>>

\* Slip: the control file is asked instead of the hash.
SlipTrustsControlFile(s) == ctrl[path[s]] \cap Fragments = {}

Sha1Equal(s) == Whole(path[s])

\* thread_sha1_check
Sha1Check(s) ==
    /\ s \in checks
    /\ checks' = checks \ {s}
    /\ rows' = IF Sha1Equal(s)
               THEN (rows \ RowOf(s)) \cup {[r EXCEPT !.type = "COMPLETE"] : r \in RowOf(s)}
               ELSE rows
    /\ UNCHANGED <<disk, manager, objects, m_UnusedFileSeq, downloader, worker, gui, peers, adds,
                   crashes>>

-----------------------------------------------------------------------------
(* Partners and their answers                                              *)

\* handle_file_fragment_ack up to the lookup.  What a partner answers to the
\* fragment of a variable that was never assigned, if anything, is not a fragment.
Receive(w, m) ==
    /\ worker[w] = Idle
    /\ m \in net
    /\ net' = net \ {m}
    /\ LET s == FileOf(m[1])
       IN  \/ /\ s # NoFile
              /\ worker' = [worker EXCEPT ![w] = [pc |-> "write", seq |-> s, frag |-> m[2]]]
           \/ /\ s = NoFile \/ m[2] = NoFragment
              /\ UNCHANGED worker
    /\ UNCHANGED <<disk, manager, objects, database, downloader, checks, gui, losses, adds,
                   crashes>>

\* Slip: File::write refuses the last fragment.
SlipLastFragment(p, f) == data[p] \cup ({f} \cap 0 .. FragmentNum - 2)

Written(p, f) == data[p] \cup ({f} \cap Fragments)

\* complete_fragment: the bytes first, ...
Write(w) ==
    /\ worker[w].pc = "write"
    /\ LET p == path[worker[w].seq]
       IN  data' = [data EXCEPT ![p] = Written(p, worker[w].frag)]
    /\ worker' = [worker EXCEPT ![w].pc = "mark"]
    /\ UNCHANGED <<ctrl, suspect, manager, objects, database, downloader, checks, gui, peers,
                   adds, crashes>>

\* ... then the bit; of a torn answer, the bit of the fragment it begins in.
WriteBinary(w) ==
    /\ worker[w].pc = "mark"
    /\ LET p == path[worker[w].seq]
           f == worker[w].frag
       IN  \E i \in IF f = NoFragment THEN Fragments ELSE {f} :
              /\ ctrl' = [ctrl EXCEPT ![p] = @ \ {i}]
              /\ suspect' = IF f = NoFragment THEN suspect \cup {p} ELSE suspect
    /\ worker' = [worker EXCEPT ![w] = Idle]
    /\ UNCHANGED <<data, manager, objects, database, downloader, checks, gui, peers, adds,
                   crashes>>

\* A session ends, and with it what was on the way to and from this partner.
PartnerGoes(c) ==
    /\ losses < MaxLosses
    /\ \E m \in net : m[1] = c
    /\ losses' = losses + 1
    /\ net' = {m \in net : m[1] # c}
    /\ UNCHANGED <<disk, manager, objects, database, downloader, worker, checks, gui, adds,
                   crashes>>

-----------------------------------------------------------------------------
(* A process begins                                                        *)

\* init_file loads the rows whose files are still being downloaded, in the order of
\* the table; of those of one content add_download_file takes the first.
Pending(rs) == {r \in rs : r.type = "DOWNLOAD"}
Loaded(rs) ==
    {r \in Pending(rs) :
        \A q \in Pending(rs) : ContentOf[q.path] = ContentOf[r.path] => r.seq <= q.seq}

\* File numbers in the order of the table, which grows with them.
InOrder(seqs) ==
    CHOOSE q \in [1 .. Cardinality(seqs) -> seqs] : \A i, j \in DOMAIN q : i < j => q[i] < q[j]

Load(rs) ==
    LET loaded == Loaded(rs)
        seqs == {r.seq : r \in loaded}
        OfContent(c) == {r \in loaded : ContentOf[r.path] = c}
    IN  RefreshDownloadList(
          [fm |-> seqs,
           sm |-> [c \in Contents |-> IF OfContent(c) = {} THEN NoFile
                                      ELSE (CHOOSE r \in OfContent(c) : TRUE).seq],
           dl |-> <<>>,
           wl |-> InOrder(seqs)])

\* Slip: the next free number instead of the last one in use.
SlipMaxIsNext(rs) == IF rs = {} THEN 1 ELSE Max({r.seq : r \in rs}) + 1

MaxFileSeq(rs) == IF rs = {} THEN 1 ELSE Max({r.seq : r \in rs})

Boot(rs) ==
    /\ SetManager(Load(rs))
    /\ m_CurDownload' = 0
    /\ m_UnusedFileSeq' = MaxFileSeq(rs)
    /\ opened' = {r.path : r \in Pending(rs)}
    /\ path' = [s \in {r.seq : r \in rs} |-> (CHOOSE r \in RowOf(s) : TRUE).path]
    /\ cur' = [s \in Seqs |-> 0]
    /\ downloader' = [pc |-> "pick", seq |-> NoFile, frag |-> NoFragment]
    /\ worker' = [w \in Workers |-> Idle]
    /\ checks' = {}
    /\ gui' = Idle
    /\ net' = {}

\* The process ends, wherever its threads are, and is started again.
CrashAndBoot ==
    /\ crashes < MaxCrashes
    /\ crashes' = crashes + 1
    /\ Boot(rows)
    /\ UNCHANGED <<disk, rows, adds, losses>>

Init ==
    /\ data = [p \in Paths |-> None]
    /\ ctrl = [p \in Paths |-> None]
    /\ suspect = {}
    /\ rows = {}
    /\ m_UnusedFileSeq = 1
    /\ opened = {}
    /\ path = [s \in {} |-> NoFile]
    /\ cur = [s \in Seqs |-> 0]
    /\ m_FileMap = {}
    /\ m_SeqMap = [c \in Contents |-> NoFile]
    /\ m_DownloadList = <<>>
    /\ m_WaitList = <<>>
    /\ m_CurDownload = 0
    /\ downloader = [pc |-> "pick", seq |-> NoFile, frag |-> NoFragment]
    /\ worker = [w \in Workers |-> Idle]
    /\ checks = {}
    /\ gui = Idle
    /\ net = {}
    /\ adds = 0
    /\ crashes = 0
    /\ losses = 0

Next ==
    \/ \E p \in Paths : TryAddDownloadFile(p)
    \/ InitCtrlFile
    \/ InsertFileInfo
    \/ \E s \in Seqs, kill \in BOOLEAN : DeleteFile(s, kill)
    \/ \E p \in Paths : RemoveFile(p)
    \/ DownloadTask
    \/ GetTask
    \/ CheckDownloadFile
    \/ \E found \in BOOLEAN : Request(found)
    \/ \E s \in Seqs : Sha1Check(s)
    \/ \E w \in Workers, m \in net : Receive(w, m)
    \/ \E w \in Workers : Write(w)
    \/ \E w \in Workers : WriteBinary(w)
    \/ \E c \in Contents : PartnerGoes(c)
    \/ CrashAndBoot

Spec == Init /\ [][Next]_vars

\* Threads run on, KCP delivers in the end what was sent over a session that
\* stays, and again and again there is a partner.  Nothing is asked of the user.
Fairness ==
    /\ WF_vars(InitCtrlFile) /\ WF_vars(InsertFileInfo)
    /\ WF_vars(DownloadTask) /\ WF_vars(GetTask)
    /\ WF_vars(CheckDownloadFile) /\ SF_vars(Request(TRUE))
    /\ WF_vars(\E found \in BOOLEAN : Request(found))
    /\ \A s \in Seqs : WF_vars(Sha1Check(s))
    /\ \A m \in Contents \X Fragments : SF_vars(\E w \in Workers : Receive(w, m))
    /\ \A w \in Workers : WF_vars(Write(w)) /\ WF_vars(WriteBinary(w))

FairSpec == Spec /\ Fairness

-----------------------------------------------------------------------------
TypeOK ==
    /\ data \in [Paths -> {None} \cup SUBSET Fragments]
    /\ ctrl \in [Paths -> {None} \cup SUBSET Bits]
    /\ suspect \subseteq Paths
    /\ rows \subseteq [seq : Seqs, path : Paths, type : {"DOWNLOAD", "COMPLETE"}]
    /\ m_UnusedFileSeq \in Seqs \cup {1}
    /\ opened \subseteq Paths
    /\ DOMAIN path \subseteq Seqs /\ Range(path) \subseteq Paths
    /\ cur \in [Seqs -> 0 .. FragmentNum]
    /\ m_FileMap \subseteq Seqs
    /\ m_SeqMap \in [Contents -> Seqs \cup {NoFile}]
    /\ InLists \cup checks \subseteq Seqs
    /\ m_CurDownload \in Nat
    /\ downloader \in [pc : {"pick", "task", "check", "request"}, seq : Seqs \cup {NoFile},
                        frag : Fragments \cup {NoFragment}]
    /\ \A w \in Workers : worker[w] \in {Idle} \cup
          [pc : {"write", "mark"}, seq : Seqs, frag : Fragments \cup {NoFragment}]
    /\ gui \in {Idle} \cup [pc : {"create", "fill", "insert"}, path : Paths, seq : Seqs]
    /\ net \subseteq Contents \X (Fragments \cup {NoFragment})
    /\ {adds, crashes, losses} \subseteq Nat

\* A fragment that the control file has for done is in the file, whenever the
\* process ends (complete_fragment writes the bytes before the bit), unless the
\* control file is suspect for one of the three reasons the code leaves open.
DoneMeansWritten ==
    \A p \in Paths \ suspect : Exists(data, p) /\ Exists(ctrl, p) =>
        \A i \in Fragments \ ctrl[p] : i \in data[p]

\* What the two maps and the two lists hold goes together: a content and its file
\* number lead to each other, a file in a list is in the maps, and none is listed
\* twice (add_download_file, kill_download_file, check_download_file).
ListsAgree ==
    /\ \A c \in Contents : m_SeqMap[c] # NoFile =>
          m_SeqMap[c] \in m_FileMap /\ ContentOf[path[m_SeqMap[c]]] = c
    /\ \A s \in m_FileMap : m_SeqMap[ContentOf[path[s]]] = s
    /\ InLists \subseteq m_FileMap
    /\ IsInjective(m_DownloadList \o m_WaitList)

\* download_task never indexes past the end of m_DownloadList, whatever was
\* removed from it since the index was computed.
CurDownloadInRange == m_DownloadList # <<>> => m_CurDownload < Len(m_DownloadList)

\* A file is shown as complete only if all of it is there, also one whose control
\* file promised too much (thread_sha1_check), and the user keeps it.
CompleteMeansWhole ==
    \A r \in rows : r.type = "COMPLETE" => Whole(r.path)

\* A file in the download list becomes complete in the end, over partners that
\* come and go and processes that end, unless the user deletes it, its control
\* file is suspect, or a new process leaves it waiting or does not load it.
Downloading(s) == Contains(m_DownloadList, s) /\ RowOf(s) # {} /\ path[s] \notin suspect
Settled(s) ==
    \/ RowOf(s) = {}
    \/ \E r \in RowOf(s) : r.type = "COMPLETE"
    \/ Contains(m_WaitList, s)
    \/ s \notin m_FileMap
    \/ path[s] \in suspect
DownloadsComplete == \A s \in Seqs : Downloading(s) ~> Settled(s)
=============================================================================
