----------------------------- MODULE Retriever -----------------------------
(***************************************************************************)
(* The hybrid retriever's corpus: one copy in the memory of each worker    *)
(* process, one on disk, and the sentinel by which a worker that uploads  *)
(* makes the others reload (rag/retriever.py, _faiss_reload_loop of        *)
(* api/main.py).                                                           *)
(*                                                                         *)
(* A copy in memory has four parts that are indexed by position: the FAISS *)
(* index, the documents, their texts and the BM25 statistics.  They are    *)
(* replaced or extended one after the other under a lock of the process;   *)
(* search() takes no lock, and the lock says nothing to other processes.   *)
(* On disk there are two files, written one after the other.               *)
(*                                                                         *)
(* A corpus is the sequence of the documents uploaded: the documents that  *)
(* ship with the program come before them in every copy.  Uploads enter by *)
(* add_documents, the retriever's own interface.                           *)
(***************************************************************************)
EXTENDS Naturals, Sequences

CONSTANTS
  Workers,      \* the server's worker processes
  Searching,    \* bounds the workers whose searches are followed
  MaxUploads,   \* bounds the documents uploaded
  MaxCrashes,   \* bounds the crashes
  Unreadable    \* a file that is absent or not written completely

\* The documents, numbered in the order of their uploads.
Docs == 1..MaxUploads
NoDoc == 0

ASSUME MaxUploadsAssumption == MaxUploads \in Nat
ASSUME UnreadableAssumption == Unreadable \notin Seq(Docs)
ASSUME SearchingAssumption == Searching \subseteq Workers /\ Searching # {}
ASSUME MaxCrashesAssumption == MaxCrashes \in Nat

VARIABLES
  mem,        \* the four parts in each worker's memory
  mixed,      \* history: the index and the documents last loaded disagreed
  file,       \* the index file and the documents file
  sentinel,   \* the time in the sentinel file, 0 when there is none
  last,       \* last_ts of each worker's poller
  add,        \* add_documents in each worker, its document and its next step
  load,       \* __init__ or reload() in each worker, and what it has read
  search,     \* a search, what it has read, and what changed meanwhile
  uploads,    \* how many documents were uploaded
  crashes,    \* how many workers crashed
  spoiled     \* history: a write of the files failed, was cut, or met another

vars == <<mem, mixed, file, sentinel, last, add, load, search, uploads, crashes,
          spoiled>>

Files == {"index", "docs"}
Parts == Files \cup {"texts", "bm25"}

\* The order in which parts are extended and replaced.
After == [index |-> "docs", docs |-> "texts", texts |-> "bm25"]

Persisting == {"openIndex", "writeIndex", "openDocs", "writeDocs", "stamp"}

\* Between two reads of a search.
Searches == {"sized", "found", "hashed", "sourced"}

Corpus == Seq(Docs)

NoAdd == [at |-> "idle", doc |-> NoDoc]
NoLoad == [at |-> "idle", boot |-> FALSE, index |-> <<>>, docs |-> <<>>, ts |-> 0]
NoSearch(w) == [at |-> "idle", w |-> w, n |-> 0, pos |-> 0, found |-> NoDoc, source |-> NoDoc,
                grew |-> FALSE, swapped |-> FALSE]

TypeOK ==
  /\ mem \in [Workers -> [Parts -> Corpus]]
  /\ mixed \in [Workers -> BOOLEAN]
  /\ file \in [Files -> Corpus \cup {Unreadable}]
  /\ sentinel \in Nat
  /\ last \in [Workers -> Nat]
  /\ add \in [Workers -> [at : {"idle"} \cup Parts \cup Persisting, doc : Docs \cup {NoDoc}]]
  /\ \A w \in Workers : add[w].at = "idle" <=> add[w].doc = NoDoc
  /\ load \in [Workers -> [at : {"idle", "down", "readIndex", "readDocs"} \cup Parts,
                           boot : BOOLEAN, index : Corpus, docs : Corpus, ts : Nat]]
  /\ search \in [at : {"idle", "mispaired", "raised"} \cup Searches,
                 w : Workers, n : Nat, pos : Nat, found : Docs \cup {NoDoc},
                 source : Docs \cup {NoDoc}, grew : BOOLEAN, swapped : BOOLEAN]
  /\ uploads \in 0..MaxUploads
  /\ crashes \in 0..MaxCrashes
  /\ spoiled \in BOOLEAN

Init ==
  /\ mem = [w \in Workers |-> [p \in Parts |-> <<>>]]
  /\ mixed = [w \in Workers |-> FALSE]
  /\ file = [f \in Files |-> Unreadable]
  /\ sentinel = 0
  /\ last = [w \in Workers |-> 0]
  /\ add = [w \in Workers |-> NoAdd]
  /\ load = [w \in Workers |-> NoLoad]
  /\ \E w \in Searching : search = NoSearch(w)
  /\ uploads = 0
  /\ crashes = 0
  /\ spoiled = FALSE

\* The process runs and its retriever is built.
Up(w) == load[w].at # "down" /\ ~load[w].boot

\* add_documents holds it from its first step, reload() from the second part on.
LockFree(w) == add[w].at = "idle" /\ load[w].at \notin Parts \ {"index"}

-----------------------------------------------------------------------------
(* add_documents, under the lock until its last step                       *)

AddBegins(w) ==
  /\ Up(w) /\ LockFree(w) /\ uploads < MaxUploads
  /\ uploads' = uploads + 1
  /\ add' = [add EXCEPT ![w] = [at |-> "index", doc |-> uploads']]
  /\ UNCHANGED <<mem, mixed, file, sentinel, last, load, search, crashes, spoiled>>

AddGoesTo(w, at) == add' = [add EXCEPT ![w].at = at]

\* What a search under way on this worker may notice.
SearchSees(w, seen) ==
  search' = IF search.w = w /\ search.at \in Searches THEN seen ELSE search

Extended(w, p) == IF p = "bm25" THEN mem[w]["texts"] ELSE Append(mem[w][p], add[w].doc)

\* Mutant: the documents and texts are extended before the index.
AddExtends_IndexLast(w) ==
  \E p \in Parts :
    /\ add[w].at = p
    /\ LET q == [index |-> "docs", docs |-> "texts", texts |-> "bm25", bm25 |-> "index"][p]
       IN  mem' = [mem EXCEPT ![w][q] = Extended(w, q)]
    /\ AddGoesTo(w, IF p = "bm25" THEN "openIndex" ELSE After[p])
    /\ SearchSees(w, [search EXCEPT !.grew = TRUE])
    /\ UNCHANGED <<mixed, file, sentinel, last, load, uploads, crashes, spoiled>>

AddExtends(w) ==
  \E p \in Parts :
    /\ add[w].at = p
    /\ mem' = [mem EXCEPT ![w][p] = Extended(w, p)]
    /\ AddGoesTo(w, IF p = "bm25" THEN "openIndex" ELSE After[p])
    /\ SearchSees(w, [search EXCEPT !.grew = TRUE])
    /\ UNCHANGED <<mixed, file, sentinel, last, load, uploads, crashes, spoiled>>

AddOpens(w) ==
  \E f \in Files :
    /\ add[w].at = (IF f = "index" THEN "openIndex" ELSE "openDocs")
    /\ file' = [file EXCEPT ![f] = Unreadable]
    /\ AddGoesTo(w, IF f = "index" THEN "writeIndex" ELSE "writeDocs")
    /\ spoiled' = (spoiled \/ \E v \in Workers \ {w} : add[v].at \in Persisting)
    /\ UNCHANGED <<mem, mixed, sentinel, last, load, search, uploads, crashes>>

AddWrites(w) ==
  \E f \in Files :
    /\ add[w].at = (IF f = "index" THEN "writeIndex" ELSE "writeDocs")
    /\ file' = [file EXCEPT ![f] = mem[w][f]]
    /\ AddGoesTo(w, IF f = "index" THEN "openDocs" ELSE "stamp")
    /\ UNCHANGED <<mem, mixed, sentinel, last, load, search, uploads, crashes, spoiled>>

\* The sentinel gets the time, later than the one it has; the lock is released.
AddStamps(w) ==
  /\ add[w].at = "stamp"
  /\ sentinel' = sentinel + 1
  /\ add' = [add EXCEPT ![w] = NoAdd]
  /\ UNCHANGED <<mem, mixed, file, last, load, search, uploads, crashes, spoiled>>

\* Mutant: the document stays with the handler that failed.
PersistFails_KeepsDoc(w) ==
  /\ add[w].at \in Persisting
  /\ AddGoesTo(w, "idle")
  /\ spoiled' = TRUE
  /\ UNCHANGED <<mem, mixed, file, sentinel, last, load, search, uploads, crashes>>

\* Any step of the persistence may raise: a warning is logged, what was written
\* stays, and the lock is released.
PersistFails(w) ==
  /\ add[w].at \in Persisting
  /\ add' = [add EXCEPT ![w] = NoAdd]
  /\ spoiled' = TRUE
  /\ UNCHANGED <<mem, mixed, file, sentinel, last, load, search, uploads, crashes>>

-----------------------------------------------------------------------------
(* _faiss_reload_loop, reload(), __init__                                  *)

Poll(w) ==
  /\ load[w].at = "idle" /\ sentinel > last[w]
  /\ load' = [load EXCEPT ![w].at = "readIndex", ![w].ts = sentinel]
  /\ UNCHANGED <<mem, mixed, file, sentinel, last, add, search, uploads, crashes, spoiled>>

\* Mutant: last_ts is read from the sentinel after the reload.
LoadEnds_Newest(w) ==
  /\ load' = [load EXCEPT ![w] = NoLoad]
  /\ last' = [last EXCEPT ![w] = IF load[w].boot THEN @ ELSE sentinel]

\* last_ts advances whether or not the reload replaced anything.
LoadEnds(w) ==
  /\ load' = [load EXCEPT ![w] = NoLoad]
  /\ last' = [last EXCEPT ![w] = IF load[w].boot THEN @ ELSE load[w].ts]

\* A file that is absent or cannot be parsed: the reload is given up, and a new
\* process starts from the documents that ship with the program.
LoadFails(w) ==
  /\ \/ load[w].at = "readIndex" /\ file["index"] = Unreadable
     \/ load[w].at = "readDocs" /\ file["docs"] = Unreadable
  /\ LoadEnds(w)
  /\ UNCHANGED <<mem, mixed, file, sentinel, add, search, uploads, crashes, spoiled>>

ReadIndex(w) ==
  /\ load[w].at = "readIndex" /\ file["index"] # Unreadable
  /\ load' = [load EXCEPT ![w].at = "readDocs", ![w].index = file["index"]]
  /\ UNCHANGED <<mem, mixed, file, sentinel, last, add, search, uploads, crashes, spoiled>>

\* Only the dimension of the index is compared, which documents do not change.
ReadDocs(w) ==
  /\ load[w].at = "readDocs" /\ file["docs"] # Unreadable
  /\ load' = [load EXCEPT ![w].at = "index", ![w].docs = file["docs"]]
  /\ UNCHANGED <<mem, mixed, file, sentinel, last, add, search, uploads, crashes, spoiled>>

\* Mutant: the parts are swapped without the lock.
SwapMay_Unlocked(w) == TRUE

\* The first part is swapped when the lock is acquired.
SwapMay(w) == load[w].at = "index" => LockFree(w)

Swaps(w) ==
  \E p \in Parts :
    /\ load[w].at = p /\ SwapMay(w)
    /\ mem' = [mem EXCEPT ![w][p] = IF p = "index" THEN load[w].index ELSE load[w].docs]
    /\ mixed' = [mixed EXCEPT ![w] = load[w].index # load[w].docs]
    /\ SearchSees(w, [search EXCEPT !.swapped = TRUE])
    /\ IF p = "bm25" THEN LoadEnds(w)
       ELSE load' = [load EXCEPT ![w].at = After[p]] /\ UNCHANGED last
    /\ UNCHANGED <<file, sentinel, add, uploads, crashes, spoiled>>

Crash(w) ==
  /\ load[w].at # "down" /\ crashes < MaxCrashes
  /\ crashes' = crashes + 1
  /\ mem' = [mem EXCEPT ![w] = [p \in Parts |-> <<>>]]
  /\ mixed' = [mixed EXCEPT ![w] = FALSE]
  /\ last' = [last EXCEPT ![w] = 0]
  /\ add' = [add EXCEPT ![w] = NoAdd]
  /\ load' = [load EXCEPT ![w] = [NoLoad EXCEPT !.at = "down"]]
  /\ search' = IF search.w = w THEN NoSearch(w) ELSE search
  /\ spoiled' = (spoiled \/ add[w].at \in Persisting)
  /\ UNCHANGED <<file, sentinel, uploads>>

\* A new process builds its retriever before it serves.
Boot(w) ==
  /\ load[w].at = "down"
  /\ load' = [load EXCEPT ![w] = [NoLoad EXCEPT !.at = "readIndex", !.boot = TRUE]]
  /\ UNCHANGED <<mem, mixed, file, sentinel, last, add, search, uploads, crashes, spoiled>>

-----------------------------------------------------------------------------
(* search, which takes no lock: one candidate of one search                *)

SearchBegins(w) ==
  /\ search.at \in {"idle", "mispaired", "raised"} /\ Up(w)
  /\ search' = [NoSearch(w) EXCEPT !.at = "sized", !.n = Len(mem[w]["docs"]),
                  !.grew = add[w].at \in Parts,
                  !.swapped = mixed[w] \/ load[w].at \in Parts \ {"index"}]
  /\ UNCHANGED <<mem, mixed, file, sentinel, last, add, load, uploads, crashes, spoiled>>

SearchReads(from, next) ==
  /\ search.at = from
  /\ search' = next
  /\ UNCHANGED <<mem, mixed, file, sentinel, last, add, load, uploads, crashes, spoiled>>

SearchEnds(at) == [NoSearch(search.w) EXCEPT !.at = at, !.grew = search.grew,
                                             !.swapped = search.swapped]

Part(p) == mem[search.w][p]

\* The candidate is ranked by the index or by BM25.  Asked for more neighbours
\* than it has vectors, the index pads its answer with -1 (here 0), which Python
\* reads as the last text.
SearchFinds ==
  \/ \E p \in {"index", "bm25"} : \E i \in 1..Len(Part(p)) :
       SearchReads("sized", [search EXCEPT !.at = "found", !.n = 0, !.pos = i,
                                           !.found = Part(p)[i]])
  \/ /\ search.n > Len(Part("index"))
     /\ SearchReads("sized", [search EXCEPT !.at = "found", !.n = 0])

\* The text or document at the candidate's position; out of range it raises.
InRange(p) == search.pos <= Len(Part(p))

At(p) == IF search.pos \in 1..Len(Part(p)) THEN Part(p)[search.pos] ELSE NoDoc

SearchRaises(from, p) == ~InRange(p) /\ SearchReads(from, SearchEnds("raised"))

SearchHashes ==
  \/ SearchRaises("found", "texts")
  \/ InRange("texts") /\ SearchReads("found", [search EXCEPT !.at = "hashed"])

SearchTakesSource ==
  \/ SearchRaises("hashed", "docs")
  \/ /\ InRange("docs")
     /\ SearchReads("hashed", [search EXCEPT !.at = "sourced", !.source = At("docs")])

\* The answer pairs the text with the source, for the candidate that was found.
Mispaired ==
  search.pos = 0 \/ search.source # At("texts") \/ At("texts") # search.found

SearchTakesText ==
  \/ SearchRaises("sourced", "texts")
  \/ /\ InRange("texts")
     /\ SearchReads("sourced", IF Mispaired THEN SearchEnds("mispaired") ELSE NoSearch(search.w))

-----------------------------------------------------------------------------
Work(w) ==
  \/ AddExtends(w) \/ AddOpens(w) \/ AddWrites(w) \/ AddStamps(w)
  \/ Poll(w) \/ LoadFails(w) \/ ReadIndex(w) \/ ReadDocs(w) \/ Swaps(w) \/ Boot(w)

Search ==
  \/ \E w \in Searching : SearchBegins(w)
  \/ SearchFinds \/ SearchHashes \/ SearchTakesSource \/ SearchTakesText

Next ==
  \/ \E w \in Workers : AddBegins(w) \/ Work(w) \/ PersistFails(w) \/ Crash(w)
  \/ Search

Spec == Init /\ [][Next]_vars

\* The thread that adds goes on, the poller of every worker comes round, and a
\* worker that went down is started again.
Fairness == \A w \in Workers : WF_vars(Work(w))

FairSpec == Spec /\ Fairness

-----------------------------------------------------------------------------
(* Properties                                                              *)

\* Safety: whenever nobody holds a worker's lock, its documents, texts and BM25
\* statistics describe one corpus, and so does its index, unless the files it was
\* loaded from disagreed.  Adds and reloads exclude each other in every step.
CorpusAgrees ==
  \A w \in Workers :
    LockFree(w) => LET m == mem[w] IN
                   /\ m["docs"] = m["texts"] /\ m["texts"] = m["bm25"]
                   /\ m["index"] = m["docs"] \/ mixed[w]

\* Safety: a search without the lock may fail when documents are added or
\* replaced under it, but only a reload, or files that disagreed, can make it
\* answer with the text of one document and the source of another, or with a
\* document it did not find.  An add extends the index first and the rest after.
SearchFaultsHaveCause ==
  /\ search.at = "raised" => search.grew \/ search.swapped
  /\ search.at = "mispaired" => search.swapped

OnDisk(p) ==
  IF sentinel = 0 THEN <<>> ELSE file[IF p = "index" THEN "index" ELSE "docs"]

\* The files are open for writing, or one of them is not yet written.
Writing(w) == add[w].at \in Persisting \ {"openIndex"}

\* It adds nothing, loads nothing, and its poller has seen the newest sentinel.
Resting(w) == add[w].at = "idle" /\ load[w].at = "idle" /\ last[w] = sentinel

\* Safety: a worker that has nothing left to do holds what is on disk, whatever its
\* reloads and its own uploads met on the way, when nobody is writing the files and
\* no write failed, was cut or met another: last_ts never runs ahead of what was
\* read (proved; it is what WorkersConverge needs besides fairness).
RestIsCurrent ==
  ~spoiled /\ (\A v \in Workers : ~Writing(v)) =>
    \A w \in Workers : Resting(w) => \A p \in Parts : mem[w][p] = OnDisk(p)

\* Liveness: when uploads end, every worker comes to hold what is on disk, also
\* one that reloaded while the files were being written, or whose reload finished
\* after an upload of its own: unless a write failed, was cut or met another.
WorkersConverge ==
  <>[](spoiled \/ \A w \in Workers, p \in Parts : mem[w][p] = OnDisk(p))
=============================================================================
