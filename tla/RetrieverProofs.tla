--------------------------- MODULE RetrieverProofs ---------------------------
(***************************************************************************)
(* The retriever's corpus and its searches, for any number of workers,     *)
(* uploads and crashes.                                                    *)
(*                                                                         *)
(* CorpusAgrees speaks of a free lock only.  Copy says how far the four    *)
(* parts are apart at each step under the lock, and that a reload's swap   *)
(* and an add never meet.  Reading says what a search that no reload has   *)
(* overtaken still knows: its candidate's place in the index, of which the *)
(* other parts are prefixes.                                               *)
(***************************************************************************)
EXTENDS Retriever, TLAPS

Held(w) == load[w].at \in {"docs", "texts", "bm25"}

Copy(w) ==
  /\ Held(w) => /\ add[w].at = "idle"
                /\ mem[w]["index"] = load[w].index
                /\ mixed[w] = (load[w].index # load[w].docs)
  /\ load[w].at \in {"texts", "bm25"} => mem[w]["docs"] = load[w].docs
  /\ load[w].at = "bm25" => mem[w]["texts"] = load[w].docs
  /\ ~Held(w) =>
       /\ add[w].at # "bm25" => mem[w]["bm25"] = mem[w]["texts"]
       /\ add[w].at = "bm25" => mem[w]["texts"] = Append(mem[w]["bm25"], add[w].doc)
       /\ add[w].at # "texts" => mem[w]["texts"] = mem[w]["docs"]
       /\ add[w].at = "texts" => mem[w]["docs"] = Append(mem[w]["texts"], add[w].doc)
       /\ ~mixed[w] /\ add[w].at # "docs" => mem[w]["index"] = mem[w]["docs"]
       /\ ~mixed[w] /\ add[w].at = "docs" =>
            mem[w]["index"] = Append(mem[w]["docs"], add[w].doc)

Growing(w) == add[w].at \in {"docs", "texts", "bm25"}

Reading ==
  LET index == mem[search.w]["index"] IN
  /\ search.at \in Searches /\ ~search.swapped =>
       /\ ~Held(search.w) /\ ~mixed[search.w]
       /\ ~search.grew => ~Growing(search.w)
       /\ search.at = "sized" => search.n <= Len(index)
       /\ search.at # "sized" => search.pos \in 1..Len(index) /\ search.found = index[search.pos]
       /\ search.at = "sourced" => search.source = search.found
  /\ SearchFaultsHaveCause

IInv ==
  /\ TypeOK
  /\ \A w \in Workers : Copy(w)
  /\ Reading

-----------------------------------------------------------------------------

\* The initial state.
LEMMA InitInv == Init => IInv
<1> SUFFICES ASSUME Init PROVE IInv
  OBVIOUS
<1>1. TypeOK
  <2>1. <<>> \in Corpus
    BY DEF Corpus
  <2>2. PICK w \in Searching : search = NoSearch(w)
    BY DEF Init
  <2>3. search \in [at : {"idle", "mispaired", "raised"} \cup Searches,
                    w : Workers, n : Nat, pos : Nat, found : Docs \cup {NoDoc},
                    source : Docs \cup {NoDoc}, grew : BOOLEAN, swapped : BOOLEAN]
    BY <2>2, SearchingAssumption DEF NoSearch
  <2>4. NoAdd \in [at : {"idle"} \cup Parts \cup Persisting, doc : Docs \cup {NoDoc}]
    BY DEF NoAdd
  <2>5. NoLoad \in [at : {"idle", "down", "readIndex", "readDocs"} \cup Parts,
                    boot : BOOLEAN, index : Corpus, docs : Corpus, ts : Nat]
    BY <2>1 DEF NoLoad
  <2>6. NoAdd.at = "idle" /\ NoAdd.doc = NoDoc
    BY DEF NoAdd
  <2>7. uploads \in 0..MaxUploads /\ crashes \in 0..MaxCrashes
    BY MaxUploadsAssumption, MaxCrashesAssumption DEF Init
  <2>8. QED
    BY <2>1, <2>3, <2>4, <2>5, <2>6, <2>7 DEF Init, TypeOK
<1>2. \A w \in Workers : Copy(w)
  BY DEF Init, Copy, Held, NoAdd, NoLoad, Parts, Files
<1>3. Reading
  BY DEF Init, Reading, NoSearch, Searches, SearchFaultsHaveCause
<1>4. QED
  BY <1>1, <1>2, <1>3 DEF IInv

\* A worker's copy, when nothing it speaks of changes.
LEMMA CopyKept ==
  ASSUME NEW w \in Workers, Copy(w), mem'[w] = mem[w], mixed'[w] = mixed[w],
         add'[w].at = add[w].at, add'[w].doc = add[w].doc, load'[w] = load[w]
  PROVE  Copy(w)'
BY DEF Copy, Held

\* A search, when nothing it speaks of changes.
LEMMA ReadingKept ==
  ASSUME Reading, search' = search, mem'[search.w] = mem[search.w],
         mixed'[search.w] = mixed[search.w], Growing(search.w)' => Growing(search.w),
         Held(search.w)' => Held(search.w)
  PROVE  Reading'
BY DEF Reading, SearchFaultsHaveCause

\* The records of a worker that neither adds nor loads.
LEMMA NothingTyped ==
  /\ NoAdd \in [at : {"idle"} \cup Parts \cup Persisting, doc : Docs \cup {NoDoc}]
  /\ NoLoad \in [at : {"idle", "down", "readIndex", "readDocs"} \cup Parts,
                 boot : BOOLEAN, index : Corpus, docs : Corpus, ts : Nat]
  /\ NoAdd.at = "idle" /\ NoAdd.doc = NoDoc /\ NoLoad.at = "idle"
<1>1. <<>> \in Corpus
  BY DEF Corpus
<1>2. QED
  BY <1>1 DEF NoAdd, NoLoad

\* What Append adds to a corpus.
LEMMA Appended ==
  ASSUME NEW s \in Corpus, NEW d \in Docs
  PROVE  /\ Append(s, d) \in Corpus /\ Len(Append(s, d)) = Len(s) + 1 /\ Len(s) \in Nat
         /\ \A i \in 1..Len(s) : Append(s, d)[i] = s[i]
BY DEF Corpus

\* A worker that adds has a document.
LEMMA AddingHasDoc ==
  ASSUME IInv, NEW w \in Workers, add[w].at # "idle"
  PROVE  add[w].doc \in Docs
BY DEF IInv, TypeOK

\* Unless a reload or files that disagreed are the reason, every part is a prefix
\* of the index.
LEMMA Prefixes ==
  ASSUME IInv, NEW w \in Workers, ~Held(w), ~mixed[w], NEW p \in Parts
  PROVE  /\ mem[w][p] \in Corpus /\ mem[w]["index"] \in Corpus
         /\ Len(mem[w][p]) <= Len(mem[w]["index"])
         /\ \A i \in 1..Len(mem[w][p]) : mem[w][p][i] = mem[w]["index"][i]
<1>1. Copy(w) /\ \A q \in Parts : mem[w][q] \in Corpus
  BY DEF IInv, TypeOK
<1>2. \A q \in Parts : Len(mem[w][q]) \in Nat
  BY <1>1 DEF Corpus
<1>3. CASE ~Growing(w)
  BY <1>1, <1>2, <1>3 DEF Copy, Growing, Parts, Files
<1>4. CASE Growing(w)
  <2>1. add[w].doc \in Docs
    BY <1>4, AddingHasDoc DEF Growing
  <2>2. \A q \in Parts : /\ Len(Append(mem[w][q], add[w].doc)) = Len(mem[w][q]) + 1
                         /\ \A i \in 1..Len(mem[w][q]) :
                              Append(mem[w][q], add[w].doc)[i] = mem[w][q][i]
    BY <1>1, <2>1, Appended
  <2>3. /\ add[w].at = "docs" => /\ mem[w]["index"] = Append(mem[w]["docs"], add[w].doc)
                                /\ mem[w]["texts"] = mem[w]["docs"]
                                /\ mem[w]["bm25"] = mem[w]["texts"]
        /\ add[w].at = "texts" => /\ mem[w]["docs"] = Append(mem[w]["texts"], add[w].doc)
                                 /\ mem[w]["index"] = mem[w]["docs"]
                                 /\ mem[w]["bm25"] = mem[w]["texts"]
        /\ add[w].at = "bm25" => /\ mem[w]["texts"] = Append(mem[w]["bm25"], add[w].doc)
                                /\ mem[w]["index"] = mem[w]["docs"]
                                /\ mem[w]["texts"] = mem[w]["docs"]
    BY <1>1 DEF Copy
  <2>4. p \in {"index", "docs", "texts", "bm25"} /\ Parts = {"index", "docs", "texts", "bm25"}
    BY DEF Parts, Files
  <2> DEFINE Shorter(q, r) == /\ Len(mem[w][q]) <= Len(mem[w][r])
                              /\ \A i \in 1..Len(mem[w][q]) : mem[w][q][i] = mem[w][r][i]
  <2>5. \A q, r \in Parts :
          mem[w][r] = mem[w][q] \/ mem[w][r] = Append(mem[w][q], add[w].doc) => Shorter(q, r)
    <3> SUFFICES ASSUME NEW q \in Parts, NEW r \in Parts,
                        mem[w][r] = mem[w][q] \/ mem[w][r] = Append(mem[w][q], add[w].doc)
                 PROVE  Shorter(q, r)
      OBVIOUS
    <3>1. CASE mem[w][r] = mem[w][q]
      BY <1>2, <3>1
    <3>2. CASE mem[w][r] = Append(mem[w][q], add[w].doc)
      BY <1>2, <2>2, <3>2
    <3>3. QED
      BY <3>1, <3>2
  <2>6. /\ mem[w]["index"] = mem[w][p] \/ mem[w]["index"] = Append(mem[w][p], add[w].doc)
        /\ "index" \in Parts
    BY <1>4, <2>3, <2>4 DEF Growing
  <2>7. Shorter(p, "index")
    BY <2>5, <2>6
  <2>8. QED
    BY <1>1, <2>6, <2>7
<1>5. QED
  BY <1>3, <1>4

-----------------------------------------------------------------------------
(* The steps                                                               *)

\* A step of add_documents that leaves the memory alone.
LEMMA AddRecordStep ==
  ASSUME IInv, NEW w \in Workers, TypeOK',
         \A v \in Workers : v # w => add'[v] = add[v],
         UNCHANGED <<mem, mixed, load, search>>,
         ~Growing(w), ~Growing(w)', Held(w) => add'[w].at = "idle"
  PROVE  IInv'
<1>1. ASSUME NEW v \in Workers PROVE Copy(v)'
  <2>1. CASE v # w
    BY <2>1, CopyKept DEF IInv
  <2>2. CASE v = w
    BY <2>2 DEF IInv, Copy, Held, Growing
  <2>3. QED
    BY <2>1, <2>2
<1>2. search.w \in Workers
  BY DEF IInv, TypeOK
<1>3. Reading'
  BY <1>2, ReadingKept DEF IInv, Growing, Held
<1>4. QED
  BY <1>1, <1>3 DEF IInv

\* An upload begins, with the lock.
LEMMA BeginsStep == ASSUME IInv, NEW w \in Workers, AddBegins(w) PROVE IInv'
<1>1. /\ add' = [add EXCEPT ![w] = [at |-> "index", doc |-> uploads']]
      /\ uploads' = uploads + 1 /\ uploads < MaxUploads /\ LockFree(w)
      /\ UNCHANGED <<mem, mixed, file, sentinel, last, load, search, crashes, spoiled>>
  BY DEF AddBegins
<1>2. uploads' \in Docs /\ uploads' \in 0..MaxUploads
  BY <1>1, MaxUploadsAssumption DEF Docs, IInv, TypeOK
<1>3. uploads' # NoDoc
  BY <1>2, MaxUploadsAssumption DEF Docs, NoDoc
<1>4. /\ add'[w].at = "index" /\ add'[w].doc = uploads'
      /\ \A v \in Workers : v # w => add'[v] = add[v]
  BY <1>1 DEF IInv, TypeOK
<1>5. TypeOK'
  BY <1>1, <1>2, <1>3, <1>4 DEF IInv, TypeOK, Parts, Files
<1>6. ~Growing(w) /\ ~Growing(w)' /\ ~Held(w)
  BY <1>1, <1>4 DEF LockFree, Growing, Held, Parts, Files, IInv, TypeOK
<1>7. QED
  BY <1>1, <1>4, <1>5, <1>6, AddRecordStep

\* A file is opened or written: the writer stays among its persisting steps.
LEMMA FileStep ==
  ASSUME IInv, NEW w \in Workers, AddOpens(w) \/ AddWrites(w)
  PROVE  IInv'
<1>1. PICK at \in Persisting : AddGoesTo(w, at)
  BY DEF AddOpens, AddWrites, Persisting
<1>2. /\ add[w].at \in Persisting
      /\ UNCHANGED <<mem, mixed, sentinel, last, load, search, uploads, crashes>>
  BY DEF AddOpens, AddWrites, Persisting
<1>3. /\ add'[w].at = at /\ add'[w].doc = add[w].doc
      /\ \A v \in Workers : v # w => add'[v] = add[v]
      /\ add' \in [Workers -> [at : {"idle"} \cup Parts \cup Persisting,
                               doc : Docs \cup {NoDoc}]]
  BY <1>1 DEF AddGoesTo, IInv, TypeOK
<1>4. \A v \in Workers : add'[v].at = "idle" <=> add'[v].doc = NoDoc
  BY <1>2, <1>3 DEF IInv, TypeOK, Persisting
<1>5. file' \in [Files -> Corpus \cup {Unreadable}]
  BY DEF AddOpens, AddWrites, IInv, TypeOK, Parts
<1>6. spoiled' \in BOOLEAN
  BY DEF AddOpens, AddWrites, IInv, TypeOK
<1>7. TypeOK'
  BY <1>2, <1>3, <1>4, <1>5, <1>6 DEF IInv, TypeOK
<1>8. ~Growing(w) /\ ~Growing(w)' /\ ~Held(w)
  BY <1>2, <1>3 DEF Growing, Persisting, IInv, Copy
<1>9. QED
  BY <1>2, <1>3, <1>7, <1>8, AddRecordStep

\* The upload is over, with or without its files.
LEMMA AddEndsStep ==
  ASSUME IInv, NEW w \in Workers, AddStamps(w) \/ PersistFails(w)
  PROVE  IInv'
<1>1. /\ add[w].at \in Persisting /\ add' = [add EXCEPT ![w] = NoAdd]
      /\ sentinel' \in Nat /\ spoiled' \in BOOLEAN
      /\ UNCHANGED <<mem, mixed, file, last, load, search, uploads, crashes>>
  <2>1. CASE AddStamps(w)
    BY <2>1 DEF AddStamps, Persisting, IInv, TypeOK
  <2>2. CASE PersistFails(w)
    BY <2>2 DEF PersistFails, IInv, TypeOK
  <2>3. QED
    BY <2>1, <2>2
<1>2. TypeOK'
  BY <1>1, NothingTyped DEF IInv, TypeOK
<1>3. add'[w].at = "idle" /\ \A v \in Workers : v # w => add'[v] = add[v]
  BY <1>1, NothingTyped DEF IInv, TypeOK
<1>4. ~Growing(w) /\ ~Growing(w)'
  BY <1>1, <1>3 DEF Growing, Persisting
<1>5. QED
  BY <1>1, <1>2, <1>3, <1>4, AddRecordStep

\* A search that is told of a change: it no longer answers for what it read.
LEMMA SearchTold ==
  ASSUME IInv, NEW w \in Workers,
         SearchSees(w, [search EXCEPT !.grew = TRUE])
           \/ SearchSees(w, [search EXCEPT !.swapped = TRUE])
  PROVE  /\ search' \in [at : {"idle", "mispaired", "raised"} \cup Searches,
                         w : Workers, n : Nat, pos : Nat, found : Docs \cup {NoDoc},
                         source : Docs \cup {NoDoc}, grew : BOOLEAN, swapped : BOOLEAN]
         /\ search'.w = search.w /\ search'.at = search.at
         /\ ~(search.w = w /\ search.at \in Searches) => search' = search
BY DEF SearchSees, IInv, TypeOK

\* One part is extended.
LEMMA ExtendStep == ASSUME IInv, NEW w \in Workers, AddExtends(w) PROVE IInv'
<1> PICK p \in Parts :
      /\ add[w].at = p
      /\ mem' = [mem EXCEPT ![w][p] = Extended(w, p)]
      /\ AddGoesTo(w, IF p = "bm25" THEN "openIndex" ELSE After[p])
  BY DEF AddExtends
<1> DEFINE next == IF p = "bm25" THEN "openIndex" ELSE After[p]
<1>1. /\ SearchSees(w, [search EXCEPT !.grew = TRUE])
      /\ UNCHANGED <<mixed, file, sentinel, last, load, uploads, crashes, spoiled>>
  BY DEF AddExtends
<1>2. /\ add[w].doc \in Docs /\ ~Held(w) /\ Copy(w)
      /\ \A q \in Parts : mem[w][q] \in Corpus
  BY AddingHasDoc DEF IInv, TypeOK, Copy, Parts, Files
<1>3. next \in {"docs", "texts", "bm25", "openIndex"}
  BY DEF After, Parts, Files
<1>4. /\ p = "index" => next = "docs"
      /\ p = "docs" => next = "texts"
      /\ p = "texts" => next = "bm25"
      /\ p = "bm25" => next = "openIndex"
  BY DEF After
<1> HIDE DEF next
<1>5. Extended(w, p) \in Corpus
  BY <1>2, Appended DEF Extended, Parts, Files
<1>6. /\ mem'[w][p] = Extended(w, p) /\ \A q \in Parts : q # p => mem'[w][q] = mem[w][q]
      /\ \A v \in Workers : v # w => mem'[v] = mem[v]
      /\ mem' \in [Workers -> [Parts -> Corpus]]
  BY <1>5 DEF IInv, TypeOK
<1>7. /\ add'[w].at = next /\ add'[w].doc = add[w].doc
      /\ \A v \in Workers : v # w => add'[v] = add[v]
      /\ add' \in [Workers -> [at : {"idle"} \cup Parts \cup Persisting,
                               doc : Docs \cup {NoDoc}]]
  BY <1>3 DEF AddGoesTo, next, IInv, TypeOK, Parts, Files, Persisting
<1>8. \A v \in Workers : add'[v].at = "idle" <=> add'[v].doc = NoDoc
  BY <1>3, <1>7 DEF IInv, TypeOK, Parts, Files
<1>9. TypeOK'
  BY <1>1, <1>6, <1>7, <1>8, SearchTold DEF IInv, TypeOK
<1>10. ASSUME NEW v \in Workers PROVE Copy(v)'
  <2>1. CASE v # w
    BY <1>1, <1>6, <1>7, <2>1, CopyKept DEF IInv
  <2>2. CASE v = w
    <3>1. ~Held(w)'
      BY <1>1, <1>2 DEF Held
    <3>2. CASE p = "index"
      BY <1>1, <1>2, <1>4, <1>6, <1>7, <2>2, <3>1, <3>2 DEF Copy, Extended, Held, Parts, Files
    <3>3. CASE p = "docs"
      BY <1>1, <1>2, <1>4, <1>6, <1>7, <2>2, <3>1, <3>3 DEF Copy, Extended, Held, Parts, Files
    <3>4. CASE p = "texts"
      BY <1>1, <1>2, <1>4, <1>6, <1>7, <2>2, <3>1, <3>4 DEF Copy, Extended, Held, Parts, Files
    <3>5. CASE p = "bm25"
      BY <1>1, <1>2, <1>4, <1>6, <1>7, <2>2, <3>1, <3>5 DEF Copy, Extended, Held, Parts, Files
    <3>6. QED
      BY <3>2, <3>3, <3>4, <3>5 DEF Parts, Files
  <2>3. QED
    BY <2>1, <2>2
<1>11. Reading'
  <2>1. CASE search.w # w
    <3>1. search' = search /\ search.w \in Workers
      BY <1>1, <2>1 DEF SearchSees, IInv, TypeOK
    <3>2. QED
      BY <1>1, <1>6, <1>7, <2>1, <3>1, ReadingKept DEF IInv, Growing, Held
  <2>2. CASE search.at \notin Searches
    <3>1. search' = search
      BY <1>1, <2>2 DEF SearchSees
    <3>2. QED
      BY <2>2, <3>1 DEF IInv, Reading, SearchFaultsHaveCause
  <2>3. CASE search.w = w /\ search.at \in Searches
    <3>1. /\ search' = [search EXCEPT !.grew = TRUE] /\ search'.grew = TRUE
          /\ search'.at = search.at /\ search'.w = w /\ search'.swapped = search.swapped
          /\ search'.n = search.n /\ search'.pos = search.pos
          /\ search'.found = search.found /\ search'.source = search.source
      BY <1>1, <2>3 DEF SearchSees, IInv, TypeOK
    <3>2. /\ Len(mem[w]["index"]) \in Nat /\ Len(mem'[w]["index"]) \in Nat
          /\ Len(mem[w]["index"]) <= Len(mem'[w]["index"])
          /\ \A i \in 1..Len(mem[w]["index"]) : mem'[w]["index"][i] = mem[w]["index"][i]
      <4>1. CASE p = "index"
        BY <1>2, <1>6, <4>1, Appended DEF Extended, Parts, Files, Corpus
      <4>2. CASE p # "index"
        BY <1>2, <1>6, <4>2 DEF Parts, Files, Corpus
      <4>3. QED
        BY <4>1, <4>2
    <3>3. search.n \in Nat /\ search.pos \in Nat
      BY DEF IInv, TypeOK
    <3>4. ~search.swapped =>
            /\ ~Held(w)' /\ ~mixed'[w]
            /\ search.at = "sized" => search.n <= Len(mem'[w]["index"])
            /\ search.at # "sized" => /\ search.pos \in 1..Len(mem'[w]["index"])
                                      /\ search.found = mem'[w]["index"][search.pos]
            /\ search.at = "sourced" => search.source = search.found
      BY <1>1, <1>2, <2>3, <3>2, <3>3 DEF IInv, Reading, Held
    <3>5. SearchFaultsHaveCause'
      BY <2>3, <3>1 DEF SearchFaultsHaveCause, Searches
    <3>6. QED
      BY <3>1, <3>4, <3>5 DEF Reading
  <2>4. QED
    BY <2>1, <2>2, <2>3
<1>12. QED
  BY <1>9, <1>10, <1>11 DEF IInv

\* A step of __init__ or reload() that holds no lock.
LEMMA LoadRecordStep ==
  ASSUME IInv, NEW w \in Workers, NEW r, TypeOK', load' = [load EXCEPT ![w] = r],
         r.at \notin {"docs", "texts", "bm25"}, ~Held(w),
         UNCHANGED <<mem, mixed, add, search>>
  PROVE  IInv'
<1>1. /\ load'[w] = r /\ ~Held(w)' /\ \A v \in Workers : v # w => load'[v] = load[v]
  BY DEF Held, IInv, TypeOK
<1>2. ASSUME NEW v \in Workers PROVE Copy(v)'
  <2>1. CASE v # w
    BY <1>1, <2>1, CopyKept DEF IInv
  <2>2. CASE v = w
    BY <1>1, <2>2 DEF IInv, Copy, Held
  <2>3. QED
    BY <2>1, <2>2
<1>3. Held(search.w)' => Held(search.w)
  BY <1>1 DEF Held, IInv, TypeOK
<1>4. Reading'
  BY <1>3, ReadingKept DEF IInv, Growing
<1>5. QED
  BY <1>2, <1>4 DEF IInv

\* The types, when a loader's record and last_ts are all that changes.
LEMMA LoadTyped ==
  ASSUME IInv, NEW w \in Workers,
         NEW r \in [at : {"idle", "down", "readIndex", "readDocs"} \cup Parts,
                   boot : BOOLEAN, index : Corpus, docs : Corpus, ts : Nat],
         load' = [load EXCEPT ![w] = r], last' \in [Workers -> Nat],
         UNCHANGED <<mem, mixed, file, sentinel, add, search, uploads, crashes, spoiled>>
  PROVE  TypeOK'
BY DEF IInv, TypeOK

\* The loader's steps up to the lock, and its end without a swap.
LEMMA LoadStep ==
  ASSUME IInv, NEW w \in Workers,
         Poll(w) \/ ReadIndex(w) \/ ReadDocs(w) \/ LoadFails(w) \/ Boot(w)
  PROVE  IInv'
<1>1. load[w] \in [at : {"idle", "down", "readIndex", "readDocs"} \cup Parts,
                   boot : BOOLEAN, index : Corpus, docs : Corpus, ts : Nat]
  BY DEF IInv, TypeOK
<1>2. CASE Poll(w)
  <2> DEFINE r == [load[w] EXCEPT !.at = "readIndex", !.ts = sentinel]
  <2>1. load' = [load EXCEPT ![w] = r] /\ ~Held(w)
    BY <1>2 DEF Poll, Held, IInv, TypeOK
  <2>2. TypeOK'
    BY <1>2 DEF Poll, IInv, TypeOK
  <2>3. QED
    BY <1>1, <1>2, <2>1, <2>2, LoadRecordStep DEF Poll
<1>3. CASE ReadIndex(w)
  <2> DEFINE r == [load[w] EXCEPT !.at = "readDocs", !.index = file["index"]]
  <2>1. load' = [load EXCEPT ![w] = r] /\ ~Held(w) /\ file["index"] \in Corpus
    BY <1>3 DEF ReadIndex, Held, IInv, TypeOK, Files
  <2>2. /\ r.at \notin {"docs", "texts", "bm25"}
        /\ r \in [at : {"idle", "down", "readIndex", "readDocs"} \cup Parts,
                 boot : BOOLEAN, index : Corpus, docs : Corpus, ts : Nat]
    BY <1>1, <2>1 DEF Parts, Files
  <2> HIDE DEF r
  <2>3. /\ last' \in [Workers -> Nat]
        /\ UNCHANGED <<mem, mixed, file, sentinel, add, search, uploads, crashes, spoiled>>
    BY <1>3 DEF ReadIndex, IInv, TypeOK
  <2>4. TypeOK'
    BY <2>1, <2>2, <2>3, LoadTyped
  <2>5. QED
    BY <1>3, <2>1, <2>2, <2>4, LoadRecordStep DEF ReadIndex
<1>4. CASE ReadDocs(w)
  <2> DEFINE r == [load[w] EXCEPT !.at = "index", !.docs = file["docs"]]
  <2>1. load' = [load EXCEPT ![w] = r] /\ ~Held(w) /\ file["docs"] \in Corpus
    BY <1>4 DEF ReadDocs, Held, IInv, TypeOK, Files
  <2>2. /\ r.at \notin {"docs", "texts", "bm25"}
        /\ r \in [at : {"idle", "down", "readIndex", "readDocs"} \cup Parts,
                 boot : BOOLEAN, index : Corpus, docs : Corpus, ts : Nat]
    BY <1>1, <2>1 DEF Parts, Files
  <2> HIDE DEF r
  <2>3. /\ last' \in [Workers -> Nat]
        /\ UNCHANGED <<mem, mixed, file, sentinel, add, search, uploads, crashes, spoiled>>
    BY <1>4 DEF ReadDocs, IInv, TypeOK
  <2>4. TypeOK'
    BY <2>1, <2>2, <2>3, LoadTyped
  <2>5. QED
    BY <1>4, <2>1, <2>2, <2>4, LoadRecordStep DEF ReadDocs
<1>5. CASE LoadFails(w)
  <2>1. load' = [load EXCEPT ![w] = NoLoad] /\ ~Held(w) /\ last' \in [Workers -> Nat]
    BY <1>1, <1>5 DEF LoadFails, LoadEnds, Held, IInv, TypeOK
  <2>2. TypeOK'
    BY <1>5, <2>1, NothingTyped, LoadTyped DEF LoadFails
  <2>3. QED
    BY <1>5, <2>1, <2>2, NothingTyped, LoadRecordStep DEF LoadFails
<1>6. CASE Boot(w)
  <2> DEFINE r == [NoLoad EXCEPT !.at = "readIndex", !.boot = TRUE]
  <2>1. load' = [load EXCEPT ![w] = r] /\ ~Held(w)
    BY <1>6 DEF Boot, Held
  <2>2. r.at = "readIndex" /\ r \in [at : {"idle", "down", "readIndex", "readDocs"} \cup Parts,
                                    boot : BOOLEAN, index : Corpus, docs : Corpus, ts : Nat]
    BY NothingTyped
  <2> HIDE DEF r
  <2>4. TypeOK'
    BY <1>6, <2>1, <2>2, LoadTyped DEF Boot, IInv, TypeOK
  <2>3. QED
    BY <1>6, <2>1, <2>2, <2>4, LoadRecordStep DEF Boot
<1>7. QED
  BY <1>2, <1>3, <1>4, <1>5, <1>6

\* One part is swapped.
LEMMA SwapStep == ASSUME IInv, NEW w \in Workers, Swaps(w) PROVE IInv'
<1> PICK p \in Parts :
      /\ load[w].at = p /\ SwapMay(w)
      /\ mem' = [mem EXCEPT ![w][p] = IF p = "index" THEN load[w].index ELSE load[w].docs]
      /\ IF p = "bm25" THEN LoadEnds(w)
         ELSE load' = [load EXCEPT ![w].at = After[p]] /\ UNCHANGED last
  BY DEF Swaps
<1> DEFINE r == IF p = "bm25" THEN NoLoad ELSE [load[w] EXCEPT !.at = After[p]]
<1>1. /\ SearchSees(w, [search EXCEPT !.swapped = TRUE])
      /\ mixed' = [mixed EXCEPT ![w] = load[w].index # load[w].docs]
      /\ UNCHANGED <<file, sentinel, add, uploads, crashes, spoiled>>
  BY DEF Swaps
<1>2. /\ load[w] \in [at : {"idle", "down", "readIndex", "readDocs"} \cup Parts,
                      boot : BOOLEAN, index : Corpus, docs : Corpus, ts : Nat]
      /\ \A q \in Parts : mem[w][q] \in Corpus
      /\ Copy(w)
  BY DEF IInv, TypeOK
<1>3. add[w].at = "idle"
  BY <1>2 DEF SwapMay, LockFree, Copy, Held, Parts, Files
<1>4. /\ p = "index" => After[p] = "docs"
      /\ p = "docs" => After[p] = "texts"
      /\ p = "texts" => After[p] = "bm25"
  BY DEF After
<1>5. p \in {"index", "docs", "texts", "bm25"}
  BY DEF Parts, Files
<1>6. /\ p # "bm25" => r.at = After[p] /\ r.index = load[w].index /\ r.docs = load[w].docs
      /\ p = "bm25" => r.at = "idle"
      /\ r \in [at : {"idle", "down", "readIndex", "readDocs"} \cup Parts,
                boot : BOOLEAN, index : Corpus, docs : Corpus, ts : Nat]
  BY <1>2, <1>4, <1>5, NothingTyped DEF Parts, Files
<1>7. load' = [load EXCEPT ![w] = r] /\ last' \in [Workers -> Nat]
  BY <1>2 DEF LoadEnds, IInv, TypeOK
<1> HIDE DEF r
<1>8. /\ load'[w] = r /\ \A v \in Workers : v # w => load'[v] = load[v]
      /\ load' \in [Workers -> [at : {"idle", "down", "readIndex", "readDocs"} \cup Parts,
                                boot : BOOLEAN, index : Corpus, docs : Corpus, ts : Nat]]
  BY <1>6, <1>7 DEF IInv, TypeOK
<1>9. /\ mem'[w][p] = (IF p = "index" THEN load[w].index ELSE load[w].docs)
      /\ \A q \in Parts : q # p => mem'[w][q] = mem[w][q]
      /\ \A v \in Workers : v # w => mem'[v] = mem[v]
      /\ mem' \in [Workers -> [Parts -> Corpus]]
  BY <1>2 DEF IInv, TypeOK
<1>10. /\ mixed'[w] = (load[w].index # load[w].docs)
       /\ \A v \in Workers : v # w => mixed'[v] = mixed[v]
       /\ mixed' \in [Workers -> BOOLEAN]
  BY <1>1 DEF IInv, TypeOK
<1>11. TypeOK'
  BY <1>1, <1>7, <1>8, <1>9, <1>10, SearchTold DEF IInv, TypeOK
<1>12. ASSUME NEW v \in Workers PROVE Copy(v)'
  <2>1. CASE v # w
    BY <1>1, <1>8, <1>9, <1>10, <2>1, CopyKept DEF IInv
  <2>2. CASE v = w
    <3>1. CASE p = "index"
      BY <1>1, <1>3, <1>4, <1>6, <1>8, <1>9, <1>10, <2>2, <3>1 DEF Copy, Held, Parts, Files
    <3>2. CASE p = "docs"
      BY <1>1, <1>2, <1>3, <1>4, <1>6, <1>8, <1>9, <1>10, <2>2, <3>2
      DEF Copy, Held, Parts, Files
    <3>3. CASE p = "texts"
      BY <1>1, <1>2, <1>3, <1>4, <1>6, <1>8, <1>9, <1>10, <2>2, <3>3
      DEF Copy, Held, Parts, Files
    <3>4. CASE p = "bm25"
      <4>1. /\ ~Held(w)' /\ add'[w].at = "idle"
            /\ mixed'[w] = (load[w].index # load[w].docs)
        BY <1>1, <1>3, <1>6, <1>8, <1>10, <3>4 DEF Held
      <4>2. /\ mem[w]["index"] = load[w].index /\ mem[w]["docs"] = load[w].docs
            /\ mem[w]["texts"] = load[w].docs
        BY <1>2, <3>4 DEF Copy, Held
      <4>3. /\ mem'[w]["index"] = load[w].index /\ mem'[w]["docs"] = load[w].docs
            /\ mem'[w]["texts"] = load[w].docs /\ mem'[w]["bm25"] = load[w].docs
        BY <1>9, <3>4, <4>2 DEF Parts, Files
      <4>4. load'[w].at = "idle"
        BY <1>6, <1>8, <3>4
      <4>5. QED
        BY <2>2, <4>1, <4>3, <4>4 DEF Copy
    <3>5. QED
      BY <1>5, <3>1, <3>2, <3>3, <3>4
  <2>3. QED
    BY <2>1, <2>2
<1>13. Reading'
  <2>1. CASE search.w # w
    <3>1. search' = search /\ search.w \in Workers
      BY <1>1, <2>1 DEF SearchSees, IInv, TypeOK
    <3>2. QED
      BY <1>1, <1>8, <1>9, <1>10, <2>1, <3>1, ReadingKept DEF IInv, Growing, Held
  <2>2. CASE search.at \notin Searches
    <3>1. search' = search
      BY <1>1, <2>2 DEF SearchSees
    <3>2. QED
      BY <2>2, <3>1 DEF IInv, Reading, SearchFaultsHaveCause
  <2>3. CASE search.w = w /\ search.at \in Searches
    <3>1. search'.swapped = TRUE /\ search'.at = search.at
      BY <1>1, <2>3 DEF SearchSees, IInv, TypeOK
    <3>2. QED
      BY <3>1 DEF Reading, SearchFaultsHaveCause
  <2>4. QED
    BY <2>1, <2>2, <2>3
<1>14. QED
  BY <1>11, <1>12, <1>13 DEF IInv

\* A worker goes down, and its memory and searches with it.
LEMMA CrashStep == ASSUME IInv, NEW w \in Workers, Crash(w) PROVE IInv'
<1> DEFINE r == [NoLoad EXCEPT !.at = "down"]
           none == [p \in Parts |-> <<>>]
<1>1. /\ crashes < MaxCrashes /\ crashes' = crashes + 1
      /\ mem' = [mem EXCEPT ![w] = none] /\ mixed' = [mixed EXCEPT ![w] = FALSE]
      /\ last' = [last EXCEPT ![w] = 0] /\ add' = [add EXCEPT ![w] = NoAdd]
      /\ load' = [load EXCEPT ![w] = r]
      /\ search' = IF search.w = w THEN NoSearch(w) ELSE search
      /\ UNCHANGED <<file, sentinel, uploads>>
  BY DEF Crash
<1>2. r.at = "down" /\ r \in [at : {"idle", "down", "readIndex", "readDocs"} \cup Parts,
                              boot : BOOLEAN, index : Corpus, docs : Corpus, ts : Nat]
  BY NothingTyped
<1>3. none \in [Parts -> Corpus] /\ \A p \in Parts : none[p] = <<>>
  BY DEF Corpus
<1> HIDE DEF r, none
<1>4. /\ mem'[w] = none /\ mixed'[w] = FALSE /\ add'[w] = NoAdd /\ load'[w] = r
      /\ \A v \in Workers : v # w => /\ mem'[v] = mem[v] /\ mixed'[v] = mixed[v]
                                     /\ add'[v] = add[v] /\ load'[v] = load[v]
  BY <1>1 DEF IInv, TypeOK
<1>5. /\ mem' \in [Workers -> [Parts -> Corpus]] /\ mixed' \in [Workers -> BOOLEAN]
      /\ last' \in [Workers -> Nat]
      /\ add' \in [Workers -> [at : {"idle"} \cup Parts \cup Persisting,
                               doc : Docs \cup {NoDoc}]]
      /\ load' \in [Workers -> [at : {"idle", "down", "readIndex", "readDocs"} \cup Parts,
                                boot : BOOLEAN, index : Corpus, docs : Corpus, ts : Nat]]
  BY <1>1, <1>2, <1>3, NothingTyped DEF IInv, TypeOK
<1>6. /\ search' \in [at : {"idle", "mispaired", "raised"} \cup Searches,
                      w : Workers, n : Nat, pos : Nat, found : Docs \cup {NoDoc},
                      source : Docs \cup {NoDoc}, grew : BOOLEAN, swapped : BOOLEAN]
      /\ search.w = w => search'.at = "idle"
  BY <1>1 DEF NoSearch, IInv, TypeOK
<1>7. crashes' \in 0..MaxCrashes
  BY <1>1, MaxCrashesAssumption DEF IInv, TypeOK
<1>8. spoiled' \in BOOLEAN
  BY DEF Crash, IInv, TypeOK
<1>9. ASSUME NEW v \in Workers PROVE add'[v].at = "idle" <=> add'[v].doc = NoDoc
  <2>1. CASE v = w
    BY <1>4, <2>1, NothingTyped
  <2>2. CASE v # w
    BY <1>4, <2>2 DEF IInv, TypeOK
  <2>3. QED
    BY <2>1, <2>2
<1>10. TypeOK'
  BY <1>1, <1>5, <1>6, <1>7, <1>8, <1>9 DEF IInv, TypeOK
<1>11. ASSUME NEW v \in Workers PROVE Copy(v)'
  <2>1. CASE v # w
    BY <1>4, <2>1, CopyKept DEF IInv
  <2>2. CASE v = w
    BY <1>2, <1>3, <1>4, <2>2, NothingTyped DEF Copy, Held, Parts, Files
  <2>3. QED
    BY <2>1, <2>2
<1>12. Reading'
  <2>1. CASE search.w = w
    BY <1>6, <2>1 DEF Reading, Searches, SearchFaultsHaveCause
  <2>2. CASE search.w # w
    <3>1. search' = search /\ search.w \in Workers
      BY <1>1, <2>2 DEF IInv, TypeOK
    <3>2. QED
      BY <1>4, <2>2, <3>1, ReadingKept DEF IInv, Growing, Held
  <2>3. QED
    BY <2>1, <2>2
<1>13. QED
  BY <1>10, <1>11, <1>12 DEF IInv

\* A step of a search changes nothing but the search.
LEMMA SearchRecordStep ==
  ASSUME IInv, Reading',
         search' \in [at : {"idle", "mispaired", "raised"} \cup Searches,
                     w : Workers, n : Nat, pos : Nat, found : Docs \cup {NoDoc},
                     source : Docs \cup {NoDoc}, grew : BOOLEAN, swapped : BOOLEAN],
         UNCHANGED <<mem, mixed, file, sentinel, last, add, load, uploads, crashes, spoiled>>
  PROVE  IInv'
<1>1. TypeOK'
  BY DEF IInv, TypeOK
<1>2. \A v \in Workers : Copy(v)'
  BY CopyKept DEF IInv
<1>3. QED
  BY <1>1, <1>2 DEF IInv

\* A search begins, and notes what is under way on its worker.
LEMMA SearchBeginsStep == ASSUME IInv, NEW w \in Workers, SearchBegins(w) PROVE IInv'
<1> DEFINE grew == add[w].at \in Parts
           swapped == mixed[w] \/ load[w].at \in Parts \ {"index"}
<1>1. /\ search' = [NoSearch(w) EXCEPT !.at = "sized", !.n = Len(mem[w]["docs"]),
                       !.grew = grew, !.swapped = swapped]
      /\ UNCHANGED <<mem, mixed, file, sentinel, last, add, load, uploads, crashes, spoiled>>
  BY DEF SearchBegins
<1>2. /\ Len(mem[w]["docs"]) \in Nat /\ grew \in BOOLEAN /\ swapped \in BOOLEAN
      /\ ~swapped => ~mixed[w] /\ ~Held(w)
      /\ ~grew => ~Growing(w)
  <2>1. Len(mem[w]["docs"]) \in Nat
    BY DEF IInv, TypeOK, Parts, Files, Corpus
  <2>2. grew \in BOOLEAN /\ swapped \in BOOLEAN
    BY SMT
  <2>3. (~swapped => ~mixed[w] /\ ~Held(w)) /\ (~grew => ~Growing(w))
    BY DEF Held, Growing, Parts, Files
  <2>4. QED
    BY <2>1, <2>2, <2>3
<1> HIDE DEF grew, swapped
<1>3. /\ search' \in [at : {"idle", "mispaired", "raised"} \cup Searches,
                      w : Workers, n : Nat, pos : Nat, found : Docs \cup {NoDoc},
                      source : Docs \cup {NoDoc}, grew : BOOLEAN, swapped : BOOLEAN]
      /\ search'.at = "sized" /\ search'.w = w /\ search'.n = Len(mem[w]["docs"])
      /\ ~search'.swapped => ~mixed[w] /\ ~Held(w)
      /\ ~search'.grew => ~Growing(w)
  BY <1>1, <1>2 DEF NoSearch, Searches
<1>4. ~search'.swapped => search'.n <= Len(mem[w]["index"])
  BY <1>3, Prefixes DEF Parts, Files
<1>5. Reading'
  BY <1>1, <1>3, <1>4 DEF Reading, SearchFaultsHaveCause, Held, Growing
<1>6. QED
  BY <1>1, <1>3, <1>5, SearchRecordStep

\* The candidate is found; a padded answer needs an index shorter than the documents.
LEMMA SearchFindsStep == ASSUME IInv, SearchFinds PROVE IInv'
<1>1. /\ search \in [at : {"idle", "mispaired", "raised"} \cup Searches,
                     w : Workers, n : Nat, pos : Nat, found : Docs \cup {NoDoc},
                     source : Docs \cup {NoDoc}, grew : BOOLEAN, swapped : BOOLEAN]
      /\ \A p \in Parts : mem[search.w][p] \in Corpus
      /\ Reading
  BY DEF IInv, TypeOK
<1>2. /\ search.at = "sized"
      /\ UNCHANGED <<mem, mixed, file, sentinel, last, add, load, uploads, crashes, spoiled>>
  BY DEF SearchFinds, SearchReads
<1>3. CASE \E p \in {"index", "bm25"} : \E i \in 1..Len(Part(p)) :
             SearchReads("sized", [search EXCEPT !.at = "found", !.n = 0, !.pos = i,
                                                 !.found = Part(p)[i]])
  <2> PICK p \in {"index", "bm25"} : \E i \in 1..Len(Part(p)) :
             SearchReads("sized", [search EXCEPT !.at = "found", !.n = 0, !.pos = i,
                                                 !.found = Part(p)[i]])
    BY <1>3
  <2>1. PICK i \in 1..Len(mem[search.w][p]) :
          search' = [search EXCEPT !.at = "found", !.n = 0, !.pos = i,
                                   !.found = mem[search.w][p][i]]
    BY DEF SearchReads, Part
  <2>2. mem[search.w][p][i] \in Docs /\ i \in Nat
    BY <1>1 DEF Corpus, Parts, Files
  <2>3. /\ search' \in [at : {"idle", "mispaired", "raised"} \cup Searches,
                        w : Workers, n : Nat, pos : Nat, found : Docs \cup {NoDoc},
                        source : Docs \cup {NoDoc}, grew : BOOLEAN, swapped : BOOLEAN]
        /\ search'.at = "found" /\ search'.w = search.w /\ search'.pos = i
        /\ search'.found = mem[search.w][p][i]
        /\ search'.swapped = search.swapped /\ search'.grew = search.grew
    BY <1>1, <2>1, <2>2 DEF Searches
  <2>4. ~search.swapped => /\ ~Held(search.w) /\ ~mixed[search.w]
                           /\ ~search.grew => ~Growing(search.w)
    BY <1>1, <1>2 DEF Reading, Searches
  <2>5. ~search.swapped => /\ i \in 1..Len(mem[search.w]["index"])
                           /\ mem[search.w][p][i] = mem[search.w]["index"][i]
    BY <1>1, <2>4, Prefixes DEF Parts, Files, Corpus
  <2>6. Reading'
    BY <1>2, <2>3, <2>4, <2>5 DEF Reading, SearchFaultsHaveCause, Held, Growing
  <2>7. QED
    BY <1>2, <2>3, <2>6, SearchRecordStep
<1>4. CASE /\ search.n > Len(Part("index"))
           /\ SearchReads("sized", [search EXCEPT !.at = "found", !.n = 0])
  <2>1. search.n > Len(mem[search.w]["index"]) /\ Len(mem[search.w]["index"]) \in Nat
    BY <1>1, <1>4 DEF Part, Corpus, Parts, Files
  <2>2. search.swapped
    BY <1>1, <1>2, <2>1 DEF Reading, Searches
  <2>3. /\ search' \in [at : {"idle", "mispaired", "raised"} \cup Searches,
                        w : Workers, n : Nat, pos : Nat, found : Docs \cup {NoDoc},
                        source : Docs \cup {NoDoc}, grew : BOOLEAN, swapped : BOOLEAN]
        /\ search'.at = "found" /\ search'.swapped = search.swapped
    BY <1>1, <1>4 DEF SearchReads, Searches
  <2>4. Reading'
    BY <2>2, <2>3 DEF Reading, SearchFaultsHaveCause
  <2>5. QED
    BY <1>2, <2>3, <2>4, SearchRecordStep
<1>5. QED
  BY <1>3, <1>4 DEF SearchFinds

\* What a search still knows after the candidate was found.
LEMMA Knows ==
  ASSUME IInv, search.at \in {"found", "hashed", "sourced"}, ~search.swapped
  PROVE  /\ ~Held(search.w) /\ ~mixed[search.w]
         /\ ~search.grew => \A p \in Parts : InRange(p)
         /\ search.pos \in 1..Len(mem[search.w]["index"])
         /\ search.found = mem[search.w]["index"][search.pos]
         /\ \A p \in Parts : InRange(p) => At(p) = search.found
<1>1. /\ ~Held(search.w) /\ ~mixed[search.w] /\ search.w \in Workers
      /\ ~search.grew => ~Growing(search.w)
      /\ search.pos \in 1..Len(mem[search.w]["index"])
      /\ search.found = mem[search.w]["index"][search.pos]
  BY DEF IInv, TypeOK, Reading, Searches
<1>2. ASSUME ~search.grew, NEW p \in Parts PROVE InRange(p)
  <2>1. mem[search.w][p] = mem[search.w]["index"]
    BY <1>1, <1>2 DEF IInv, Copy, Growing, Parts, Files
  <2>2. QED
    BY <1>1, <2>1 DEF InRange, Part
<1>3. ASSUME NEW p \in Parts, InRange(p) PROVE At(p) = search.found
  <2>1. Len(mem[search.w][p]) \in Nat
    BY <1>1 DEF IInv, TypeOK, Corpus
  <2>2. search.pos \in 1..Len(mem[search.w][p])
    BY <1>1, <1>3, <2>1 DEF InRange, Part
  <2>3. mem[search.w][p][search.pos] = mem[search.w]["index"][search.pos]
    BY <1>1, <2>2, Prefixes
  <2>4. QED
    BY <1>1, <2>2, <2>3 DEF At, Part
<1>4. QED
  BY <1>1, <1>2, <1>3

\* A search that raises was overtaken by an add or a reload.
LEMMA RaisesStep ==
  ASSUME IInv, NEW from \in {"found", "hashed", "sourced"}, NEW p \in Parts,
         SearchRaises(from, p)
  PROVE  IInv'
<1>1. /\ search.at = from /\ ~InRange(p) /\ search' = SearchEnds("raised")
      /\ UNCHANGED <<mem, mixed, file, sentinel, last, add, load, uploads, crashes, spoiled>>
  BY DEF SearchRaises, SearchReads
<1>2. search.grew \/ search.swapped
  BY <1>1, Knows
<1>3. /\ search' \in [at : {"idle", "mispaired", "raised"} \cup Searches,
                      w : Workers, n : Nat, pos : Nat, found : Docs \cup {NoDoc},
                      source : Docs \cup {NoDoc}, grew : BOOLEAN, swapped : BOOLEAN]
      /\ search'.at = "raised" /\ search'.grew = search.grew
      /\ search'.swapped = search.swapped
  BY <1>1 DEF SearchEnds, NoSearch, IInv, TypeOK
<1>4. Reading'
  BY <1>2, <1>3 DEF Reading, SearchFaultsHaveCause, Searches
<1>5. QED
  BY <1>1, <1>3, <1>4, SearchRecordStep

\* A read that finds its place: the search goes on with what it knows.
LEMMA ReadsStep ==
  ASSUME IInv, NEW p \in {"docs", "texts"}, InRange(p),
         \/ SearchReads("found", [search EXCEPT !.at = "hashed"])
         \/ /\ p = "docs"
            /\ SearchReads("hashed", [search EXCEPT !.at = "sourced", !.source = At("docs")])
  PROVE  IInv'
<1>1. /\ search.at \in {"found", "hashed"}
      /\ UNCHANGED <<mem, mixed, file, sentinel, last, add, load, uploads, crashes, spoiled>>
  BY DEF SearchReads
<1>2. /\ search \in [at : {"idle", "mispaired", "raised"} \cup Searches,
                     w : Workers, n : Nat, pos : Nat, found : Docs \cup {NoDoc},
                     source : Docs \cup {NoDoc}, grew : BOOLEAN, swapped : BOOLEAN]
      /\ mem[search.w]["docs"] \in Corpus /\ Reading
  BY DEF IInv, TypeOK, Parts, Files
<1>3. At("docs") \in Docs \cup {NoDoc}
  BY <1>2 DEF At, Part, Corpus
<1>4. /\ search' \in [at : {"idle", "mispaired", "raised"} \cup Searches,
                      w : Workers, n : Nat, pos : Nat, found : Docs \cup {NoDoc},
                      source : Docs \cup {NoDoc}, grew : BOOLEAN, swapped : BOOLEAN]
      /\ search'.at \in {"hashed", "sourced"} /\ search'.w = search.w
      /\ search'.pos = search.pos /\ search'.found = search.found
      /\ search'.swapped = search.swapped /\ search'.grew = search.grew
      /\ search'.at = "sourced" => search'.source = At("docs") /\ p = "docs"
  BY <1>2, <1>3 DEF SearchReads, Searches
<1>5. ~search.swapped => /\ search.pos \in 1..Len(mem[search.w]["index"])
                         /\ search.found = mem[search.w]["index"][search.pos]
                         /\ At(p) = search.found
                         /\ ~Held(search.w) /\ ~mixed[search.w]
  BY <1>1, Knows DEF Parts, Files
<1>6. ~search.swapped /\ ~search.grew => ~Growing(search.w)
  BY <1>1, <1>2 DEF Reading, Searches
<1>7. Reading'
  BY <1>1, <1>4, <1>5, <1>6 DEF Reading, SearchFaultsHaveCause, Held, Growing
<1>8. QED
  BY <1>1, <1>4, <1>7, SearchRecordStep

\* The answer: a text and a source of different documents were swapped between.
LEMMA AnswersStep ==
  ASSUME IInv, InRange("texts"),
         SearchReads("sourced", IF Mispaired THEN SearchEnds("mispaired")
                                ELSE NoSearch(search.w))
  PROVE  IInv'
<1>1. /\ search.at = "sourced"
      /\ search' = (IF Mispaired THEN SearchEnds("mispaired") ELSE NoSearch(search.w))
      /\ UNCHANGED <<mem, mixed, file, sentinel, last, add, load, uploads, crashes, spoiled>>
  BY DEF SearchReads
<1>2. search.source = search.found \/ search.swapped
  BY <1>1 DEF IInv, Reading, Searches
<1>3. Mispaired => search.swapped
  <2>1. SUFFICES ASSUME ~search.swapped PROVE ~Mispaired
    OBVIOUS
  <2>2. /\ At("texts") = search.found
        /\ search.pos \in 1..Len(mem[search.w]["index"])
    BY <1>1, <2>1, Knows DEF Parts, Files
  <2>3. QED
    BY <1>2, <2>1, <2>2 DEF Mispaired
<1>4. /\ search' \in [at : {"idle", "mispaired", "raised"} \cup Searches,
                      w : Workers, n : Nat, pos : Nat, found : Docs \cup {NoDoc},
                      source : Docs \cup {NoDoc}, grew : BOOLEAN, swapped : BOOLEAN]
      /\ search'.at \in {"idle", "mispaired"}
      /\ search'.at = "mispaired" => search'.swapped
  <2>1. CASE Mispaired
    BY <1>1, <1>3, <2>1 DEF SearchEnds, NoSearch, IInv, TypeOK
  <2>2. CASE ~Mispaired
    BY <1>1, <2>2 DEF NoSearch, IInv, TypeOK
  <2>3. QED
    BY <2>1, <2>2
<1>5. Reading'
  BY <1>4 DEF Reading, SearchFaultsHaveCause, Searches
<1>6. QED
  BY <1>1, <1>4, <1>5, SearchRecordStep

-----------------------------------------------------------------------------
(* The theorems                                                            *)

\* Every step keeps the invariant.
LEMMA NextInv == ASSUME IInv, [Next]_vars PROVE IInv'
<1>1. ASSUME NEW w \in Workers, AddBegins(w) \/ Work(w) \/ PersistFails(w) \/ Crash(w)
      PROVE  IInv'
  BY <1>1, BeginsStep, FileStep, AddEndsStep, ExtendStep, LoadStep, SwapStep, CrashStep
  DEF Work
<1>2. CASE Search
  <2>1. CASE \E w \in Searching : SearchBegins(w)
    BY <2>1, SearchBeginsStep, SearchingAssumption
  <2>2. CASE SearchFinds
    BY <2>2, SearchFindsStep
  <2>3. CASE SearchHashes
    BY <2>3, RaisesStep, ReadsStep DEF SearchHashes, Parts, Files
  <2>4. CASE SearchTakesSource
    BY <2>4, RaisesStep, ReadsStep DEF SearchTakesSource, Parts, Files
  <2>5. CASE SearchTakesText
    BY <2>5, RaisesStep, AnswersStep DEF SearchTakesText, Parts, Files
  <2>6. QED
    BY <1>2, <2>1, <2>2, <2>3, <2>4, <2>5 DEF Search
<1>3. CASE UNCHANGED vars
  <2>1. TypeOK'
    BY <1>3 DEF IInv, TypeOK, vars
  <2>2. \A w \in Workers : Copy(w)'
    BY <1>3, CopyKept DEF IInv, vars
  <2>3. Reading'
    BY <1>3, ReadingKept DEF IInv, vars, Growing, Held
  <2>4. QED
    BY <2>1, <2>2, <2>3 DEF IInv
<1>4. QED
  BY <1>1, <1>2, <1>3 DEF Next

\* The invariant holds throughout.
LEMMA Invariant == Spec => []IInv
BY InitInv, NextInv, PTL DEF Spec

\* Type correctness: TypeOK holds in every state, also after failed writes and
\* crashes.
THEOREM TypeCorrect == Spec => []TypeOK
<1>1. IInv => TypeOK
  BY DEF IInv
<1>2. QED
  BY <1>1, Invariant, PTL

\* Whenever a worker's lock is free its documents, texts and BM25 statistics
\* describe one corpus, and its index too unless the files it was loaded from
\* disagreed (add_documents, reload): CorpusAgrees.
THEOREM CorporaAgree == Spec => []CorpusAgrees
<1>1. ASSUME IInv, NEW w \in Workers, LockFree(w)
      PROVE  /\ mem[w]["docs"] = mem[w]["texts"] /\ mem[w]["texts"] = mem[w]["bm25"]
             /\ mem[w]["index"] = mem[w]["docs"] \/ mixed[w]
  BY <1>1 DEF IInv, Copy, LockFree, Held, Parts, Files
<1>2. IInv => CorpusAgrees
  BY <1>1 DEF CorpusAgrees
<1>3. QED
  BY <1>2, Invariant, PTL

\* A search without the lock fails only when its worker's corpus grew or was
\* replaced meanwhile, and pairs a text with a wrong source only when it was
\* replaced or loaded from files that disagreed: SearchFaultsHaveCause.
THEOREM SearchFaultsExplained == Spec => []SearchFaultsHaveCause
<1>1. IInv => SearchFaultsHaveCause
  BY DEF IInv, Reading
<1>2. QED
  BY <1>1, Invariant, PTL

-----------------------------------------------------------------------------
(* What the sentinel is worth                                              *)

\* Nobody is writing, and no write failed, was cut or met another.
Undisturbed == ~spoiled /\ \A v \in Workers : ~Writing(v)

Loading == {"readIndex", "readDocs"} \cup Parts

\* No clock is ahead of the sentinel; a new process knows of none, adds nothing
\* and, until its first swap, has nothing.
Clock(w) ==
  /\ last[w] <= sentinel /\ load[w].ts <= sentinel
  /\ load[w].at = "down" \/ load[w].boot =>
       load[w].ts = 0 /\ last[w] = 0 /\ add[w].at = "idle"
  /\ load[w].at = "idle" => ~load[w].boot
  /\ load[w].at \in Loading /\ ~load[w].boot => load[w].ts > 0
  /\ load[w].at = "down" \/ (load[w].boot /\ load[w].at \in {"readIndex", "readDocs", "index"}) =>
       \A p \in Parts : mem[w][p] = <<>>

\* What a writer has written so far.
Written(w) ==
  /\ add[w].at \in {"openDocs", "writeDocs", "stamp"} => file["index"] # Unreadable
  /\ add[w].at = "stamp" => file["docs"] # Unreadable

\* A load that started at the newest sentinel has read what is on disk, and so has
\* a worker that rests.
Settled(w) ==
  /\ load[w].ts = sentinel =>
       /\ load[w].at \in Loading \ {"readIndex"} => load[w].index = file["index"]
       /\ load[w].at \in Parts => load[w].docs = file["docs"]
  /\ Resting(w) => \A p \in Parts : mem[w][p] = OnDisk(p)

Writers ==
  \A w \in Workers : Written(w) /\ \A v \in Workers : Writing(v) /\ Writing(w) => v = w

Disk == \A f \in Files : file[f] = Unreadable <=> sentinel = 0

SInv ==
  /\ \A w \in Workers : Clock(w)
  /\ ~spoiled => Writers
  /\ Undisturbed => Disk /\ \A w \in Workers : Settled(w)

LEMMA InitSInv == Init => SInv
<1> SUFFICES ASSUME Init PROVE SInv
  OBVIOUS
<1>1. \A w \in Workers : /\ mem[w] = [p \in Parts |-> <<>>] /\ last[w] = 0 /\ sentinel = 0
                         /\ add[w].at = "idle" /\ load[w].at = "idle"
                         /\ load[w].ts = 0 /\ load[w].boot = FALSE
  BY DEF Init, NoAdd, NoLoad
<1>2. ASSUME NEW w \in Workers PROVE Clock(w)
  <2>1. last[w] <= sentinel /\ load[w].ts <= sentinel
    BY <1>1
  <2>2. load[w].at # "down" /\ load[w].at \notin Loading /\ ~load[w].boot
    BY <1>1 DEF Loading, Parts, Files
  <2>3. QED
    BY <2>1, <2>2, Zenon DEF Clock
<1>3. Writers
  BY <1>1 DEF Writers, Written, Writing, Persisting
<1>4. Disk
  BY DEF Init, Disk
<1>5. \A w \in Workers : Settled(w)
  BY <1>1 DEF Settled, Loading, Parts, Files, OnDisk
<1>6. QED
  BY <1>2, <1>3, <1>4, <1>5 DEF SInv

\* A worker of which nothing changes, while the files and the sentinel stay.
LEMMA WorkerKept ==
  ASSUME NEW w \in Workers, mem'[w] = mem[w], last'[w] = last[w], load'[w] = load[w],
         add'[w] = add[w], UNCHANGED <<file, sentinel>>
  PROVE  /\ Clock(w) => Clock(w)'
         /\ Settled(w) => Settled(w)'
         /\ Written(w) => Written(w)'
         /\ Writing(w)' <=> Writing(w)
BY DEF Clock, Settled, Written, Writing, Resting, OnDisk

\* A step of one worker that leaves the files and the sentinel, and does not take
\* it from its writing: what has to be shown is about that worker alone.
LEMMA OneMoves ==
  ASSUME SInv, NEW w \in Workers,
         \A v \in Workers : v # w => /\ mem'[v] = mem[v] /\ last'[v] = last[v]
                                     /\ load'[v] = load[v] /\ add'[v] = add[v],
         UNCHANGED <<file, sentinel>>, spoiled => spoiled',
         ~spoiled' => /\ Writing(w) <=> Writing(w)'
                      /\ Written(w)',
         Clock(w)', Undisturbed' /\ Undisturbed => Settled(w)'
  PROVE  SInv'
<1>1. \A v \in Workers : Clock(v)'
  BY WorkerKept DEF SInv
<1>2. ASSUME ~spoiled' PROVE Writers'
  <2>1. Writers /\ \A v \in Workers : Writing(v)' <=> Writing(v)
    BY <1>2, WorkerKept DEF SInv
  <2>2. \A v \in Workers : Written(v)'
    BY <1>2, <2>1, WorkerKept DEF Writers
  <2>3. QED
    BY <2>1, <2>2 DEF Writers
<1>3. ASSUME Undisturbed' PROVE Disk' /\ \A v \in Workers : Settled(v)'
  <2>1. Undisturbed
    BY <1>3, WorkerKept DEF Undisturbed
  <2>2. Disk' /\ Settled(w)'
    BY <1>3, <2>1 DEF SInv, Disk
  <2>3. QED
    BY <2>1, <2>2, WorkerKept DEF SInv
<1>4. QED
  BY <1>1, <1>2, <1>3 DEF SInv

\* An upload under the lock, up to its first write.
LEMMA UploadStep == ASSUME IInv, SInv, NEW w \in Workers, AddBegins(w) \/ AddExtends(w) PROVE SInv'
<1>1. /\ UNCHANGED <<file, sentinel, last, load, spoiled>>
      /\ load[w].at # "down" /\ ~load[w].boot
  <2>1. CASE AddBegins(w)
    BY <2>1 DEF AddBegins, Up
  <2>2. CASE AddExtends(w)
    BY <2>2 DEF AddExtends, SInv, Clock, Parts, Files
  <2>3. QED
    BY <2>1, <2>2
<1>2. /\ add[w].at \in {"idle"} \cup Parts /\ add'[w].at \in Parts \cup {"openIndex"}
      /\ \A v \in Workers : v # w => mem'[v] = mem[v] /\ add'[v] = add[v]
  <2>1. CASE AddBegins(w)
    BY <2>1 DEF AddBegins, LockFree, IInv, TypeOK, Parts, Files
  <2>2. CASE AddExtends(w)
    BY <2>2 DEF AddExtends, AddGoesTo, After, IInv, TypeOK, Parts, Files
  <2>3. QED
    BY <2>1, <2>2
<1>3. ~Writing(w) /\ ~Writing(w)' /\ Written(w)' /\ ~Resting(w)'
  BY <1>2 DEF Writing, Written, Resting, Persisting, Parts, Files
<1>4. Clock(w)'
  BY <1>1 DEF SInv, Clock
<1>5. Undisturbed => Settled(w)'
  BY <1>1, <1>3 DEF SInv, Settled
<1>6. QED
  BY <1>1, <1>2, <1>3, <1>4, <1>5, OneMoves

\* A file is opened or written.  Another writer would have been noticed.
LEMMA WritingStep == ASSUME IInv, SInv, NEW w \in Workers, AddOpens(w) \/ AddWrites(w) PROVE SInv'
<1>1. /\ UNCHANGED <<mem, sentinel, last, load>>
      /\ \A v \in Workers : v # w => add'[v] = add[v]
      /\ Writing(w)' /\ add[w].at # "idle" /\ add[w].at \in Persisting
      /\ spoiled => spoiled'
  <2>1. CASE AddOpens(w)
    BY <2>1 DEF AddOpens, AddGoesTo, Writing, Persisting, IInv, TypeOK
  <2>2. CASE AddWrites(w)
    BY <2>2 DEF AddWrites, AddGoesTo, Writing, Persisting, IInv, TypeOK
  <2>3. QED
    BY <2>1, <2>2
<1>2. load[w].at # "down" /\ ~load[w].boot
  BY <1>1, Zenon DEF SInv, Clock
<1>3. ASSUME NEW v \in Workers PROVE Clock(v)'
  <2>1. CASE v # w
    <3>1. Clock(v) /\ add'[v] = add[v]
      BY <1>1, <2>1 DEF SInv
    <3>2. QED
      BY <1>1, <3>1, Zenon DEF Clock
  <2>2. CASE v = w
    BY <1>1, <1>2, <2>2 DEF SInv, Clock
  <2>3. QED
    BY <2>1, <2>2
<1>4. ~Undisturbed'
  BY <1>1 DEF Undisturbed, Writing
<1>5. ASSUME ~spoiled' PROVE Written(w)' /\ \A v \in Workers : v # w => ~Writing(v)
  <2>1. Writers
    BY <1>1, <1>5 DEF SInv
  <2>2. CASE AddOpens(w)
    <3>1. \A v \in Workers : v # w => ~Writing(v)
      BY <1>5, <2>2 DEF AddOpens, Writing
    <3>2. Written(w)'
      <4>1. CASE add[w].at = "openIndex"
        BY <2>2, <4>1 DEF AddOpens, AddGoesTo, Written, Files, IInv, TypeOK
      <4>2. CASE add[w].at = "openDocs"
        BY <2>1, <2>2, <4>2 DEF AddOpens, AddGoesTo, Writers, Written, Files, IInv, TypeOK
      <4>3. QED
        BY <2>2, <4>1, <4>2 DEF AddOpens, Files
    <3>3. QED
      BY <3>1, <3>2
  <2>3. CASE AddWrites(w)
    <3>1. Writing(w)
      BY <2>3 DEF AddWrites, Writing, Persisting, Files
    <3>2. \A f \in Files : mem[w][f] # Unreadable
      BY UnreadableAssumption DEF IInv, TypeOK, Parts, Corpus
    <3>3. Written(w)'
      BY <2>1, <2>3, <3>2 DEF AddWrites, AddGoesTo, Writers, Written, Files, IInv, TypeOK
    <3>4. QED
      BY <2>1, <3>1, <3>3 DEF Writers
  <2>4. QED
    BY <2>2, <2>3
<1>6. ASSUME ~spoiled' PROVE Writers'
  <2>1. \A v \in Workers : v # w => ~Writing(v)'
    BY <1>1, <1>5, <1>6 DEF Writing
  <2>2. \A v \in Workers : ~Writing(v)' => Written(v)'
    BY DEF Writing, Written, Persisting
  <2>3. QED
    BY <1>5, <1>6, <2>1, <2>2 DEF Writers
<1>7. QED
  BY <1>3, <1>4, <1>6 DEF SInv

\* The sentinel moves on, and with it everything that was settled; or it does not,
\* and nothing is promised any more.
LEMMA WriterEnds == ASSUME IInv, SInv, NEW w \in Workers, AddStamps(w) \/ PersistFails(w) PROVE SInv'
<1>1. /\ UNCHANGED <<mem, file, last, load>> /\ add' = [add EXCEPT ![w] = NoAdd]
      /\ sentinel' \in Nat /\ sentinel <= sentinel'
      /\ ~spoiled' => add[w].at = "stamp" /\ sentinel' = sentinel + 1 /\ ~spoiled
  BY DEF AddStamps, PersistFails, IInv, TypeOK
<1>2. /\ add'[w].at = "idle" /\ \A v \in Workers : v # w => add'[v] = add[v]
      /\ \A v \in Workers : last[v] \in Nat /\ load[v].ts \in Nat
  BY <1>1, NothingTyped DEF IInv, TypeOK
<1>3. ASSUME NEW v \in Workers PROVE Clock(v)'
  <2>1. /\ last[v] <= sentinel' /\ load[v].ts <= sentinel'
        /\ last[v] <= sentinel /\ load[v].ts <= sentinel
    BY <1>1, <1>2 DEF SInv, Clock, IInv, TypeOK
  <2>2. add[v].at = "idle" => add'[v].at = "idle"
    BY <1>2
  <2>3. QED
    BY <1>1, <2>1, <2>2 DEF SInv, Clock
<1>4. ASSUME ~spoiled' PROVE Writers' /\ Disk' /\ \A v \in Workers : Settled(v)'
  <2>1. Writers /\ add[w].at = "stamp" /\ sentinel' = sentinel + 1
    BY <1>1, <1>4 DEF SInv
  <2>2. Writing(w) /\ ~Writing(w)' /\ Written(w)'
    BY <1>2, <2>1 DEF Writing, Written, Persisting
  <2>3. Writers'
    BY <1>1, <1>2, <2>1, <2>2 DEF Writers, Writing, Written
  <2>4. Disk'
    BY <1>1, <2>1 DEF Disk, Writers, Written, Files, IInv, TypeOK
  <2>5. ASSUME NEW v \in Workers PROVE Settled(v)'
    BY <1>1, <1>2, <2>1 DEF SInv, Clock, Settled, Resting, IInv, TypeOK
  <2>6. QED
    BY <2>3, <2>4, <2>5
<1>5. QED
  BY <1>3, <1>4 DEF SInv, Undisturbed

\* A load begins or reads a file; nothing it reads later is older than its clock.
LEMMA ReadingStep ==
  ASSUME IInv, SInv, NEW w \in Workers, Poll(w) \/ ReadIndex(w) \/ ReadDocs(w) \/ Boot(w)
  PROVE  SInv'
<1>1. /\ UNCHANGED <<mem, file, sentinel, last, add, spoiled>>
      /\ \A v \in Workers : v # w => load'[v] = load[v]
  BY DEF Poll, ReadIndex, ReadDocs, Boot, IInv, TypeOK
<1>2. /\ Clock(w) /\ sentinel \in Nat /\ last[w] \in Nat /\ load[w].ts \in Nat
      /\ load[w].boot \in BOOLEAN
  BY DEF SInv, IInv, TypeOK
<1>3. Clock(w)' /\ (Undisturbed => Settled(w)')
  <2>1. CASE Poll(w)
    <3>1. /\ load'[w].at = "readIndex" /\ load'[w].ts = sentinel /\ load'[w].boot = load[w].boot
          /\ load[w].at = "idle" /\ sentinel > last[w]
      BY <2>1 DEF Poll, IInv, TypeOK
    <3>2. ~load[w].boot
      BY <1>2, <3>1 DEF Clock
    <3>3. QED
      BY <1>1, <1>2, <3>1, <3>2 DEF Clock, Settled, Resting, Loading, Parts, Files
  <2>2. CASE ReadIndex(w)
    <3>1. /\ load[w].at = "readIndex" /\ load'[w].at = "readDocs" /\ load'[w].ts = load[w].ts
          /\ load'[w].boot = load[w].boot /\ load'[w].index = file["index"]
      BY <2>2 DEF ReadIndex, IInv, TypeOK
    <3>2. QED
      BY <1>1, <1>2, <3>1 DEF Clock, Settled, Resting, Loading, Parts, Files
  <2>3. CASE ReadDocs(w)
    <3>1. /\ load[w].at = "readDocs" /\ load'[w].at = "index" /\ load'[w].ts = load[w].ts
          /\ load'[w].boot = load[w].boot /\ load'[w].index = load[w].index
          /\ load'[w].docs = file["docs"]
      BY <2>3 DEF ReadDocs, IInv, TypeOK
    <3>2. QED
      BY <1>1, <1>2, <3>1 DEF SInv, Clock, Settled, Resting, Loading, Parts, Files
  <2>4. CASE Boot(w)
    <3>1. /\ load[w].at = "down" /\ load'[w].at = "readIndex" /\ load'[w].ts = 0
          /\ load'[w].boot = TRUE
      BY <2>4 DEF Boot, NoLoad, IInv, TypeOK
    <3>2. QED
      BY <1>1, <1>2, <3>1 DEF Clock, Settled, Resting, Loading, Parts, Files
  <2>5. QED
    BY <2>1, <2>2, <2>3, <2>4
<1>4. QED
  BY <1>1, <1>3, OneMoves DEF Writing, SInv, Writers, Written

\* A load ends, with or without having replaced the copy: what it leaves is current
\* if its clock still is.
LEMMA EndsSettled ==
  ASSUME IInv, SInv, NEW w \in Workers, load[w].at \in Loading, LoadEnds(w),
         UNCHANGED <<file, sentinel, add, spoiled>>,
         \A v \in Workers : v # w => mem'[v] = mem[v],
         Undisturbed /\ load[w].ts = sentinel => \A p \in Parts : mem'[w][p] = OnDisk(p)
  PROVE  SInv'
<1>1. /\ load' = [load EXCEPT ![w] = NoLoad]
      /\ last' = [last EXCEPT ![w] = IF load[w].boot THEN @ ELSE load[w].ts]
  BY DEF LoadEnds
<1>2. /\ load'[w].at = "idle" /\ load'[w].ts = 0 /\ load'[w].boot = FALSE
      /\ \A v \in Workers : v # w => load'[v] = load[v] /\ last'[v] = last[v]
      /\ last'[w] = IF load[w].boot THEN last[w] ELSE load[w].ts
  BY <1>1 DEF NoLoad, IInv, TypeOK
<1>3. /\ Clock(w) /\ sentinel \in Nat /\ last[w] \in Nat /\ load[w].ts \in Nat
      /\ load[w].boot \in BOOLEAN
  BY DEF SInv, IInv, TypeOK
<1>4. last'[w] = load[w].ts
  BY <1>2, <1>3 DEF Clock
<1>5. Clock(w)'
  BY <1>2, <1>3, <1>4 DEF Clock, Loading, Parts, Files
<1>6. Undisturbed => Settled(w)'
  BY <1>2, <1>4 DEF Settled, Resting, OnDisk, Loading, Parts, Files
<1>7. QED
  BY <1>2, <1>5, <1>6, OneMoves DEF Writing, SInv, Writers, Written

\* A reload is given up: with nobody writing, only when nothing was ever written.
LEMMA GivenUpStep == ASSUME IInv, SInv, NEW w \in Workers, LoadFails(w) PROVE SInv'
<1>1. /\ load[w].at \in {"readIndex", "readDocs"} /\ LoadEnds(w)
      /\ UNCHANGED <<mem, file, sentinel, add, spoiled>>
      /\ \E f \in Files : file[f] = Unreadable
  BY DEF LoadFails, Files
<1>2. ASSUME Undisturbed, load[w].ts = sentinel, NEW p \in Parts
      PROVE  mem[w][p] = OnDisk(p)
  <2>1. sentinel = 0
    BY <1>1, <1>2 DEF SInv, Disk
  <2>2. load[w].boot
    BY <1>1, <1>2, <2>1 DEF SInv, Clock, Loading
  <2>3. QED
    BY <1>1, <2>1, <2>2 DEF SInv, Clock, OnDisk
<1>3. QED
  BY <1>1, <1>2, EndsSettled DEF Loading

\* A part is swapped; with the last one the copy is what was read.
LEMMA SwappedStep == ASSUME IInv, SInv, NEW w \in Workers, Swaps(w) PROVE SInv'
<1> PICK p \in Parts :
      /\ load[w].at = p /\ SwapMay(w)
      /\ mem' = [mem EXCEPT ![w][p] = IF p = "index" THEN load[w].index ELSE load[w].docs]
      /\ IF p = "bm25" THEN LoadEnds(w)
         ELSE load' = [load EXCEPT ![w].at = After[p]] /\ UNCHANGED last
  BY DEF Swaps
<1>1. UNCHANGED <<file, sentinel, add, spoiled>>
  BY DEF Swaps
<1>2. /\ Clock(w) /\ Copy(w) /\ load[w].boot \in BOOLEAN
      /\ load[w].index \in Corpus /\ load[w].docs \in Corpus
  BY DEF SInv, IInv, TypeOK
<1>3. /\ mem'[w][p] = (IF p = "index" THEN load[w].index ELSE load[w].docs)
      /\ \A q \in Parts : q # p => mem'[w][q] = mem[w][q]
      /\ \A v \in Workers : v # w => mem'[v] = mem[v]
  BY DEF IInv, TypeOK
<1>4. CASE p # "bm25"
  <2>1. /\ load'[w].at = After[p] /\ load'[w].ts = load[w].ts /\ load'[w].boot = load[w].boot
        /\ load'[w].index = load[w].index /\ load'[w].docs = load[w].docs
        /\ \A v \in Workers : v # w => load'[v] = load[v]
        /\ UNCHANGED last
    BY <1>4 DEF IInv, TypeOK
  <2>2. After[p] \in {"docs", "texts", "bm25"} /\ p \in Loading /\ p # "idle"
    BY <1>4 DEF After, Loading, Parts, Files
  <2>3. Clock(w)'
    BY <1>1, <1>2, <2>1, <2>2 DEF Clock, Loading, Parts, Files
  <2>4. Undisturbed => Settled(w)'
    BY <1>1, <2>1, <2>2 DEF SInv, Settled, Resting, Loading, Parts, Files
  <2>5. QED
    BY <1>1, <1>3, <2>1, <2>3, <2>4, OneMoves DEF Writing, SInv, Writers, Written
<1>5. CASE p = "bm25"
  <2>1. /\ mem'[w]["index"] = load[w].index
        /\ \A q \in Parts \ {"index"} : mem'[w][q] = load[w].docs
    BY <1>2, <1>3, <1>5 DEF Copy, Held, Parts, Files
  <2>2. ASSUME Undisturbed, load[w].ts = sentinel, NEW q \in Parts
        PROVE  mem'[w][q] = OnDisk(q)
    <3>1. load[w].index = file["index"] /\ load[w].docs = file["docs"] /\ Disk
      BY <1>5, <2>2 DEF SInv, Settled, Loading
    <3>2. sentinel # 0
      BY <1>2, <3>1, UnreadableAssumption DEF Disk, Files, Corpus
    <3>3. QED
      BY <2>1, <3>1, <3>2 DEF OnDisk
  <2>3. QED
    BY <1>1, <1>3, <1>5, <2>2, EndsSettled DEF Loading, Parts, Files
<1>6. QED
  BY <1>4, <1>5

\* A worker goes down.
LEMMA DownStep == ASSUME IInv, SInv, NEW w \in Workers, Crash(w) PROVE SInv'
<1>1. /\ UNCHANGED <<file, sentinel>>
      /\ \A v \in Workers : v # w => /\ mem'[v] = mem[v] /\ last'[v] = last[v]
                                     /\ load'[v] = load[v] /\ add'[v] = add[v]
      /\ mem'[w] = [p \in Parts |-> <<>>] /\ last'[w] = 0 /\ add'[w] = NoAdd
      /\ load'[w] = [NoLoad EXCEPT !.at = "down"] /\ sentinel \in Nat
  BY DEF Crash, IInv, TypeOK
<1>2. /\ load'[w].at = "down" /\ load'[w].ts = 0 /\ load'[w].boot = FALSE
      /\ add'[w].at = "idle"
  BY <1>1 DEF NoLoad, NoAdd
<1>3. spoiled' <=> spoiled \/ add[w].at \in Persisting
  BY DEF Crash, IInv, TypeOK
<1>4. Clock(w)'
  BY <1>1, <1>2 DEF Clock, Loading, Parts, Files
<1>5. Settled(w)' /\ Written(w)' /\ ~Writing(w)'
  BY <1>2 DEF Settled, Resting, Written, Writing, Loading, Parts, Files, Persisting
<1>6. ~spoiled' => ~Writing(w)
  BY <1>3 DEF Writing
<1>7. QED
  BY <1>1, <1>3, <1>4, <1>5, <1>6, OneMoves

LEMMA NextSInv == ASSUME IInv, SInv, [Next]_vars PROVE SInv'
<1>1. ASSUME NEW w \in Workers, AddBegins(w) \/ Work(w) \/ PersistFails(w) \/ Crash(w)
      PROVE  SInv'
  BY <1>1, UploadStep, WritingStep, WriterEnds, ReadingStep, GivenUpStep, SwappedStep, DownStep
  DEF Work
<1>2. CASE Search \/ UNCHANGED vars
  <2>1. UNCHANGED <<mem, file, sentinel, last, add, load, spoiled>>
    BY <1>2 DEF Search, SearchBegins, SearchReads, SearchFinds, SearchHashes, SearchTakesSource,
                SearchTakesText, SearchRaises, vars
  <2>2. QED
    BY <2>1 DEF SInv, Clock, Writers, Written, Writing, Disk, Settled, Resting, OnDisk, Undisturbed
<1>3. QED
  BY <1>1, <1>2 DEF Next

\* A worker with nothing left to do holds what is on disk, unless a write failed, was
\* cut or met another (_faiss_reload_loop, reload, add_documents): RestIsCurrent.
THEOREM RestingIsCurrent == Spec => []RestIsCurrent
<1>1. SInv => RestIsCurrent
  BY DEF SInv, Settled, RestIsCurrent, Undisturbed
<1>2. IInv /\ SInv /\ [Next]_vars => SInv'
  BY NextSInv
<1>3. QED
  BY <1>1, <1>2, InitSInv, Invariant, PTL DEF Spec
=============================================================================
