\* Two workers, two uploads, one crash, and a search at any time.
SPECIFICATION FairSpec
CONSTANTS
  Workers = {w1, w2}
  Searching = {w1}
  MaxUploads = 2
  MaxCrashes = 1
  Unreadable = Unreadable
INVARIANTS
  TypeOK
  CorpusAgrees
  SearchFaultsHaveCause
PROPERTIES
  WorkersConverge
\* Uploads and crashes end, and the files stay as they are.
CHECK_DEADLOCK FALSE
