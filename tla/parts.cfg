SPECIFICATION Spec
CONSTANTS
  MaxRounds = 2  MaxRuns = 3
  MaxQuestions = 3  FirstQuestions = 2  MaxEdits = 2
  Readers = {1, 2}  MaxMishaps = 3
  MaxVersion = 3  MaxStarts = 5
  Updaters = {u1, u2}  Majors = {1, 2, 3}  MaxReleases = 1  MaxCrashes = 1
  Savers = {s1, s2}  MaxNotes = 3  NoteChars = 2  PromptMax = 2  PromptChars = 3
  Stretches = {t1, t2}  MaxTime = 3  MaxAhead = 1  MaxStretch = 2
  PageCount = 4  Starts = {1, 3}  Offsets = {0, 2}  MinVotes = 3  MinRun = 2
  MaxLines = 2  MaxObjects = 1  MaxRepairCalls = 2  MaxPending = 1
  Alphabets = {{"a", "space", "*"}, {"a", "open", "shut", "["}, {"a", "open", "*", "shut"}, {"a", "tick", "*", "$"}, {"[", "p", "]", "*"}}
  MaxText = 5  MaxCite = 3
  MaxSpent = 3
  BookPages = 5  MaxEntries = 3  MaxHeadings = 3  PlaceWindow = 2  VoteMin = 2  PickBatch = 2  PickMin = 2
  ScanPages = 6  ScopeMax = 5  ScopeFirst = 1  ScopeBatch = 2  FirstRound = 2  WiderRound = 3
  LabelMax = 2  SweepBatch = 2  SweepBatches = 2  FindMishaps = 1
  Wordings = {{"1.1", "2.1:", "4", "#6", "2-5"}, {"1.1", "7a", "(b)", "odd", "2-5"}, {"Section", "1.1", "4", "7a", "p. 33"}, {"Problem", "2.1.5", "1.2-4", "even", "prose", "(note)"}, {"Review problem", "Problem", "1.1", "paragraph", "4"}}
  MaxWords = 5
  MaxLinesRead = 2  MaxTold = 3  MaxIds = 4
  MaxBlocks = 3  MaxDiffering = 2
  ChaptersOf = 2  SectionsIn = 2  ChapterMin = 2  SetMin = 2  MinFit = 2  MaxSays = 1
  MaxGrowth = 2
  Largest = 2
INVARIANTS TypeOK GuideIsOneReply GuideIsSound SetIsRanked ReadIsOwed UpgradeIsBacked OneSoundUpdate KeptAsSaid WorkedOutRight
CHECK_DEADLOCK FALSE
