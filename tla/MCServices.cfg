\* Each of the services by itself: sign-in, suggestions, costs, questions,
\* pages, the microphone and the feed's files.
SPECIFICATION MCSpec
\* Every request, post, recording and edit is made at most once or a bounded
\* number of times, so a behaviour ends.
CHECK_DEADLOCK FALSE
CONSTANTS
  Requests = {1, 2, 3}
  User = "ann"
  Passwords = {"p1"}
  Texts <- TextsUsed
  Tenants = {"operator", "client"}
  Limit = 2
  Window = 1
  Lockout = 1
  MaxEdits = 1
  Posts = {1, 2, 3, 4}
  By <- ByUsed
  Statuses = {"new", "done"}
  PerHour = 2
  Hour = 2
  Calls <- CallsUsed
  Prices <- PricesUsed
  Overlap = 2
  Batch = 1
  ReconcileEvery = 2
  ReconcileDays = 1
  Stale = 1
  Day = 2
  Late = 1
  PassTime = 1
  Asks = {1, 2}
  Recordings <- RecordingsUsed
  MaxSeconds = 30
  QuestionsPerHour = 1
  NotesPerHour = 1
  AskHour = 1
  Features <- FeaturesUsed
  Missions <- MissionsUsed
  Issues <- IssuesUsed
  ModelCalls <- ModelCallsUsed
  Milestones <- MilestonesUsed
  Clients <- ClientsUsed
  Now = 30
  TaggingStarted = 15
  FeatureTier <- FeatureTierUsed
  ProjectTier <- ProjectTierUsed
  Questions <- QuestionsUsed
  MaxListed = 1
  MaxPasses = 1
  MaxPresses = 3
  PlanTexts <- PlanTextsUsed
  MaxChanges = 2
INVARIANT AccountsAreCurrent
INVARIANT GuessesAreLimited
INVARIANT SuggestionsAreLimited
INVARIANT FigureIsComplete
INVARIANT AnswersAddUp
INVARIANT PagesAgree
INVARIANT MicrophoneIsShown
INVARIANT FilesAreWhole
INVARIANT OneAtATime
INVARIANT SocketsAreShut
PROPERTY EveryRequestEnds
