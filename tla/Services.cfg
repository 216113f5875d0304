SPECIFICATION Spec
CONSTANTS
  e1 = e1
  e2 = e2
  r1 = r1
  r2 = r2
  u1 = u1
  u2 = u2
  n1 = n1
  q1 = q1
  q2 = q2
  a1 = a1
  t1 = t1
  s1 = s1
  s2 = s2
  x1 = x1
  x2 = x2
  OfAccounts <- TwoAccounts
  OfAccount <- FourPasswords
  OfCourse <- TwoPosts
  OfAnswers <- OneAnswer
  OfOneTab <- ThreeChapters
  OfTwoTabs <- OneLecture
  OfQuiz <- OneQuiz
  OfPage <- TwoQuestions
  Characters <- Alphabet
  OfTyping <- ManyTexts
  OfQuestion <- FiveTexts
INVARIANTS
  TypeOK
  LastPasswordSignsIn
  SpentLinkIsDead
  OwnLinksOnly
  OwedIsMailed
  MailedWasStored
  AnswersHaveTheirQuestion
  DroppedChapterShown
  DroppedOrderKept
  EmptyIsDeletable
  EditShowsTyped
  RightIsAsTyped
  AnnouncementsSettle
  QuestionsSettle
PROPERTIES
  ShutUntilDeleted
  JobsFinish
  WidgetsSettle
CHECK_DEADLOCK FALSE
