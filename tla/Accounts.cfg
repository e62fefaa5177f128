SPECIFICATION Spec
CONSTANTS
  Browsers = {"laptop", "phone"}
  Subjects = {"ana", "rui"}
  Emails = {"", "ana@x"}
  Blank = " "
  Questions = {" ", "why?"}
  Answers = {"because"}
  SessionTTL = 1
  Budgets <- MCBudgets
  MaxRequests = 3
  Overlap = 2
INVARIANTS OneUserPerSubject OwnedWorkspaces TenantsApart
  TitleOfTheFirstText AnswersFollowQuestions
PROPERTY ActsAsItsLogin
