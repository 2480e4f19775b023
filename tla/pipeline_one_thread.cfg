SPECIFICATION FairSpec
CONSTANTS
  t1 = t1
  t2 = t2
  t3 = t3
  Threads = {t1}
  Home = t1
  NFiles = 4
  NQueries = 2
  Var <- MCVar
  Text <- MCText
  Readable = {1, 2, 3, 4}
  Words <- MCWords
  Idents <- MCIdents
  Matches <- MCMatches
  RegexFails = {}
  limit = TRUE
  unique = TRUE
PROPERTIES Terminates
CHECK_DEADLOCK FALSE
