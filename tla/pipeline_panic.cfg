SPECIFICATION FairSpec
CONSTANTS
  t1 = t1
  t2 = t2
  t3 = t3
  Threads = {t1, t2, t3}
  Home = t1
  NFiles = 4
  NQueries = 2
  Var <- MCVar
  Text <- MCText
  Readable = {1, 2, 3}
  Words <- MCWords
  Idents <- MCIdents
  Matches <- MCMatches
  RegexFails <- MCRegexFails
  limit = FALSE
  unique = FALSE
INVARIANTS PerFileOrder NoDeadlock
PROPERTIES Terminates RefinesSearch Advances
