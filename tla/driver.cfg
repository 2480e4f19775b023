SPECIFICATION Spec
CONSTANTS
  Forces = {TRUE, FALSE}
  RuleDirs <- MCRuleDirs
  ArgRegexes = {TRUE, FALSE}
  InputTrees <- MCInputTrees
  Extensions = {"c", "h"}
  Filters = {"exclude"}
  Outputs = {TRUE, FALSE}
INVARIANTS TypeOK SearchesValidated ErrorsLocated SyntaxErrorsReal ReportsInOrder SarifIsLast
PROPERTIES Terminates
