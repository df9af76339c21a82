SPECIFICATION Spec
CONSTANTS
  None = None
  a = a
  snake = snake
  long = long
  Statements <- MCStatements
  Files = {1, 2}
  Projects <- MCProjects
  PipelineSlugs = {a, long}
  DeploySlugs = {a}
  PrTypes = {"opened"}
  Crons = {}
  MaxImports = 2
INVARIANTS RegistriesMirrorImport DumpIsTheProject ImportSucceedsIffSound
PROPERTY NothingIsReplaced
