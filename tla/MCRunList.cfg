SPECIFICATION FairSpec
CONSTANTS
  RoleNames <- MCRoleNames
  RecipeNames <- MCRecipeNames
  BracketNames <- MCBracketNames
  InBrackets <- MCInBrackets
  Environments <- MCEnvironments
  RunLists <- MCRunLists
  Servers <- MCServers
INVARIANTS TypeOK AskedOnce ExpansionExact OrderKept ParsesBack
PROPERTY Terminates
