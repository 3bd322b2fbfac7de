-------------------------------- MODULE RunList --------------------------------
(***************************************************************************)
(* The expansion of a run list (lib/run_list.go, lib/role.go).             *)
(*                                                                         *)
(* expandRunList walks over a list, depth first.  It asks the Chef Server  *)
(* for each role it meets, unless it has met it before, and expands the    *)
(* list it gets.  `stack' holds what is left of the lists of the calls in  *)
(* progress, the innermost first.  The Chef Server is external: its roles  *)
(* are any of Servers, they may contain each other, and any request may    *)
(* fail, which leaves the zero role.                                       *)
(***************************************************************************)
EXTENDS Naturals, Sequences, FiniteSets

CONSTANTS
  RoleNames,
  RecipeNames,
  BracketNames, \* those with a closing bracket, which only bare strings can have
  InBrackets,   \* for each of them, recipe[...] around it, which is a name again
  Servers,      \* the contents a Chef Server may have
  RunLists,     \* the run lists that may be configured
  Environments  \* the environments that may be configured

\* A string of a run list, by the pattern of parseRunList it matches: recipe[n]
\* or recipe[n@version], role[n], n or n@version, or none.
NoVersion == "none"
RunListString ==
  [form : {"recipe"}, name : RecipeNames \ BracketNames, version : {NoVersion, "1.0.0"}]
    \cup [form : {"bare"}, name : RecipeNames, version : {NoVersion, "1.0.0"}]
    \cup [form : {"role"}, name : RoleNames, version : {NoVersion}]
    \cup [form : {"invalid"}, name : RecipeNames, version : {NoVersion}]

DefaultEnvironment == "_default"

\* EnvRunLists is a function from the environments that have a list.
IsRole(role) ==
  /\ DOMAIN role = {"RunList", "EnvRunLists"}
  /\ role.RunList \in Seq(RunListString)
  /\ DOMAIN role.EnvRunLists \subseteq Environments
  /\ \A env \in DOMAIN role.EnvRunLists : role.EnvRunLists[env] \in Seq(RunListString)

ASSUME RunListAssumption ==
  /\ IsFiniteSet(RoleNames)
  /\ RunLists \subseteq Seq(RunListString)
  /\ \A roles \in Servers : DOMAIN roles = RoleNames /\ \A r \in RoleNames : IsRole(roles[r])

RunListItem ==
  [itemType : {"recipe"}, name : RecipeNames, version : {NoVersion, "1.0.0"}]
    \cup [itemType : {"role"}, name : RoleNames, version : {NoVersion}]

\* A name is not the name in brackets.
ASSUME BracketAssumption == \A n \in BracketNames : InBrackets[n] # n

NoRole == [RunList |-> <<>>, EnvRunLists |-> [env \in {} |-> <<>>]]
Nobody == "nobody"
ASSUME NobodyAssumption == Nobody \notin RoleNames

VARIABLES
  roles,        \* on the Chef Server
  environment,  \* config.ChefEnvironment
  unparsed,     \* config.RunList, or one of config.RunLists
  stack,        \* what is left to expand, innermost call first
  fetching,     \* the role that is being asked for
  recipes,      \* the result, a list of strings
  appliedRoles,
  \* History, for the properties only:
  fetches,      \* how often each role was asked for
  failed        \* the roles that could not be read

given == <<roles, environment, unparsed>>
history == <<fetches, failed>>
vars == <<given, stack, fetching, recipes, appliedRoles, history>>

-----------------------------------------------------------------------------
(* Strings and items *)

ParseItem(string) ==
  [itemType |-> IF string.form = "role" THEN "role" ELSE "recipe",
   name |-> string.name, version |-> string.version]

\* The items of the strings at the kept places, in their order: the n-th is at
\* the place that has n kept ones up to it.
ItemsOf(strings, kept) ==
  [n \in 1 .. Cardinality(kept) |->
    ParseItem(strings[CHOOSE k \in kept : Cardinality({l \in kept : l <= k}) = n])]

\* Slip: only qualified recipes may have a version.
parseRunList__BareVersion(strings) ==
  ItemsOf(strings, {k \in DOMAIN strings :
                      /\ strings[k].form # "invalid"
                      /\ strings[k].form = "bare" => strings[k].version = NoVersion})

\* A string that matches no pattern is dropped without a word.
parseRunList(strings) ==
  ItemsOf(strings, {k \in DOMAIN strings : strings[k].form # "invalid"})

HasBracket(item) == item.itemType = "recipe" /\ item.name \in BracketNames

\* An item is written as recipe[...] or role[...], whatever its name is.  With a
\* bracket in the name that matches the pattern of bare names, and with a version
\* behind it none.
ItemString(item) ==
  CASE ~HasBracket(item)
         -> [form |-> item.itemType, name |-> item.name, version |-> item.version]
    [] HasBracket(item) /\ item.version = NoVersion
         -> [form |-> "bare", name |-> InBrackets[item.name], version |-> NoVersion]
    [] HasBracket(item) /\ item.version # NoVersion
         -> [form |-> "invalid", name |-> item.name, version |-> NoVersion]

toStringSlice(list) == [k \in DOMAIN list |-> ItemString(list[k])]

\* A recipe of the result is written without recipe[...].
RecipeString(item) == [form |-> "bare", name |-> item.name, version |-> item.version]

\* Slip: an environment's list is looked for under _default, too.
RunListOf__Default(role) ==
  parseRunList(IF environment \in DOMAIN role.EnvRunLists
                 THEN role.EnvRunLists[environment] ELSE role.RunList)

\* roleRunListFor: the list of a role in the environment of the run.
RunListOf(role) ==
  parseRunList(IF environment # DefaultEnvironment /\ environment \in DOMAIN role.EnvRunLists
                 THEN role.EnvRunLists[environment] ELSE role.RunList)

-----------------------------------------------------------------------------

Init ==
  /\ roles \in Servers
  /\ environment \in Environments
  /\ unparsed \in RunLists
  /\ stack = <<parseRunList(unparsed)>>
  /\ fetching = Nobody
  /\ recipes = <<>>
  /\ appliedRoles = {}
  /\ fetches = [r \in RoleNames |-> 0]
  /\ failed = {}

\* The innermost call has an entry left to look at: the first of its list.
HasEntry(itemType) ==
  /\ fetching = Nobody
  /\ stack # <<>>
  /\ Head(stack) # <<>>
  /\ Head(Head(stack)).itemType = itemType
Entry == Head(Head(stack))
Shifted == <<Tail(Head(stack))>> \o Tail(stack)

AddRecipe ==
  /\ HasEntry("recipe")
  /\ recipes' = Append(recipes, RecipeString(Entry))
  /\ stack' = Shifted
  /\ UNCHANGED <<given, fetching, appliedRoles, history>>

\* Slip: the rest of the list is lost from sight after an applied role.
SkipRole__NoShift ==
  /\ HasEntry("role")
  /\ Entry.name \in appliedRoles
  /\ UNCHANGED vars

SkipRole ==
  /\ HasEntry("role")
  /\ Entry.name \in appliedRoles
  /\ stack' = Shifted
  /\ UNCHANGED <<given, fetching, recipes, appliedRoles, history>>

\* Slip: the role is not remembered.
AskForRole__Forget ==
  /\ HasEntry("role")
  /\ Entry.name \notin appliedRoles
  /\ fetching' = Entry.name
  /\ fetches' = [fetches EXCEPT ![Entry.name] = @ + 1]
  /\ stack' = Shifted
  /\ UNCHANGED <<given, recipes, appliedRoles, failed>>

\* A role is remembered before it is asked for.
AskForRole ==
  /\ HasEntry("role")
  /\ Entry.name \notin appliedRoles
  /\ appliedRoles' = appliedRoles \cup {Entry.name}
  /\ fetching' = Entry.name
  /\ fetches' = [fetches EXCEPT ![Entry.name] = @ + 1]
  /\ stack' = Shifted
  /\ UNCHANGED <<given, recipes, failed>>

\* Slip: the role's strings are expanded unparsed.
GetRole__Unparsed ==
  /\ fetching # Nobody
  /\ stack' = <<roles[fetching].RunList>> \o stack
  /\ fetching' = Nobody
  /\ UNCHANGED <<given, recipes, appliedRoles, history>>

\* Slip: the role's list is left until the rest of the list is done.
GetRole__Later ==
  /\ fetching # Nobody
  /\ \E ok \in BOOLEAN :
       /\ stack' = Append(stack, RunListOf(IF ok THEN roles[fetching] ELSE NoRole))
       /\ failed' = IF ok THEN failed ELSE failed \cup {fetching}
  /\ fetching' = Nobody
  /\ UNCHANGED <<given, recipes, appliedRoles, fetches>>

\* The role arrives, or does not, and its list is expanded next.
GetRole ==
  /\ fetching # Nobody
  /\ \E ok \in BOOLEAN :
       /\ stack' = <<RunListOf(IF ok THEN roles[fetching] ELSE NoRole)>> \o stack
       /\ failed' = IF ok THEN failed ELSE failed \cup {fetching}
  /\ fetching' = Nobody
  /\ UNCHANGED <<given, recipes, appliedRoles, fetches>>

\* The innermost call returns.
Return ==
  /\ fetching = Nobody
  /\ stack # <<>>
  /\ Head(stack) = <<>>
  /\ stack' = Tail(stack)
  /\ UNCHANGED <<given, fetching, recipes, appliedRoles, history>>

Expand == AddRecipe \/ SkipRole \/ AskForRole \/ GetRole \/ Return

Expanded == stack = <<>> /\ fetching = Nobody
Terminated == Expanded /\ UNCHANGED vars

Next == Expand \/ Terminated

Spec == Init /\ [][Next]_vars

\* Requests end, with an answer or with an error.
FairSpec == Spec /\ WF_vars(Expand)

-----------------------------------------------------------------------------
(* Properties *)

TypeOK ==
  /\ roles \in Servers /\ environment \in Environments /\ unparsed \in RunLists
  /\ stack \in Seq(Seq(RunListItem))
  /\ fetching \in RoleNames \cup {Nobody}
  /\ recipes \in Seq(RunListString)
  /\ appliedRoles \subseteq RoleNames
  /\ fetches \in [RoleNames -> Nat]
  /\ failed \subseteq RoleNames

\* However the roles contain each other, each is asked for once.
AskedOnce == \A r \in RoleNames : fetches[r] = IF r \in appliedRoles THEN 1 ELSE 0

\* What the expansion ought to see of a role: nothing if it could not be read,
\* the list of the environment if there is one and it is not _default.
ShouldSee(r) ==
  LET role == roles[r]
      strings == CASE r \in failed -> <<>>
                   [] r \notin failed /\ environment \in DOMAIN role.EnvRunLists \ {DefaultEnvironment}
                        -> role.EnvRunLists[environment]
                   [] OTHER -> role.RunList
  IN  parseRunList(strings)

RolesOf(list) == {list[k].name : k \in {l \in DOMAIN list : list[l].itemType = "role"}}
IsRecipe(item, string) == item.itemType = "recipe" /\ RecipeString(item) = string
Places(list, string) == {k \in DOMAIN list : IsRecipe(list[k], string)}

\* The roles that can be reached from the configured list are in every set
\* that has the roles of that list and of the lists of its members.
Closed(set) ==
  /\ RolesOf(parseRunList(unparsed)) \subseteq set
  /\ \A r \in set : RolesOf(ShouldSee(r)) \subseteq set
Reached == {r \in RoleNames : \A set \in SUBSET RoleNames : Closed(set) => r \in set}

\* The places of a recipe in the lists of the given roles.
PlacesInRoles(set, string) == UNION {{r} \X Places(ShouldSee(r), string) : r \in set}

\* The result has each recipe as often as it stands in the configured list and
\* in the lists of the roles that can be reached from it, taken once each.
ExpansionExact ==
  Expanded =>
    /\ appliedRoles = Reached
    /\ \A string \in RunListString :
         Cardinality({k \in DOMAIN recipes : recipes[k] = string})
           = Cardinality(Places(parseRunList(unparsed), string))
               + Cardinality(PlacesInRoles(Reached, string))

\* The recipes of a role of the configured list come before the recipes that
\* stand behind the role there.
OrderKept ==
  Expanded =>
    LET list == parseRunList(unparsed) IN
    \A m, n \in DOMAIN list :
      m < n /\ list[m].itemType = "role" /\ list[n].itemType = "recipe" =>
        \E k \in DOMAIN recipes :
          /\ recipes[k] = RecipeString(list[n])
          /\ LET inRole == ShouldSee(list[m].name) IN
             \A e \in DOMAIN inRole : inRole[e].itemType = "recipe" =>
               \E before \in 1 .. k - 1 : recipes[before] = RecipeString(inRole[e])

\* Run lists are turned into strings, which ChefClientRun parses again for the
\* run_converge message.  The strings of the expansion always give the recipes
\* that were found, whatever their names.  Those of the configured list, which
\* take their place in data collector mode, give its items again exactly when
\* none of its recipes has a bracket in its name.
ParsesBack ==
  /\ LET list == parseRunList(unparsed) IN
     (parseRunList(toStringSlice(list)) = list) <=> \A k \in DOMAIN list : ~HasBracket(list[k])
  /\ LET again == parseRunList(recipes) IN
     /\ Len(again) = Len(recipes)
     /\ \A k \in DOMAIN again : again[k].itemType = "recipe" /\ RecipeString(again[k]) = recipes[k]

\* The expansion ends, also when roles contain each other.
Terminates == <>Expanded
================================================================================
