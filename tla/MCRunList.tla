------------------------------- MODULE MCRunList -------------------------------
(* Instances of RunList for TLC. *)
EXTENDS RunList, TLC

MCRoleNames == {"a", "b", "c"}
MCRecipeNames == {"x", "y", "z] "}
MCBracketNames == {"z] "}
MCInBrackets == [n \in MCBracketNames |-> "recipe[z] ]"]
MCEnvironments == {"_default", "prod"}

RoleRef(r) == [form |-> "role", name |-> r, version |-> NoVersion]
x == [form |-> "bare", name |-> "x", version |-> NoVersion]
y == [form |-> "recipe", name |-> "y", version |-> "1.0.0"]
invalid == [form |-> "invalid", name |-> "x", version |-> NoVersion]

z == [form |-> "bare", name |-> "z] ", version |-> NoVersion]
zAt1 == [z EXCEPT !.version = "1.0.0"]

\* A list may begin with a role it shares with others, lead back to its own
\* role, repeat a recipe, hold a string that is no run list item, and recipes
\* with a bracket in the name.
Lists == {<<>>, <<x, x>>, <<RoleRef("a"), y>>, <<RoleRef("b"), RoleRef("c")>>,
          <<invalid, RoleRef("c"), z>>}
MCRunLists == (Lists \ {<<>>}) \cup {<<zAt1, RoleRef("b")>>}

InAll(list) == [RunList |-> list, EnvRunLists |-> [env \in {} |-> <<>>]]
InProd(list) == [RunList |-> <<y>>, EnvRunLists |-> [env \in {"prod"} |-> list]]
InBoth(list) == [RunList |-> list, EnvRunLists |-> [env \in MCEnvironments |-> <<x>>]]

MCServers ==
  {("a" :> ra) @@ ("b" :> rb) @@ ("c" :> rc) :
     ra \in {InAll(l) : l \in Lists} \cup {InProd(l) : l \in Lists},
     rb \in {InAll(l) : l \in Lists} \cup {InBoth(l) : l \in Lists},
     rc \in {InAll(l) : l \in Lists}}
================================================================================
