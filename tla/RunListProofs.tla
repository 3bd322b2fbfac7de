----------------------------- MODULE RunListProofs -----------------------------
(***************************************************************************)
(* The expansion of run lists is correct for every Chef Server, run list   *)
(* and environment, whichever requests fail: TypeOK, AskedOnce,            *)
(* ExpansionExact, OrderKept and ParsesBack.                               *)
(*                                                                         *)
(* AskedOnce is inductive with its types (Memo).  The rest follows from    *)
(* IInv.  It says of an expansion in progress what is still to come: what  *)
(* is left on the stack, as a function from places to entries (Todo), has  *)
(* every recipe that is missing in the result, and every role that is      *)
(* reached and not applied yet.                                            *)
(***************************************************************************)
EXTENDS RunList, FiniteSetTheorems, SequenceTheorems, TLAPS

-----------------------------------------------------------------------------
(* Roles are asked for once *)

\* AskedOnce needs the domain of fetches, and that is all.
Memo == fetches \in [RoleNames -> Nat] /\ AskedOnce

\* No role has been asked for at the start.
LEMMA InitMemo == Init => Memo
  BY DEF Init, Memo, AskedOnce

\* A request is only made for a role that is not remembered, and the role is
\* remembered with it.
LEMMA AskMemo == Memo /\ AskForRole => Memo'
<1> SUFFICES ASSUME Memo, AskForRole PROVE Memo'
  OBVIOUS
<1>1. PICK name : name = Entry.name
  OBVIOUS
<1>2. /\ name \notin appliedRoles
      /\ appliedRoles' = appliedRoles \cup {name}
      /\ fetches' = [fetches EXCEPT ![name] = @ + 1]
  BY <1>1 DEF AskForRole
<1>3. fetches' \in [RoleNames -> Nat]
  <2>1. CASE name \in RoleNames
    <3>1. fetches[name] + 1 \in Nat
      BY <2>1 DEF Memo
    <3> QED
      BY <1>2, <3>1 DEF Memo
  <2>2. CASE name \notin RoleNames
    BY <1>2, <2>2 DEF Memo
  <2> QED
    BY <2>1, <2>2
<1>4. ASSUME NEW r \in RoleNames
      PROVE  fetches'[r] = IF r \in appliedRoles' THEN 1 ELSE 0
  <2>1. CASE r = name
    <3>1. fetches[r] = 0
      BY <1>2, <2>1 DEF Memo, AskedOnce
    <3>2. fetches'[r] = fetches[r] + 1
      BY <1>2, <2>1 DEF Memo
    <3> QED
      BY <1>2, <2>1, <3>1, <3>2
  <2>2. CASE r # name
    BY <1>2, <2>2 DEF Memo, AskedOnce
  <2> QED
    BY <2>1, <2>2
<1> QED
  BY <1>3, <1>4 DEF Memo, AskedOnce

\* No other step asks for a role or forgets one.
LEMMA OtherMemo ==
  Memo /\ (AddRecipe \/ SkipRole \/ GetRole \/ Return \/ UNCHANGED vars) => Memo'
<1> SUFFICES ASSUME Memo, AddRecipe \/ SkipRole \/ GetRole \/ Return \/ UNCHANGED vars
             PROVE  Memo'
  OBVIOUS
<1>1. UNCHANGED <<fetches, appliedRoles>>
  BY DEF AddRecipe, SkipRole, GetRole, Return, vars, history
<1> QED
  BY <1>1 DEF Memo, AskedOnce

\* Whatever the roles contain, each other included, and whichever requests
\* fail, no role is asked for twice in the expansion of a run list.
THEOREM RolesAskedOnce == Spec => []AskedOnce
<1>1. Memo /\ [Next]_vars => Memo'
  BY AskMemo, OtherMemo DEF Next, Expand, Terminated
<1>2. Memo => AskedOnce
  BY DEF Memo
<1> QED
  BY InitMemo, <1>1, <1>2, PTL DEF Spec

-----------------------------------------------------------------------------
(* What holds during an expansion *)

\* What is left to expand, each entry at the level of its call and its place
\* from the end of its list: what is done to one end of the stack or of a list
\* leaves the places of all other entries as they are.
TodoOf(calls) ==
  [x \in UNION {{h} \X (1 .. Len(calls[Len(calls) + 1 - h])) : h \in 1 .. Len(calls)} |->
    LET list == calls[Len(calls) + 1 - x[1]] IN list[Len(list) + 1 - x[2]]]
Todo == TodoOf(stack)

\* The configured list, and the roles whose lists have come or failed to.
Configured == parseRunList(unparsed)
Known == appliedRoles \ {fetching}

\* A role that is asked for has a caller that waits, and has not failed yet.
Asking ==
  /\ fetching # Nobody => fetching \in appliedRoles /\ stack # <<>>
  /\ failed \subseteq Known

\* The result holds recipes only.
Bare == \A k \in DOMAIN recipes : recipes[k].form = "bare"

\* The roles that are applied or stand in what is left are in every set that
\* is closed as far as the lists of roles are known.
TodoRoles == {Todo[x].name : x \in {y \in DOMAIN Todo : Todo[y].itemType = "role"}}
ClosedSoFar(set) ==
  /\ RolesOf(Configured) \subseteq set
  /\ \A r \in set \cap Known : RolesOf(ShouldSee(r)) \subseteq set
OnlyReached ==
  \A set \in SUBSET RoleNames : ClosedSoFar(set) => appliedRoles \cup TodoRoles \subseteq set

\* And no role of a list that is known is lost.
AllReached == ClosedSoFar(appliedRoles \cup TodoRoles)

\* Each recipe is in the result or left, as often as it stands in these lists.
TodoPlaces(string) == Places(Todo, string)
ResultPlaces(string) == {k \in DOMAIN recipes : recipes[k] = string}
Counted ==
  \A string \in RunListString :
    Cardinality(ResultPlaces(string)) + Cardinality(TodoPlaces(string))
      = Cardinality(Places(Configured, string)) + Cardinality(PlacesInRoles(Known, string))

\* The outermost call has an end of the configured list left; the entries
\* before it are behind.
Behind(m) == <<1, Len(Configured) + 1 - m>> \notin DOMAIN Todo
Outermost ==
  /\ \A e \in Nat : <<1, e>> \in DOMAIN Todo =>
       e \in 1 .. Len(Configured) /\ Todo[<<1, e>>] = Configured[Len(Configured) + 1 - e]
  /\ \A m \in DOMAIN Configured :
       Behind(m) /\ Configured[m].itemType = "role" => Configured[m].name \in appliedRoles

\* A recipe of a known role is in the result or left to an inner call.
Inner ==
  \A r \in Known : \A e \in DOMAIN ShouldSee(r) :
    LET item == ShouldSee(r)[e] IN
    item.itemType = "recipe" =>
      \/ \E k \in DOMAIN recipes : recipes[k] = RecipeString(item)
      \/ \E x \in DOMAIN Todo : x[1] # 1 /\ Todo[x] = item

\* OrderKept for the entries that are behind.
OrderSoFar ==
  \A m, n \in DOMAIN Configured :
    /\ m < n /\ Behind(n)
    /\ Configured[m].itemType = "role" /\ Configured[n].itemType = "recipe"
    => \E k \in DOMAIN recipes :
         /\ recipes[k] = RecipeString(Configured[n])
         /\ \A e \in DOMAIN ShouldSee(Configured[m].name) :
              LET item == ShouldSee(Configured[m].name)[e] IN
              item.itemType = "recipe" =>
                \E before \in 1 .. k - 1 : recipes[before] = RecipeString(item)

IInv ==
  /\ TypeOK
  /\ Asking
  /\ Bare
  /\ OnlyReached
  /\ AllReached
  /\ Counted
  /\ Outermost
  /\ Inner
  /\ OrderSoFar

-----------------------------------------------------------------------------
(* Counting *)

\* There are n numbers up to n, so finitely many.
LEMMA CountUpTo ==
  ASSUME NEW n \in Nat
  PROVE  IsFiniteSet(1 .. n) /\ Cardinality(1 .. n) = n
<1>1. IsFiniteSet(1 .. n) /\ Cardinality(1 .. n) = IF 1 > n THEN 0 ELSE n - 1 + 1
  BY FS_Interval
<1> QED
  BY <1>1

\* So is every set of such numbers.
LEMMA SomeUpTo ==
  ASSUME NEW n \in Nat, NEW S \in SUBSET (1 .. n)
  PROVE  IsFiniteSet(S) /\ Cardinality(S) \in Nat
<1>1. IsFiniteSet(1 .. n)
  BY CountUpTo
<1>2. IsFiniteSet(S)
  BY <1>1, FS_Subset
<1> QED
  BY <1>2, FS_CardinalityType

\* Every rank up to the number of kept places is the rank of one of them.
LEMMA NthKept ==
  ASSUME NEW N \in Nat, NEW kept \in SUBSET (1 .. N), NEW n \in 1 .. Cardinality(kept)
  PROVE  \E k \in kept : Cardinality({l \in kept : l <= k}) = n
<1> DEFINE Upto(k) == {l \in kept : l <= k}
           rank == [k \in kept |-> Cardinality(Upto(k))]
<1>1. IsFiniteSet(kept) /\ Cardinality(kept) \in Nat
  BY SomeUpTo
<1>2. ASSUME NEW k \in kept
      PROVE  IsFiniteSet(Upto(k)) /\ Cardinality(Upto(k)) \in 1 .. Cardinality(kept)
  <2>1. Upto(k) \in SUBSET kept /\ k \in Upto(k)
    OBVIOUS
  <2>2. IsFiniteSet(Upto(k)) /\ Cardinality(Upto(k)) <= Cardinality(kept)
    BY <1>1, <2>1, FS_Subset
  <2>3. Cardinality(Upto(k)) \in Nat /\ Cardinality(Upto(k)) # 0
    BY <2>1, <2>2, FS_CardinalityType, FS_EmptySet
  <2> QED
    BY <1>1, <2>2, <2>3
<1>3. ASSUME NEW k \in kept, NEW l \in kept, k < l
      PROVE  rank[k] # rank[l]
  <2>1. Upto(k) \in SUBSET Upto(l)
    <3>1. kept \subseteq Nat
      OBVIOUS
    <3>2. \A x \in kept : x <= k => x <= l
      BY <1>3, <3>1
    <3> QED
      BY <3>2
  <2>2. l \in Upto(l) /\ l \notin Upto(k)
    BY <1>3
  <2>3. Cardinality(Upto(k)) # Cardinality(Upto(l))
    BY <1>2, <2>1, <2>2, FS_Subset
  <2> QED
    BY <2>3
<1>4. rank \in Injection(kept, 1 .. Cardinality(kept))
  <2>1. rank \in [kept -> 1 .. Cardinality(kept)]
    BY <1>2
  <2>2. \A k, l \in kept : rank[k] = rank[l] => k = l
    BY <1>3
  <2> QED
    BY <2>1, <2>2 DEF Injection, IsInjective
<1>5. rank \in Surjection(kept, 1 .. Cardinality(kept))
  <2>1. IsFiniteSet(1 .. Cardinality(kept)) /\ Cardinality(1 .. Cardinality(kept)) = Cardinality(kept)
    BY <1>1, CountUpTo
  <2> QED
    BY <1>4, <2>1, FS_Injection
<1> QED
  BY <1>5 DEF Surjection

\* Every string that matches a pattern is an item.
LEMMA ItemType ==
  ASSUME NEW string \in RunListString, string.form # "invalid"
  PROVE  ParseItem(string) \in RunListItem
BY DEF RunListString, RunListItem, ParseItem

\* The kept places of a list, and a place for each rank.
LEMMA KeptPlaces ==
  ASSUME NEW S, NEW strings \in Seq(S)
  PROVE  LET kept == {k \in DOMAIN strings : strings[k].form # "invalid"}
         IN  /\ Cardinality(kept) \in Nat
             /\ \A n \in 1 .. Cardinality(kept) :
                  (CHOOSE k \in kept : Cardinality({l \in kept : l <= k}) = n) \in kept
<1> DEFINE kept == {k \in DOMAIN strings : strings[k].form # "invalid"}
<1>1. kept \in SUBSET (1 .. Len(strings)) /\ Len(strings) \in Nat
  BY LenProperties
<1>2. Cardinality(kept) \in Nat
  BY <1>1, SomeUpTo
<1>3. ASSUME NEW n \in 1 .. Cardinality(kept)
      PROVE  (CHOOSE k \in kept : Cardinality({l \in kept : l <= k}) = n) \in kept
  <2>1. \E k \in kept : Cardinality({l \in kept : l <= k}) = n
    BY <1>1, NthKept
  <2> QED
    BY <2>1
<1> QED
  BY <1>2, <1>3

\* What is parsed is a run list.
LEMMA ParsedType ==
  ASSUME NEW strings \in Seq(RunListString)
  PROVE  parseRunList(strings) \in Seq(RunListItem)
<1> DEFINE kept == {k \in DOMAIN strings : strings[k].form # "invalid"}
           place(n) == CHOOSE k \in kept : Cardinality({l \in kept : l <= k}) = n
<1>1. Cardinality(kept) \in Nat /\ \A n \in 1 .. Cardinality(kept) : place(n) \in kept
  BY KeptPlaces
<1>2. \A k \in kept : strings[k] \in RunListString /\ strings[k].form # "invalid"
  BY LenProperties, ElementOfSeq
<1>3. \A n \in 1 .. Cardinality(kept) : ParseItem(strings[place(n)]) \in RunListItem
  BY <1>1, <1>2, ItemType
<1>4. parseRunList(strings) = [n \in 1 .. Cardinality(kept) |-> ParseItem(strings[place(n)])]
  BY DEF parseRunList, ItemsOf
<1> HIDE DEF kept, place
<1>5. parseRunList(strings) \in [1 .. Cardinality(kept) -> RunListItem]
  BY <1>3, <1>4
<1> QED
  BY <1>1, <1>5, SeqDef

\* A list whose strings all match a pattern is parsed one by one.
LEMMA ParsedWhole ==
  ASSUME NEW S, NEW strings \in Seq(S), \A k \in DOMAIN strings : strings[k].form # "invalid"
  PROVE  parseRunList(strings) = [k \in 1 .. Len(strings) |-> ParseItem(strings[k])]
<1> DEFINE kept == {k \in DOMAIN strings : strings[k].form # "invalid"}
           place(n) == CHOOSE k \in kept : Cardinality({l \in kept : l <= k}) = n
<1>1. kept = 1 .. Len(strings) /\ Len(strings) \in Nat
  BY LenProperties
<1>2. Cardinality(kept) = Len(strings)
  BY <1>1, CountUpTo
<1>3. ASSUME NEW n \in 1 .. Len(strings)
      PROVE  place(n) = n
  <2>1. \A k \in kept : {l \in kept : l <= k} = 1 .. k
    BY <1>1
  <2>2. \A k \in kept : Cardinality({l \in kept : l <= k}) = k
    <3> SUFFICES ASSUME NEW k \in kept PROVE Cardinality({l \in kept : l <= k}) = k
      OBVIOUS
    <3>1. k \in Nat /\ {l \in kept : l <= k} = 1 .. k
      BY <1>1, <2>1
    <3> QED
      BY <3>1, CountUpTo
  <2>3. \A k \in kept : Cardinality({l \in kept : l <= k}) = n <=> k = n
    BY <2>2
  <2>4. n \in kept
    BY <1>1
  <2>5. place(n) \in kept /\ Cardinality({l \in kept : l <= place(n)}) = n
    BY <2>3, <2>4
  <2> QED
    BY <2>3, <2>5
<1>4. parseRunList(strings) = [n \in 1 .. Cardinality(kept) |-> ParseItem(strings[place(n)])]
  BY DEF parseRunList, ItemsOf
<1> HIDE DEF kept, place
<1> QED
  BY <1>2, <1>3, <1>4

-----------------------------------------------------------------------------
(* What is left, as a function of the stack *)

Calls == Seq(Seq(RunListItem))

\* The lists of a stack.
LEMMA ListsOfCalls ==
  ASSUME NEW calls \in Calls
  PROVE  /\ Len(calls) \in Nat /\ DOMAIN calls = 1 .. Len(calls)
         /\ \A h \in 1 .. Len(calls) :
              /\ calls[Len(calls) + 1 - h] \in Seq(RunListItem)
              /\ Len(calls[Len(calls) + 1 - h]) \in Nat
<1>1. Len(calls) \in Nat /\ DOMAIN calls = 1 .. Len(calls)
  BY LenProperties DEF Calls
<1>2. ASSUME NEW h \in 1 .. Len(calls)
      PROVE  /\ calls[Len(calls) + 1 - h] \in Seq(RunListItem)
             /\ Len(calls[Len(calls) + 1 - h]) \in Nat
  <2>1. Len(calls) + 1 - h \in 1 .. Len(calls)
    BY <1>1
  <2>2. calls[Len(calls) + 1 - h] \in Seq(RunListItem)
    BY <2>1, ElementOfSeq DEF Calls
  <2> QED
    BY <2>2, LenProperties
<1> QED
  BY <1>1, <1>2

\* A list is pushed on a stack.
IsPush(calls, list, pushed) ==
  /\ calls \in Calls /\ list \in Seq(RunListItem) /\ pushed \in Calls
  /\ Len(pushed) = Len(calls) + 1
  /\ pushed[1] = list
  /\ \A k \in 1 .. Len(calls) : pushed[k + 1] = calls[k]

\* So it is when a list is put in front.
LEMMA PushedCalls ==
  ASSUME NEW calls \in Calls, NEW list \in Seq(RunListItem)
  PROVE  IsPush(calls, list, <<list>> \o calls)
<1> DEFINE pushed == <<list>> \o calls
<1>1. <<list>> \in Calls /\ Len(<<list>>) = 1 /\ <<list>>[1] = list
  BY DEF Calls
<1>2. /\ pushed \in Calls
      /\ Len(pushed) = 1 + Len(calls)
      /\ \A i \in 1 .. 1 + Len(calls) : pushed[i] = IF i <= 1 THEN <<list>>[i] ELSE calls[i - 1]
  BY <1>1, ConcatProperties, Zenon DEF Calls
<1>3. Len(calls) \in Nat
  BY LenProperties DEF Calls
<1> HIDE DEF pushed
<1>4. pushed[1] = list
  BY <1>1, <1>2, <1>3
<1>5. \A k \in 1 .. Len(calls) : pushed[k + 1] = calls[k]
  BY <1>2, <1>3
<1> QED
  BY <1>2, <1>3, <1>4, <1>5 DEF pushed, IsPush

\* The places of what is left.
LEMMA TodoDomain ==
  ASSUME NEW calls \in Calls
  PROVE  /\ \A h, e : <<h, e>> \in DOMAIN TodoOf(calls) <=>
              h \in 1 .. Len(calls) /\ e \in 1 .. Len(calls[Len(calls) + 1 - h])
         /\ \A x \in DOMAIN TodoOf(calls) :
              \E h \in 1 .. Len(calls) : \E e \in 1 .. Len(calls[Len(calls) + 1 - h]) : x = <<h, e>>
<1>1. DOMAIN TodoOf(calls) =
        UNION {{h} \X (1 .. Len(calls[Len(calls) + 1 - h])) : h \in 1 .. Len(calls)}
  BY DEF TodoOf
<1>2. \A x \in DOMAIN TodoOf(calls) :
        \E h \in 1 .. Len(calls) : x \in {h} \X (1 .. Len(calls[Len(calls) + 1 - h]))
  BY <1>1
<1>3. \A h \in 1 .. Len(calls) : \A x \in {h} \X (1 .. Len(calls[Len(calls) + 1 - h])) :
        x \in DOMAIN TodoOf(calls)
  BY <1>1
<1>4. ASSUME NEW h, NEW S, NEW x \in {h} \X S
      PROVE  \E e \in S : x = <<h, e>>
  OBVIOUS
<1>5. ASSUME NEW h, NEW e, <<h, e>> \in DOMAIN TodoOf(calls)
      PROVE  h \in 1 .. Len(calls) /\ e \in 1 .. Len(calls[Len(calls) + 1 - h])
  <2>1. PICK g \in 1 .. Len(calls) : <<h, e>> \in {g} \X (1 .. Len(calls[Len(calls) + 1 - g]))
    BY <1>2, <1>5
  <2> QED
    BY <2>1
<1>6. ASSUME NEW h \in 1 .. Len(calls), NEW e \in 1 .. Len(calls[Len(calls) + 1 - h])
      PROVE  <<h, e>> \in DOMAIN TodoOf(calls)
  <2>1. <<h, e>> \in {h} \X (1 .. Len(calls[Len(calls) + 1 - h]))
    OBVIOUS
  <2> QED
    BY <1>3, <2>1
<1>7. ASSUME NEW x \in DOMAIN TodoOf(calls)
      PROVE  \E h \in 1 .. Len(calls) : \E e \in 1 .. Len(calls[Len(calls) + 1 - h]) : x = <<h, e>>
  BY <1>2, <1>4
<1> QED
  BY <1>5, <1>6, <1>7

\* What stands there.
LEMMA TodoValue ==
  ASSUME NEW calls \in Calls, NEW h, NEW e, <<h, e>> \in DOMAIN TodoOf(calls),
         NEW list, list = calls[Len(calls) + 1 - h]
  PROVE  TodoOf(calls)[<<h, e>>] = list[Len(list) + 1 - e]
BY DEF TodoOf

\* The same list at a level of two stacks has the same entries left.
LEMMA SameList ==
  ASSUME NEW calls \in Calls, NEW others \in Calls, NEW h, NEW e,
         <<h, e>> \in DOMAIN TodoOf(calls), <<h, e>> \in DOMAIN TodoOf(others),
         others[Len(others) + 1 - h] = calls[Len(calls) + 1 - h]
  PROVE  TodoOf(others)[<<h, e>>] = TodoOf(calls)[<<h, e>>]
<1>1. PICK list : list = calls[Len(calls) + 1 - h]
  OBVIOUS
<1>2. TodoOf(calls)[<<h, e>>] = list[Len(list) + 1 - e]
  BY <1>1, TodoValue
<1>3. TodoOf(others)[<<h, e>>] = list[Len(list) + 1 - e]
  BY <1>1, TodoValue
<1> QED
  BY <1>2, <1>3

\* The entries of a list are added at a level.
Adds(todo, level, list, more) ==
  /\ DOMAIN more = DOMAIN todo \cup ({level} \X (1 .. Len(list)))
  /\ \A x \in DOMAIN todo : more[x] = todo[x]
  /\ \A e \in 1 .. Len(list) : more[<<level, e>>] = list[Len(list) + 1 - e]

\* A list that is pushed adds its entries at a level of its own.
LEMMA TodoPushed ==
  ASSUME NEW calls, NEW list, NEW pushed, IsPush(calls, list, pushed)
  PROVE  Adds(TodoOf(calls), Len(pushed), list, TodoOf(pushed))
<1> DEFINE level == Len(pushed)
<1>1. /\ calls \in Calls /\ list \in Seq(RunListItem) /\ pushed \in Calls
      /\ level = Len(calls) + 1 /\ pushed[1] = list
      /\ \A k \in 1 .. Len(calls) : pushed[k + 1] = calls[k]
  BY DEF IsPush
<1>2. Len(calls) \in Nat /\ Len(list) \in Nat
  BY <1>1, LenProperties DEF Calls
<1>3. pushed[Len(pushed) + 1 - level] = list
  BY <1>1, <1>2
<1>4. ASSUME NEW h \in 1 .. Len(calls)
      PROVE  pushed[Len(pushed) + 1 - h] = calls[Len(calls) + 1 - h]
  <2>1. Len(calls) + 1 - h \in 1 .. Len(calls) /\ Len(pushed) + 1 - h = Len(calls) + 1 - h + 1
    BY <1>1, <1>2
  <2> QED
    BY <1>1, <2>1
<1>5. ASSUME NEW x \in DOMAIN TodoOf(calls)
      PROVE  x \in DOMAIN TodoOf(pushed) /\ TodoOf(pushed)[x] = TodoOf(calls)[x]
  <2>1. PICK h \in 1 .. Len(calls) :
               \E e \in 1 .. Len(calls[Len(calls) + 1 - h]) : x = <<h, e>>
    BY <1>1, TodoDomain
  <2>2. PICK e \in 1 .. Len(calls[Len(calls) + 1 - h]) : x = <<h, e>>
    BY <2>1
  <2>3. h \in 1 .. Len(pushed)
    BY <1>1, <1>2
  <2>4. <<h, e>> \in DOMAIN TodoOf(pushed)
    BY <1>1, <1>4, <2>3, TodoDomain
  <2>5. pushed[Len(pushed) + 1 - h] = calls[Len(calls) + 1 - h]
    BY <1>4
  <2> QED
    BY <1>1, <2>2, <2>4, <2>5, SameList
<1>6. ASSUME NEW e \in 1 .. Len(list)
      PROVE  /\ <<level, e>> \in DOMAIN TodoOf(pushed)
             /\ TodoOf(pushed)[<<level, e>>] = list[Len(list) + 1 - e]
  <2>1. level \in 1 .. Len(pushed)
    BY <1>1, <1>2
  <2>2. <<level, e>> \in DOMAIN TodoOf(pushed)
    BY <1>1, <1>3, <2>1, TodoDomain
  <2> QED
    BY <1>1, <1>3, <2>2, TodoValue
<1>7. ASSUME NEW x \in DOMAIN TodoOf(pushed)
      PROVE  x \in DOMAIN TodoOf(calls) \cup ({level} \X (1 .. Len(list)))
  <2>1. PICK h \in 1 .. Len(pushed) :
               \E e \in 1 .. Len(pushed[Len(pushed) + 1 - h]) : x = <<h, e>>
    BY <1>1, TodoDomain
  <2>2. PICK e \in 1 .. Len(pushed[Len(pushed) + 1 - h]) : x = <<h, e>>
    BY <2>1
  <2>3. CASE h = level
    <3>1. e \in 1 .. Len(list)
      BY <1>3, <2>2, <2>3
    <3> QED
      BY <2>2, <2>3, <3>1
  <2>4. CASE h # level
    <3>1. h \in 1 .. Len(calls)
      BY <1>1, <1>2, <2>4
    <3>2. e \in 1 .. Len(calls[Len(calls) + 1 - h])
      BY <1>4, <2>2, <3>1
    <3> QED
      BY <1>1, <2>2, <3>1, <3>2, TodoDomain
  <2> QED
    BY <2>3, <2>4
<1>8. \A x \in {level} \X (1 .. Len(list)) : \E e \in 1 .. Len(list) : x = <<level, e>>
  OBVIOUS
<1>9. DOMAIN TodoOf(pushed) = DOMAIN TodoOf(calls) \cup ({level} \X (1 .. Len(list)))
  <2>1. \A x \in {level} \X (1 .. Len(list)) : x \in DOMAIN TodoOf(pushed)
    BY <1>6, <1>8
  <2> QED
    BY <1>5, <1>7, <2>1
<1> QED
  BY <1>5, <1>6, <1>9 DEF Adds

\* A stack is its innermost list pushed on the others.
LEMMA InnermostFirst ==
  ASSUME NEW calls \in Calls, calls # <<>>
  PROVE  IsPush(Tail(calls), Head(calls), calls)
<1>1. /\ Head(calls) \in Seq(RunListItem) /\ Tail(calls) \in Calls
      /\ Len(Tail(calls)) = Len(calls) - 1
      /\ \A i \in 1 .. Len(Tail(calls)) : Tail(calls)[i] = calls[i + 1]
  BY HeadTailProperties DEF Calls
<1>2. Len(calls) \in Nat /\ Len(calls) # 0 /\ Head(calls) = calls[1]
  BY EmptySeq, LenProperties DEF Calls
<1> QED
  BY <1>1, <1>2 DEF IsPush

\* The first entry of the list at the highest level is taken, the one farthest
\* from its end.
TakesFirst(todo, level, list, less) ==
  LET top == <<level, Len(list)>>
  IN  /\ Head(list) \in RunListItem
      /\ top \in DOMAIN todo /\ todo[top] = Head(list)
      /\ DOMAIN less = DOMAIN todo \ {top}
      /\ \A x \in DOMAIN less : less[x] = todo[x]
      /\ \A h, e : <<h, e>> \in DOMAIN todo =>
           h \in 1 .. level /\ e \in Nat /\ (h = level => e <= Len(list))

\* So it is when the innermost list loses its first entry.
LEMMA TodoTail ==
  ASSUME NEW outer, NEW inner, NEW calls, NEW shifted, inner # <<>>,
         IsPush(outer, inner, calls), IsPush(outer, Tail(inner), shifted)
  PROVE  TakesFirst(TodoOf(calls), Len(calls), inner, TodoOf(shifted))
<1> DEFINE level == Len(calls)
<1>1. outer \in Calls /\ inner \in Seq(RunListItem)
  BY DEF IsPush
<1>2. Len(outer) \in Nat /\ level = Len(outer) + 1 /\ level = Len(shifted)
  BY <1>1, LenProperties DEF IsPush, Calls
<1>3. /\ Head(inner) \in RunListItem
      /\ Len(Tail(inner)) = Len(inner) - 1
      /\ \A i \in 1 .. Len(Tail(inner)) : Tail(inner)[i] = inner[i + 1]
  BY <1>1, HeadTailProperties
<1>4. Len(inner) \in Nat /\ Len(inner) # 0 /\ Head(inner) = inner[1]
  BY <1>1, EmptySeq, LenProperties
<1>5. /\ DOMAIN TodoOf(calls) = DOMAIN TodoOf(outer) \cup ({level} \X (1 .. Len(inner)))
      /\ \A x \in DOMAIN TodoOf(outer) : TodoOf(calls)[x] = TodoOf(outer)[x]
      /\ \A e \in 1 .. Len(inner) : TodoOf(calls)[<<level, e>>] = inner[Len(inner) + 1 - e]
  <2>1. Adds(TodoOf(outer), Len(calls), inner, TodoOf(calls))
    BY TodoPushed
  <2> QED
    BY <2>1 DEF Adds
<1>6. /\ DOMAIN TodoOf(shifted) = DOMAIN TodoOf(outer) \cup ({level} \X (1 .. Len(Tail(inner))))
      /\ \A x \in DOMAIN TodoOf(outer) : TodoOf(shifted)[x] = TodoOf(outer)[x]
      /\ \A e \in 1 .. Len(Tail(inner)) :
           TodoOf(shifted)[<<level, e>>] = Tail(inner)[Len(Tail(inner)) + 1 - e]
  <2>1. Adds(TodoOf(outer), Len(shifted), Tail(inner), TodoOf(shifted))
    BY TodoPushed
  <2> QED
    BY <1>2, <2>1 DEF Adds
<1>8. ASSUME NEW h, NEW e, <<h, e>> \in DOMAIN TodoOf(outer)
      PROVE  h \in 1 .. Len(outer) /\ e \in Nat
  <2>1. h \in 1 .. Len(outer) /\ e \in 1 .. Len(outer[Len(outer) + 1 - h])
    BY <1>1, <1>8, TodoDomain
  <2> QED
    BY <2>1
<1> HIDE DEF level
<1>9. <<level, Len(inner)>> \in DOMAIN TodoOf(calls)
      /\ TodoOf(calls)[<<level, Len(inner)>>] = Head(inner)
  <2>1. Len(inner) \in 1 .. Len(inner) /\ Len(inner) + 1 - Len(inner) = 1
    BY <1>4
  <2>2. <<level, Len(inner)>> \in {level} \X (1 .. Len(inner))
    BY <2>1
  <2> QED
    BY <1>4, <1>5, <2>1, <2>2
<1>10. \A e \in 1 .. Len(Tail(inner)) : TodoOf(shifted)[<<level, e>>] = TodoOf(calls)[<<level, e>>]
  <2> SUFFICES ASSUME NEW e \in 1 .. Len(Tail(inner))
               PROVE  TodoOf(shifted)[<<level, e>>] = TodoOf(calls)[<<level, e>>]
    OBVIOUS
  <2> DEFINE k == Len(Tail(inner)) + 1 - e
  <2>1. k \in 1 .. Len(Tail(inner)) /\ e \in 1 .. Len(inner) /\ k + 1 = Len(inner) + 1 - e
    BY <1>3, <1>4
  <2>2. Tail(inner)[k] = inner[Len(inner) + 1 - e]
    BY <1>3, <2>1
  <2> QED
    BY <1>5, <1>6, <2>1, <2>2
<1>11. \A x \in {level} \X (1 .. Len(Tail(inner))) : TodoOf(shifted)[x] = TodoOf(calls)[x]
  <2>1. \A x \in {level} \X (1 .. Len(Tail(inner))) : \E e \in 1 .. Len(Tail(inner)) : x = <<level, e>>
    OBVIOUS
  <2> QED
    BY <1>10, <2>1
<1>12. \A x \in DOMAIN TodoOf(shifted) : TodoOf(shifted)[x] = TodoOf(calls)[x]
  BY <1>5, <1>6, <1>11
<1>13. {level} \X (1 .. Len(Tail(inner))) = ({level} \X (1 .. Len(inner))) \ {<<level, Len(inner)>>}
  <2>1. 1 .. Len(Tail(inner)) = (1 .. Len(inner)) \ {Len(inner)}
    BY <1>3, <1>4
  <2> QED
    BY <2>1
<1>14. <<level, Len(inner)>> \notin DOMAIN TodoOf(outer)
  BY <1>2, <1>8
<1>15. DOMAIN TodoOf(shifted) = DOMAIN TodoOf(calls) \ {<<level, Len(inner)>>}
  BY <1>5, <1>6, <1>13, <1>14
<1>16. ASSUME NEW h, NEW e, <<h, e>> \in DOMAIN TodoOf(calls)
       PROVE  h \in 1 .. level /\ e \in Nat /\ (h = level => e <= Len(inner))
  <2>1. CASE <<h, e>> \in DOMAIN TodoOf(outer)
    BY <1>2, <1>8, <2>1
  <2>2. CASE <<h, e>> \in {level} \X (1 .. Len(inner))
    <3>1. h = level /\ e \in 1 .. Len(inner)
      BY <2>2
    <3> QED
      BY <1>2, <1>4, <3>1
  <2> QED
    BY <1>5, <1>16, <2>1, <2>2
<1> QED
  BY <1>3, <1>9, <1>12, <1>15, <1>16 DEF level, TakesFirst

\* A list that is done leaves nothing behind.
LEMMA TodoPopped ==
  ASSUME NEW calls \in Calls, calls # <<>>, Head(calls) = <<>>
  PROVE  Tail(calls) \in Calls /\ TodoOf(Tail(calls)) = TodoOf(calls)
<1>1. IsPush(Tail(calls), Head(calls), calls) /\ Tail(calls) \in Calls
  BY InnermostFirst DEF IsPush
<1>2. Len(Head(calls)) = 0
  BY EmptySeq
<1>3. /\ DOMAIN TodoOf(calls) =
           DOMAIN TodoOf(Tail(calls)) \cup ({Len(calls)} \X (1 .. Len(Head(calls))))
      /\ \A x \in DOMAIN TodoOf(Tail(calls)) : TodoOf(calls)[x] = TodoOf(Tail(calls))[x]
  <2>1. Adds(TodoOf(Tail(calls)), Len(calls), Head(calls), TodoOf(calls))
    BY <1>1, TodoPushed
  <2> QED
    BY <2>1 DEF Adds
<1>4. 1 .. Len(Head(calls)) = {}
  BY <1>2
<1>5. DOMAIN TodoOf(calls) = DOMAIN TodoOf(Tail(calls))
  BY <1>3, <1>4
<1>6. /\ TodoOf(calls) = [x \in DOMAIN TodoOf(calls) |-> TodoOf(calls)[x]]
      /\ TodoOf(Tail(calls)) = [x \in DOMAIN TodoOf(Tail(calls)) |-> TodoOf(Tail(calls))[x]]
  BY DEF TodoOf
<1> QED
  BY <1>1, <1>3, <1>5, <1>6

\* Without a call nothing is left.
LEMMA TodoEmpty == DOMAIN TodoOf(<<>>) = {}
<1>1. <<>> \in Calls /\ Len(<<>>) = 0
  BY EmptySeq DEF Calls
<1>2. ~ \E h \in 1 .. Len(<<>>) : TRUE
  BY <1>1
<1>3. \A x \in DOMAIN TodoOf(<<>>) : \E h \in 1 .. Len(<<>>) : TRUE
  BY <1>1, TodoDomain
<1> QED
  BY <1>2, <1>3

\* Finitely many finite sets have finitely many members.
LEMMA FiniteFamily ==
  ASSUME NEW S, IsFiniteSet(S), NEW f, \A x \in S : IsFiniteSet(f[x])
  PROVE  IsFiniteSet(UNION {f[x] : x \in S})
<1> DEFINE T == {f[x] : x \in S}
           g == [x \in S |-> f[x]]
<1>1. g \in Surjection(S, T)
  BY DEF Surjection
<1>2. IsFiniteSet(T)
  BY <1>1, FS_Surjection
<1> QED
  BY <1>2, FS_UNION

\* Finitely many entries are left.
LEMMA TodoFinite ==
  ASSUME NEW calls \in Calls
  PROVE  IsFiniteSet(DOMAIN TodoOf(calls))
<1> DEFINE f == [h \in 1 .. Len(calls) |-> {h} \X (1 .. Len(calls[Len(calls) + 1 - h]))]
<1>1. IsFiniteSet(1 .. Len(calls))
  BY CountUpTo, ListsOfCalls
<1>2. ASSUME NEW h \in 1 .. Len(calls)
      PROVE  IsFiniteSet(f[h])
  <2>1. IsFiniteSet({h})
    BY FS_Singleton
  <2>2. IsFiniteSet(1 .. Len(calls[Len(calls) + 1 - h]))
    BY CountUpTo, ListsOfCalls
  <2>3. IsFiniteSet({h} \X (1 .. Len(calls[Len(calls) + 1 - h])))
    BY <2>1, <2>2, FS_Product
  <2> QED
    BY <2>3
<1>3. DOMAIN TodoOf(calls) = UNION {f[h] : h \in 1 .. Len(calls)}
  BY DEF TodoOf
<1> HIDE DEF f
<1>4. IsFiniteSet(UNION {f[h] : h \in 1 .. Len(calls)})
  BY <1>1, <1>2, FiniteFamily
<1> QED
  BY <1>3, <1>4

-----------------------------------------------------------------------------
(* What steps do to what is left *)

\* A call takes the first entry of the innermost list.
Top == <<Len(stack), Len(Head(stack))>>
TakesTop ==
  /\ stack' \in Calls /\ stack' # <<>>
  /\ TakesFirst(Todo, Len(stack), Head(stack), Todo')

\* So does every step that leaves the rest of that list.
LEMMA TakeEntry ==
  ASSUME TypeOK, NEW itemType, HasEntry(itemType), stack' = Shifted
  PROVE  TakesTop
<1>1. stack \in Calls /\ stack # <<>> /\ Head(stack) # <<>>
  BY DEF TypeOK, HasEntry, Calls
<1>2. IsPush(Tail(stack), Head(stack), stack)
  BY <1>1, InnermostFirst
<1>3. Tail(Head(stack)) \in Seq(RunListItem) /\ Tail(stack) \in Calls
  BY <1>1, <1>2, HeadTailProperties DEF IsPush
<1>4. IsPush(Tail(stack), Tail(Head(stack)), stack')
  BY <1>3, PushedCalls DEF Shifted
<1>5. stack' \in Calls /\ stack' # <<>>
  <2>1. stack' \in Calls /\ Len(stack') = Len(Tail(stack)) + 1
    BY <1>4 DEF IsPush
  <2>2. Len(Tail(stack)) \in Nat
    BY <1>3, LenProperties DEF Calls
  <2>3. Len(<<>>) = 0
    BY EmptySeq
  <2> QED
    BY <2>1, <2>2, <2>3
<1> QED
  <2>1. TakesFirst(TodoOf(stack), Len(stack), Head(stack), TodoOf(stack'))
    BY <1>1, <1>2, <1>4, TodoTail
  <2> QED
    BY <1>5, <2>1 DEF TakesTop, Todo

\* A list is expanded by a call of its own.
LEMMA PushList ==
  ASSUME TypeOK, NEW list \in Seq(RunListItem), stack' = <<list>> \o stack
  PROVE  /\ stack' \in Calls
         /\ Adds(Todo, Len(stack) + 1, list, Todo')
<1>1. IsPush(stack, list, stack')
  BY PushedCalls DEF TypeOK, Calls
<1>2. Adds(TodoOf(stack), Len(stack'), list, TodoOf(stack'))
  BY <1>1, TodoPushed
<1> QED
  BY <1>1, <1>2 DEF IsPush, Todo

\* The entries that are added are those of the list.
Grows(todo, level, list, more) ==
  /\ DOMAIN todo \subseteq DOMAIN more
  /\ \A x \in DOMAIN todo : more[x] = todo[x]
  /\ \A x \in DOMAIN more :
       x \in DOMAIN todo \/ \E k \in DOMAIN list : x[1] = level /\ more[x] = list[k]
  /\ \A k \in DOMAIN list : \E x \in DOMAIN more : x[1] = level /\ more[x] = list[k]

\* So it is when a list is added.
LEMMA AddsEntries ==
  ASSUME NEW todo, NEW level, NEW list \in Seq(RunListItem), NEW more,
         Adds(todo, level, list, more)
  PROVE  Grows(todo, level, list, more)
<1>1. DOMAIN list = 1 .. Len(list) /\ Len(list) \in Nat
  BY LenProperties
<1>2. ASSUME NEW e \in 1 .. Len(list)
      PROVE  /\ Len(list) + 1 - e \in DOMAIN list
             /\ <<level, e>> \in DOMAIN more
             /\ more[<<level, e>>] = list[Len(list) + 1 - e]
  <2>1. <<level, e>> \in {level} \X (1 .. Len(list))
    OBVIOUS
  <2> QED
    BY <1>1, <2>1 DEF Adds
<1>3. ASSUME NEW x \in DOMAIN more, x \notin DOMAIN todo
      PROVE  \E k \in DOMAIN list : x[1] = level /\ more[x] = list[k]
  <2>1. x \in {level} \X (1 .. Len(list))
    BY <1>3 DEF Adds
  <2>2. PICK e \in 1 .. Len(list) : x = <<level, e>>
    BY <2>1
  <2> QED
    BY <1>2, <2>2
<1>4. ASSUME NEW k \in DOMAIN list
      PROVE  \E x \in DOMAIN more : x[1] = level /\ more[x] = list[k]
  <2>1. Len(list) + 1 - k \in 1 .. Len(list) /\ Len(list) + 1 - (Len(list) + 1 - k) = k
    BY <1>1
  <2>2. <<level, Len(list) + 1 - k>> \in DOMAIN more
        /\ more[<<level, Len(list) + 1 - k>>] = list[k]
    BY <1>2, <2>1
  <2> QED
    BY <2>2
<1> QED
  BY <1>3, <1>4 DEF Adds, Grows

-----------------------------------------------------------------------------
(* Types, and what is known of roles *)

\* The list of a role that ought to be seen is a run list.
LEMMA SeenType ==
  ASSUME TypeOK, NEW r \in RoleNames
  PROVE  ShouldSee(r) \in Seq(RunListItem)
<1>1. roles \in Servers
  BY DEF TypeOK
<1>2. IsRole(roles[r])
  BY <1>1, RunListAssumption
<1>3. roles[r].RunList \in Seq(RunListString)
      /\ \A env \in DOMAIN roles[r].EnvRunLists : roles[r].EnvRunLists[env] \in Seq(RunListString)
  BY <1>2 DEF IsRole
<1>4. <<>> \in Seq(RunListString)
  BY EmptySeq
<1>5. CASE r \in failed
  BY <1>4, <1>5, ParsedType DEF ShouldSee
<1>6. CASE r \notin failed /\ environment \in DOMAIN roles[r].EnvRunLists \ {DefaultEnvironment}
  BY <1>3, <1>6, ParsedType DEF ShouldSee
<1>7. CASE r \notin failed /\ environment \notin DOMAIN roles[r].EnvRunLists \ {DefaultEnvironment}
  BY <1>3, <1>7, ParsedType DEF ShouldSee
<1> QED
  BY <1>5, <1>6, <1>7

\* So is the configured list.
LEMMA ConfiguredType ==
  ASSUME TypeOK
  PROVE  Configured \in Seq(RunListItem)
BY ParsedType, RunListAssumption DEF TypeOK, Configured

\* A role that does not fail now is seen as before.
LEMMA SameSeen ==
  ASSUME UNCHANGED given, NEW r, r \in failed' <=> r \in failed
  PROVE  ShouldSee(r)' = ShouldSee(r)
BY DEF given, ShouldSee

\* The configured list does not change.
LEMMA SameConfigured ==
  ASSUME UNCHANGED given
  PROVE  Configured' = Configured
BY DEF given, Configured

\* Of nothing nothing is parsed.
LEMMA NothingParsed == parseRunList(<<>>) = <<>>
<1>1. <<>> \in Seq(RunListString) /\ Len(<<>>) = 0
  BY EmptySeq
<1>2. \A k \in DOMAIN <<>> : FALSE
  BY <1>1, LenProperties
<1>3. parseRunList(<<>>) = [k \in 1 .. Len(<<>>) |-> ParseItem(<<>>[k])]
  BY <1>1, <1>2, ParsedWhole
<1>4. [k \in 1 .. Len(<<>>) |-> ParseItem(<<>>[k])] = <<>>
  BY <1>1
<1> QED
  BY <1>3, <1>4

\* What roleRunListFor returns is what ought to be seen.
LEMMA RoleArrives ==
  ASSUME TypeOK, Asking, GetRole, NEW r, r = fetching
  PROVE  /\ r \in appliedRoles /\ r \in RoleNames /\ r \notin Known
         /\ stack # <<>>
         /\ Known' = Known \cup {r}
         /\ stack' = <<ShouldSee(r)'>> \o stack
         /\ \A q : q # r => ShouldSee(q)' = ShouldSee(q)
         /\ ShouldSee(r)' = <<>> \/ ShouldSee(r)' = ShouldSee(r)
<1>1. fetching # Nobody /\ fetching' = Nobody /\ UNCHANGED <<given, recipes, appliedRoles, fetches>>
  BY DEF GetRole
<1>2. r \in appliedRoles /\ r \in RoleNames /\ r \notin Known /\ stack # <<>> /\ r \notin failed
  BY <1>1 DEF Asking, TypeOK, Known
<1>3. Known' = Known \cup {r}
  BY <1>1, <1>2, NobodyAssumption DEF Known, TypeOK
<1>4. PICK ok \in BOOLEAN :
        /\ stack' = <<RunListOf(IF ok THEN roles[fetching] ELSE NoRole)>> \o stack
        /\ failed' = IF ok THEN failed ELSE failed \cup {fetching}
  BY DEF GetRole
<1>5. ASSUME NEW q, q # r
      PROVE  ShouldSee(q)' = ShouldSee(q)
  BY <1>1, <1>4, <1>5, SameSeen
<1>6. CASE ok
  <2>1. ShouldSee(r)' = ShouldSee(r)
    BY <1>1, <1>4, <1>6, SameSeen
  <2>2. RunListOf(roles[r]) = ShouldSee(r)
    BY <1>2 DEF RunListOf, ShouldSee
  <2> QED
    BY <1>2, <1>3, <1>4, <1>5, <1>6, <2>1, <2>2
<1>7. CASE ~ok
  <2>1. r \in failed'
    BY <1>4, <1>7
  <2>2. ShouldSee(r)' = <<>>
    BY <2>1, NothingParsed DEF ShouldSee
  <2>3. RunListOf(NoRole) = <<>>
    BY NothingParsed DEF RunListOf, NoRole
  <2> QED
    BY <1>2, <1>3, <1>4, <1>5, <1>7, <2>1, <2>2, <2>3
<1> QED
  BY <1>6, <1>7

\* What a step that takes an entry does.
LEMMA TopTaken ==
  ASSUME TakesTop
  PROVE  /\ stack' \in Calls /\ stack' # <<>>
         /\ Entry \in RunListItem
         /\ Top \in DOMAIN Todo /\ Todo[Top] = Entry
         /\ DOMAIN Todo' = DOMAIN Todo \ {Top}
         /\ \A x \in DOMAIN Todo' : Todo'[x] = Todo[x]
         /\ \A h, e : <<h, e>> \in DOMAIN Todo =>
              h \in 1 .. Len(stack) /\ e \in Nat /\ (h = Len(stack) => e <= Len(Head(stack)))
BY DEF TakesTop, TakesFirst, Top, Entry

-----------------------------------------------------------------------------
(* The roles that are reached *)

\* A role that is taken is applied, before the step or by it.
LEMMA TakenRoles ==
  ASSUME TakesTop,
         appliedRoles' = appliedRoles \cup (IF Entry.itemType = "role" THEN {Entry.name} ELSE {})
  PROVE  appliedRoles' \cup TodoRoles' = appliedRoles \cup TodoRoles
<1>1. /\ Top \in DOMAIN Todo /\ Todo[Top] = Entry
      /\ DOMAIN Todo' = DOMAIN Todo \ {Top}
      /\ \A x \in DOMAIN Todo' : Todo'[x] = Todo[x]
  BY TopTaken
<1>2. TodoRoles' \subseteq TodoRoles
  BY <1>1 DEF TodoRoles
<1>3. \A r \in TodoRoles : r \in TodoRoles' \/ (Entry.itemType = "role" /\ r = Entry.name)
  BY <1>1 DEF TodoRoles
<1>4. Entry.itemType = "role" => Entry.name \in TodoRoles
  BY <1>1 DEF TodoRoles
<1> QED
  BY <1>2, <1>3, <1>4

\* As long as no list of a role arrives, the closed sets stay the same.
LEMMA SameReach ==
  ASSUME UNCHANGED given, failed' = failed, Known' = Known,
         appliedRoles' \cup TodoRoles' = appliedRoles \cup TodoRoles,
         OnlyReached, AllReached
  PROVE  OnlyReached' /\ AllReached'
<1>1. \A r : ShouldSee(r)' = ShouldSee(r)
  BY SameSeen
<1>2. Configured' = Configured
  BY SameConfigured
<1>3. \A set : ClosedSoFar(set)' = ClosedSoFar(set)
  BY <1>1, <1>2 DEF ClosedSoFar, RolesOf
<1> QED
  BY <1>3 DEF OnlyReached, AllReached

\* What arrives is a run list, and adds its entries to what is left.
LEMMA ArrivedList ==
  ASSUME TypeOK, Asking, GetRole, NEW r, r = fetching
  PROVE  /\ ShouldSee(r)' \in Seq(RunListItem)
         /\ stack' \in Calls
         /\ Adds(Todo, Len(stack) + 1, ShouldSee(r)', Todo')
         /\ Grows(Todo, Len(stack) + 1, ShouldSee(r)', Todo')
<1>1. /\ r \in RoleNames /\ (ShouldSee(r)' = <<>> \/ ShouldSee(r)' = ShouldSee(r))
      /\ stack' = <<ShouldSee(r)'>> \o stack
  BY RoleArrives
<1>2. ShouldSee(r)' \in Seq(RunListItem)
  BY <1>1, SeenType, EmptySeq
<1>3. stack' \in Calls /\ Adds(Todo, Len(stack) + 1, ShouldSee(r)', Todo')
  BY <1>1, <1>2, PushList
<1>4. Grows(Todo, Len(stack) + 1, ShouldSee(r)', Todo')
  BY <1>2, <1>3, AddsEntries
<1> QED
  BY <1>2, <1>3, <1>4

\* The roles of a list that arrives are reached through its role.
LEMMA ArrivedReach ==
  ASSUME TypeOK, Asking, GetRole, OnlyReached, AllReached
  PROVE  OnlyReached' /\ AllReached'
<1>1. PICK r : r = fetching
  OBVIOUS
<1>2. /\ r \in appliedRoles /\ r \in RoleNames /\ r \notin Known
      /\ Known' = Known \cup {r}
      /\ \A q : q # r => ShouldSee(q)' = ShouldSee(q)
  BY <1>1, RoleArrives
<1>3. appliedRoles' = appliedRoles /\ UNCHANGED given
  BY DEF GetRole
<1>6. Grows(Todo, Len(stack) + 1, ShouldSee(r)', Todo')
  BY <1>1, ArrivedList
<1>7. TodoRoles' = TodoRoles \cup RolesOf(ShouldSee(r)')
  BY <1>6 DEF TodoRoles, RolesOf, Grows
<1>8. Configured' = Configured
  BY <1>3, SameConfigured
<1>9. ASSUME NEW set
      PROVE  ClosedSoFar(set)' <=>
               ClosedSoFar(set) /\ (r \in set => RolesOf(ShouldSee(r)') \subseteq set)
  <2>1. \A q \in Known : ShouldSee(q)' = ShouldSee(q)
    BY <1>2
  <2> QED
    BY <1>2, <1>8, <2>1 DEF ClosedSoFar
<1>10. OnlyReached'
  <2> SUFFICES ASSUME NEW set \in SUBSET RoleNames, ClosedSoFar(set)'
               PROVE  appliedRoles \cup TodoRoles \cup RolesOf(ShouldSee(r)') \subseteq set
    BY <1>3, <1>7 DEF OnlyReached
  <2>1. appliedRoles \cup TodoRoles \subseteq set
    BY <1>9 DEF OnlyReached
  <2> QED
    BY <1>2, <1>9, <2>1
<1>11. AllReached'
  <2> DEFINE reached == appliedRoles \cup TodoRoles
  <2>1. ClosedSoFar(reached)
    BY DEF AllReached
  <2>2. ClosedSoFar(reached \cup RolesOf(ShouldSee(r)'))
    BY <2>1, <1>2 DEF ClosedSoFar, Known
  <2> QED
    BY <1>2, <1>3, <1>7, <1>9, <2>2 DEF AllReached
<1> QED
  BY <1>10, <1>11

-----------------------------------------------------------------------------
(* The order of the result *)

\* A role that is taken leaves the order as it is.
LEMMA RoleTakenOrder ==
  ASSUME TypeOK, Outermost, Inner, OrderSoFar, TakesTop, Entry.itemType = "role",
         UNCHANGED <<given, recipes, failed>>, Known' = Known,
         appliedRoles' = appliedRoles \cup {Entry.name}
  PROVE  Outermost' /\ Inner' /\ OrderSoFar'
<1>1. /\ Top \in DOMAIN Todo /\ Todo[Top] = Entry
      /\ DOMAIN Todo' = DOMAIN Todo \ {Top}
      /\ \A x \in DOMAIN Todo' : Todo'[x] = Todo[x]
  BY TopTaken
<1>2. Configured' = Configured /\ \A r : ShouldSee(r)' = ShouldSee(r)
  BY SameConfigured, SameSeen
<1>3. DOMAIN Configured = 1 .. Len(Configured) /\ Len(Configured) \in Nat
  BY ConfiguredType, LenProperties
<1>4. ASSUME NEW m \in DOMAIN Configured, Behind(m)'
      PROVE  Behind(m) \/ Configured[m] = Entry
  <2>1. <<1, Len(Configured) + 1 - m>> \notin DOMAIN Todo'
    BY <1>2, <1>4 DEF Behind
  <2>2. CASE <<1, Len(Configured) + 1 - m>> = Top
    <3>1. Len(Configured) + 1 - m \in Nat /\ Len(Configured) + 1 - (Len(Configured) + 1 - m) = m
      BY <1>3
    <3>2. Todo[<<1, Len(Configured) + 1 - m>>] = Configured[m]
      BY <1>1, <2>2, <3>1 DEF Outermost
    <3> QED
      BY <1>1, <2>2, <3>2
  <2> QED
    BY <1>1, <2>1, <2>2 DEF Behind
<1>5. Outermost'
  <2>1. \A e \in Nat : <<1, e>> \in DOMAIN Todo' =>
          e \in 1 .. Len(Configured) /\ Todo'[<<1, e>>] = Configured[Len(Configured) + 1 - e]
    BY <1>1 DEF Outermost
  <2>2. \A m \in DOMAIN Configured :
          Behind(m)' /\ Configured[m].itemType = "role" => Configured[m].name \in appliedRoles'
    BY <1>4 DEF Outermost
  <2> QED
    BY <1>2, <2>1, <2>2 DEF Outermost
<1>6. Inner'
  <2> SUFFICES ASSUME NEW r \in Known, NEW e \in DOMAIN ShouldSee(r),
                      NEW item, item = ShouldSee(r)[e], item.itemType = "recipe"
               PROVE  \/ \E k \in DOMAIN recipes : recipes[k] = RecipeString(item)
                      \/ \E x \in DOMAIN Todo' : x[1] # 1 /\ Todo'[x] = item
    BY <1>2 DEF Inner
  <2>1. \/ \E k \in DOMAIN recipes : recipes[k] = RecipeString(item)
        \/ \E x \in DOMAIN Todo : x[1] # 1 /\ Todo[x] = item
    BY DEF Inner
  <2> QED
    BY <1>1, <2>1
<1>7. OrderSoFar'
  <2>1. \A n \in DOMAIN Configured :
          Behind(n)' /\ Configured[n].itemType = "recipe" => Behind(n)
    BY <1>4
  <2> QED
    BY <1>2, <2>1 DEF OrderSoFar
<1> QED
  BY <1>5, <1>6, <1>7

\* A list that arrives adds to what inner calls have left.
LEMMA ArrivedOrder ==
  ASSUME TypeOK, Asking, GetRole, Outermost, Inner, OrderSoFar
  PROVE  Outermost' /\ Inner' /\ OrderSoFar'
<1>1. PICK r : r = fetching
  OBVIOUS
<1>2. /\ r \in appliedRoles /\ stack # <<>>
      /\ Known' = Known \cup {r}
      /\ \A q : q # r => ShouldSee(q)' = ShouldSee(q)
      /\ ShouldSee(r)' = <<>> \/ ShouldSee(r)' = ShouldSee(r)
      /\ r \notin Known
  BY <1>1, RoleArrives
<1>3. appliedRoles' = appliedRoles /\ recipes' = recipes /\ UNCHANGED given
  BY DEF GetRole
<1>4. Configured' = Configured
  BY <1>3, SameConfigured
<1>5. Len(stack) + 1 # 1
  BY <1>2, EmptySeq DEF TypeOK
<1>6. Grows(Todo, Len(stack) + 1, ShouldSee(r)', Todo')
  BY <1>1, ArrivedList
<1>7. ASSUME NEW m, Behind(m)'
      PROVE  Behind(m)
  BY <1>4, <1>6, <1>7 DEF Behind, Grows
<1>8. Outermost'
  <2>1. ASSUME NEW e \in Nat, <<1, e>> \in DOMAIN Todo'
        PROVE  e \in 1 .. Len(Configured) /\ Todo'[<<1, e>>] = Configured[Len(Configured) + 1 - e]
    <3>1. <<1, e>> \in DOMAIN Todo
      BY <1>5, <1>6, <2>1 DEF Grows
    <3> QED
      BY <1>6, <3>1 DEF Outermost, Grows
  <2> QED
    BY <1>3, <1>4, <1>7, <2>1 DEF Outermost
<1>9. Inner'
  <2> SUFFICES ASSUME NEW q \in Known', NEW e \in DOMAIN ShouldSee(q)',
                      NEW item, item = ShouldSee(q)'[e], item.itemType = "recipe"
               PROVE  \/ \E k \in DOMAIN recipes : recipes[k] = RecipeString(item)
                      \/ \E x \in DOMAIN Todo' : x[1] # 1 /\ Todo'[x] = item
    BY <1>3 DEF Inner
  <2>1. CASE q = r
    BY <1>5, <1>6, <2>1 DEF Grows
  <2>2. CASE q # r
    <3>1. q \in Known /\ ShouldSee(q)' = ShouldSee(q)
      BY <1>2, <2>2
    <3>2. \/ \E k \in DOMAIN recipes : recipes[k] = RecipeString(item)
          \/ \E x \in DOMAIN Todo : x[1] # 1 /\ Todo[x] = item
      BY <3>1 DEF Inner
    <3> QED
      BY <1>6, <3>2 DEF Grows
  <2> QED
    BY <2>1, <2>2
<1>10. OrderSoFar'
  <2>1. \A q : ShouldSee(q)' = <<>> \/ ShouldSee(q)' = ShouldSee(q)
    BY <1>2
  <2>2. DOMAIN <<>> = {}
    OBVIOUS
  <2> SUFFICES ASSUME NEW m \in DOMAIN Configured, NEW n \in DOMAIN Configured,
                      m < n, Behind(n), Configured[m].itemType = "role",
                      Configured[n].itemType = "recipe"
               PROVE  \E k \in DOMAIN recipes :
                        /\ recipes[k] = RecipeString(Configured[n])
                        /\ \A e \in DOMAIN ShouldSee(Configured[m].name)' :
                             ShouldSee(Configured[m].name)'[e].itemType = "recipe" =>
                               \E before \in 1 .. k - 1 :
                                 recipes[before] = RecipeString(ShouldSee(Configured[m].name)'[e])
    BY <1>3, <1>4, <1>7 DEF OrderSoFar
  <2>3. PICK k \in DOMAIN recipes :
          /\ recipes[k] = RecipeString(Configured[n])
          /\ \A e \in DOMAIN ShouldSee(Configured[m].name) :
               ShouldSee(Configured[m].name)[e].itemType = "recipe" =>
                 \E before \in 1 .. k - 1 :
                   recipes[before] = RecipeString(ShouldSee(Configured[m].name)[e])
    BY DEF OrderSoFar
  <2>4. PICK q : q = Configured[m].name
    OBVIOUS
  <2>5. CASE ShouldSee(q)' = <<>>
    BY <1>4, <2>2, <2>3, <2>4, <2>5
  <2>6. CASE ShouldSee(q)' = ShouldSee(q)
    BY <1>4, <2>3, <2>4, <2>6
  <2> QED
    BY <2>1, <2>5, <2>6
<1> QED
  BY <1>8, <1>9, <1>10

\* What AddRecipe does to the result.
LEMMA RecipeAdded ==
  ASSUME TypeOK, AddRecipe
  PROVE  /\ TakesTop /\ Entry \in RunListItem /\ Entry.itemType = "recipe" /\ fetching = Nobody
         /\ recipes' \in Seq(RunListString) /\ RecipeString(Entry) \in RunListString
         /\ Len(recipes) \in Nat
         /\ DOMAIN recipes = 1 .. Len(recipes) /\ DOMAIN recipes' = 1 .. Len(recipes) + 1
         /\ \A k \in DOMAIN recipes : recipes'[k] = recipes[k]
         /\ recipes'[Len(recipes) + 1] = RecipeString(Entry)
         /\ UNCHANGED <<given, fetching, appliedRoles, history>>
         /\ Known' = Known
<1>1. HasEntry("recipe") /\ stack' = Shifted /\ recipes' = Append(recipes, RecipeString(Entry))
      /\ UNCHANGED <<given, fetching, appliedRoles, history>>
  BY DEF AddRecipe
<1>2. TakesTop /\ Entry.itemType = "recipe" /\ fetching = Nobody
  BY <1>1, TakeEntry DEF HasEntry, Entry
<1>3. Entry \in RunListItem
  BY <1>2, TopTaken
<1>4. RecipeString(Entry) \in RunListString
  BY <1>2, <1>3 DEF RunListItem, RecipeString, RunListString
<1>5. recipes \in Seq(RunListString)
  BY DEF TypeOK
<1>6. /\ recipes' \in Seq(RunListString) /\ Len(recipes') = Len(recipes) + 1
      /\ \A k \in 1 .. Len(recipes) : recipes'[k] = recipes[k]
      /\ recipes'[Len(recipes) + 1] = RecipeString(Entry)
  BY <1>1, <1>4, <1>5, AppendProperties
<1>7. /\ Len(recipes) \in Nat /\ DOMAIN recipes = 1 .. Len(recipes)
      /\ DOMAIN recipes' = 1 .. Len(recipes')
  BY <1>5, <1>6, LenProperties
<1>8. Known' = Known
  BY <1>1 DEF Known
<1> QED
  BY <1>1, <1>2, <1>3, <1>4, <1>6, <1>7, <1>8

\* A recipe of the configured list is added when all roles before it are done.
LEMMA RecipeTakenOrder ==
  ASSUME TypeOK, Outermost, Inner, OrderSoFar, AddRecipe
  PROVE  Outermost' /\ Inner' /\ OrderSoFar'
<1>1. /\ Top \in DOMAIN Todo /\ Todo[Top] = Entry
      /\ DOMAIN Todo' = DOMAIN Todo \ {Top}
      /\ \A x \in DOMAIN Todo' : Todo'[x] = Todo[x]
      /\ \A h, e : <<h, e>> \in DOMAIN Todo =>
           h \in 1 .. Len(stack) /\ e \in Nat /\ (h = Len(stack) => e <= Len(Head(stack)))
  BY RecipeAdded, TopTaken
<1>2. /\ Entry.itemType = "recipe" /\ fetching = Nobody
      /\ Len(recipes) \in Nat
      /\ DOMAIN recipes = 1 .. Len(recipes) /\ DOMAIN recipes' = 1 .. Len(recipes) + 1
      /\ \A k \in DOMAIN recipes : recipes'[k] = recipes[k]
      /\ recipes'[Len(recipes) + 1] = RecipeString(Entry)
      /\ UNCHANGED <<given, fetching, appliedRoles, history>>
      /\ Known' = Known
  BY RecipeAdded
<1>3. Configured' = Configured /\ \A r : ShouldSee(r)' = ShouldSee(r)
  BY <1>2, SameConfigured, SameSeen DEF history
<1>4. DOMAIN Configured = 1 .. Len(Configured) /\ Len(Configured) \in Nat
  BY ConfiguredType, LenProperties
<1>5. ASSUME NEW m \in DOMAIN Configured, Behind(m)', ~Behind(m)
      PROVE  /\ Configured[m] = Entry
             /\ Top = <<1, Len(Configured) + 1 - m>>
  <2>1. <<1, Len(Configured) + 1 - m>> = Top
    BY <1>1, <1>3, <1>5 DEF Behind
  <2>2. Len(Configured) + 1 - m \in Nat /\ Len(Configured) + 1 - (Len(Configured) + 1 - m) = m
    BY <1>4
  <2>3. Todo[<<1, Len(Configured) + 1 - m>>] = Configured[m]
    BY <1>1, <2>1, <2>2 DEF Outermost
  <2> QED
    BY <1>1, <2>1, <2>3
<1>6. Outermost'
  <2>1. \A e \in Nat : <<1, e>> \in DOMAIN Todo' =>
          e \in 1 .. Len(Configured) /\ Todo'[<<1, e>>] = Configured[Len(Configured) + 1 - e]
    BY <1>1 DEF Outermost
  <2>2. \A m \in DOMAIN Configured :
          Behind(m)' /\ Configured[m].itemType = "role" => Configured[m].name \in appliedRoles'
    BY <1>2, <1>5 DEF Outermost
  <2> QED
    BY <1>3, <2>1, <2>2 DEF Outermost
<1>7. Inner'
  <2> SUFFICES ASSUME NEW r \in Known, NEW e \in DOMAIN ShouldSee(r),
                      NEW item, item = ShouldSee(r)[e], item.itemType = "recipe"
               PROVE  \/ \E k \in DOMAIN recipes' : recipes'[k] = RecipeString(item)
                      \/ \E x \in DOMAIN Todo' : x[1] # 1 /\ Todo'[x] = item
    BY <1>2, <1>3 DEF Inner
  <2>1. CASE \E k \in DOMAIN recipes : recipes[k] = RecipeString(item)
    BY <1>2, <2>1
  <2>2. CASE \E x \in DOMAIN Todo : x[1] # 1 /\ Todo[x] = item
    <3>1. PICK x \in DOMAIN Todo : x[1] # 1 /\ Todo[x] = item
      BY <2>2
    <3>2. CASE x = Top
      BY <1>1, <1>2, <3>1, <3>2
    <3>3. CASE x # Top
      BY <1>1, <3>1, <3>3
    <3> QED
      BY <3>2, <3>3
  <2> QED
    BY <2>1, <2>2 DEF Inner
<1>8. OrderSoFar'
  <2> DEFINE Before(m, k) ==
               \A e \in DOMAIN ShouldSee(Configured[m].name) :
                 ShouldSee(Configured[m].name)[e].itemType = "recipe" =>
                   \E before \in 1 .. k - 1 :
                     recipes'[before] = RecipeString(ShouldSee(Configured[m].name)[e])
  <2> SUFFICES ASSUME NEW m \in DOMAIN Configured, NEW n \in DOMAIN Configured,
                      m < n, Behind(n)', Configured[m].itemType = "role",
                      Configured[n].itemType = "recipe"
               PROVE  \E k \in DOMAIN recipes' :
                        recipes'[k] = RecipeString(Configured[n]) /\ Before(m, k)
    BY <1>3 DEF OrderSoFar
  <2>1. CASE Behind(n)
    <3>1. PICK k \in DOMAIN recipes :
            /\ recipes[k] = RecipeString(Configured[n])
            /\ \A e \in DOMAIN ShouldSee(Configured[m].name) :
                 ShouldSee(Configured[m].name)[e].itemType = "recipe" =>
                   \E before \in 1 .. k - 1 :
                     recipes[before] = RecipeString(ShouldSee(Configured[m].name)[e])
      BY <2>1 DEF OrderSoFar
    <3>2. k \in DOMAIN recipes' /\ recipes'[k] = recipes[k]
          /\ \A before \in 1 .. k - 1 : recipes'[before] = recipes[before]
      BY <1>2
    <3>3. Before(m, k)
      BY <3>1, <3>2
    <3> QED
      BY <3>1, <3>2, <3>3
  <2>2. CASE ~Behind(n)
    <3>1. Configured[n] = Entry /\ Top = <<1, Len(Configured) + 1 - n>>
      BY <1>5, <2>2
    <3>2. Len(stack) = 1 /\ Len(Head(stack)) = Len(Configured) + 1 - n
      BY <3>1 DEF Top
    <3>3. Behind(m)
      <4>1. Len(Configured) + 1 - m > Len(Configured) + 1 - n
        BY <1>4
      <4>2. <<1, Len(Configured) + 1 - m>> \notin DOMAIN Todo
        BY <1>1, <1>4, <3>2, <4>1
      <4> QED
        BY <4>2 DEF Behind
    <3>4. Configured[m].name \in Known
      <4>1. Configured[m].name \in appliedRoles
        BY <3>3 DEF Outermost
      <4> QED
        BY <1>2, <4>1, NobodyAssumption DEF Known, TypeOK
    <3>5. \A x \in DOMAIN Todo : x[1] = 1
      <4> SUFFICES ASSUME NEW x \in DOMAIN Todo PROVE x[1] = 1
        OBVIOUS
      <4>1. PICK h \in 1 .. Len(stack) : \E e : x = <<h, e>>
        BY TodoDomain DEF Todo, TypeOK, Calls
      <4> QED
        BY <3>2, <4>1
    <3>6. ASSUME NEW e \in DOMAIN ShouldSee(Configured[m].name),
                 ShouldSee(Configured[m].name)[e].itemType = "recipe"
          PROVE  \E before \in 1 .. Len(recipes) :
                   recipes'[before] = RecipeString(ShouldSee(Configured[m].name)[e])
      <4>1. PICK item : item = ShouldSee(Configured[m].name)[e]
        OBVIOUS
      <4>2. \E k \in DOMAIN recipes : recipes[k] = RecipeString(item)
        BY <3>4, <3>5, <3>6, <4>1 DEF Inner
      <4> QED
        BY <1>2, <4>1, <4>2
    <3>7. Before(m, Len(recipes) + 1)
      BY <1>2, <3>6
    <3> QED
      BY <1>2, <3>1, <3>7
  <2> QED
    BY <2>1, <2>2
<1> QED
  BY <1>6, <1>7, <1>8

-----------------------------------------------------------------------------
(* The count of the result *)

\* The places of a list are finitely many.
LEMMA PlacesFinite ==
  ASSUME NEW list \in Seq(RunListItem), NEW string
  PROVE  IsFiniteSet(Places(list, string)) /\ Cardinality(Places(list, string)) \in Nat
<1>1. Len(list) \in Nat /\ Places(list, string) \in SUBSET (1 .. Len(list))
  BY LenProperties DEF Places
<1> QED
  BY <1>1, SomeUpTo

\* The places of a recipe among the entries that a list adds at a level.
AddedPlaces(level, list, more, string) ==
  {x \in {level} \X (1 .. Len(list)) : IsRecipe(more[x], string)}

\* They are as many as the list has.
LEMMA AddedCount ==
  ASSUME NEW level, NEW list \in Seq(RunListItem), NEW more, NEW string,
         \A e \in 1 .. Len(list) : more[<<level, e>>] = list[Len(list) + 1 - e]
  PROVE  /\ IsFiniteSet(AddedPlaces(level, list, more, string))
         /\ Cardinality(AddedPlaces(level, list, more, string)) = Cardinality(Places(list, string))
<1> DEFINE added == AddedPlaces(level, list, more, string)
           place == [k \in Places(list, string) |-> <<level, Len(list) + 1 - k>>]
<1>1. DOMAIN list = 1 .. Len(list) /\ Len(list) \in Nat
  BY LenProperties
<1>2. \A k \in Places(list, string) : k \in 1 .. Len(list) /\ IsRecipe(list[k], string)
  BY <1>1 DEF Places
<1>3. ASSUME NEW k \in Places(list, string)
      PROVE  place[k] \in added
  <2>1. Len(list) + 1 - k \in 1 .. Len(list) /\ Len(list) + 1 - (Len(list) + 1 - k) = k
    BY <1>1, <1>2
  <2>2. more[<<level, Len(list) + 1 - k>>] = list[k]
    BY <2>1
  <2>3. <<level, Len(list) + 1 - k>> \in {level} \X (1 .. Len(list))
    BY <2>1
  <2> QED
    BY <1>2, <2>2, <2>3 DEF AddedPlaces
<1>4. \A k, l \in Places(list, string) : place[k] = place[l] => k = l
  BY <1>1, <1>2
<1>5. ASSUME NEW x \in added
      PROVE  \E k \in Places(list, string) : place[k] = x
  <2>1. PICK e \in 1 .. Len(list) : x = <<level, e>>
    BY DEF AddedPlaces
  <2>2. Len(list) + 1 - e \in 1 .. Len(list) /\ Len(list) + 1 - (Len(list) + 1 - e) = e
    BY <1>1
  <2>3. IsRecipe(list[Len(list) + 1 - e], string)
    BY <2>1 DEF AddedPlaces
  <2>4. Len(list) + 1 - e \in Places(list, string)
    BY <1>1, <2>2, <2>3 DEF Places
  <2> QED
    BY <2>1, <2>2, <2>4
<1> HIDE DEF added
<1>6. place \in [Places(list, string) -> added]
  BY <1>3
<1> HIDE DEF place
<1>7. place \in Bijection(Places(list, string), added)
  BY <1>4, <1>5, <1>6 DEF Bijection, Injection, Surjection, IsInjective
<1>8. ExistsBijection(Places(list, string), added)
  BY <1>7 DEF ExistsBijection
<1>9. IsFiniteSet(added) /\ Cardinality(added) = Cardinality(Places(list, string))
  BY <1>8, PlacesFinite, FS_Bijection
<1> QED
  BY <1>9 DEF added

\* The places of what a stack has left are finitely many.
LEMMA LeftFinite ==
  ASSUME NEW calls \in Calls, NEW string
  PROVE  /\ IsFiniteSet(Places(TodoOf(calls), string))
         /\ Cardinality(Places(TodoOf(calls), string)) \in Nat
<1>1. IsFiniteSet(DOMAIN TodoOf(calls))
  BY TodoFinite
<1>2. Places(TodoOf(calls), string) \in SUBSET DOMAIN TodoOf(calls)
  BY DEF Places
<1>3. IsFiniteSet(Places(TodoOf(calls), string))
  BY <1>1, <1>2, FS_Subset
<1> QED
  BY <1>3, FS_CardinalityType

\* So many places more are left.
LEMMA GrownPlaces ==
  ASSUME NEW calls \in Calls, NEW list \in Seq(RunListItem), NEW more, NEW string,
         Adds(TodoOf(calls), Len(calls) + 1, list, more)
  PROVE  Cardinality(Places(more, string))
           = Cardinality(Places(TodoOf(calls), string)) + Cardinality(Places(list, string))
<1> DEFINE todo == TodoOf(calls)
           level == Len(calls) + 1
           left == Places(todo, string)
           added == AddedPlaces(level, list, more, string)
<1>1. IsFiniteSet(added) /\ Cardinality(added) = Cardinality(Places(list, string))
  <2>1. \A e \in 1 .. Len(list) : more[<<level, e>>] = list[Len(list) + 1 - e]
    BY DEF Adds
  <2> QED
    BY <2>1, AddedCount
<1>2. IsFiniteSet(left) /\ Cardinality(left) \in Nat
  BY LeftFinite
<1>3. Places(more, string) = left \cup added
  <2>1. /\ DOMAIN more = DOMAIN todo \cup ({level} \X (1 .. Len(list)))
        /\ \A x \in DOMAIN todo : more[x] = todo[x]
    BY DEF Adds
  <2> HIDE DEF todo, level
  <2> QED
    BY <2>1 DEF Places, AddedPlaces
<1>4. left \cap added = {}
  <2> SUFFICES ASSUME NEW x \in DOMAIN todo, x \in {level} \X (1 .. Len(list)) PROVE FALSE
    BY DEF Places, AddedPlaces
  <2>1. PICK h \in 1 .. Len(calls) : \E e : x = <<h, e>>
    BY TodoDomain
  <2>2. h = level
    BY <2>1
  <2>3. Len(calls) \in Nat
    BY ListsOfCalls
  <2> QED
    BY <2>2, <2>3
<1> HIDE DEF left, added
<1>5. Cardinality(left \cup added) = Cardinality(left) + Cardinality(added) - Cardinality({})
  BY <1>1, <1>2, <1>4, FS_Union
<1>6. Cardinality({}) = 0 /\ Cardinality(added) \in Nat
  BY <1>1, FS_EmptySet, FS_CardinalityType
<1>7. Cardinality(Places(more, string)) = Cardinality(left) + Cardinality(Places(list, string))
  BY <1>1, <1>2, <1>3, <1>5, <1>6
<1> QED
  BY <1>7 DEF left

\* One place less is left if the entry that is taken is the recipe, and else
\* as many as before.
LEMMA TakenPlaces ==
  ASSUME TypeOK, TakesTop, NEW string
  PROVE  Cardinality(TodoPlaces(string))
           = Cardinality(TodoPlaces(string)') + (IF IsRecipe(Entry, string) THEN 1 ELSE 0)
<1>1. /\ Top \in DOMAIN Todo /\ Todo[Top] = Entry
      /\ DOMAIN Todo' = DOMAIN Todo \ {Top}
      /\ \A x \in DOMAIN Todo' : Todo'[x] = Todo[x]
      /\ stack' \in Calls
  BY TopTaken
<1>2. /\ IsFiniteSet(TodoPlaces(string)) /\ Cardinality(TodoPlaces(string)) \in Nat
      /\ IsFiniteSet(TodoPlaces(string)') /\ Cardinality(TodoPlaces(string)') \in Nat
  BY <1>1, LeftFinite DEF TodoPlaces, Todo, TypeOK, Calls
<1>3. CASE IsRecipe(Entry, string)
  <2>1. TodoPlaces(string) = TodoPlaces(string)' \cup {Top} /\ Top \notin TodoPlaces(string)'
    BY <1>1, <1>3 DEF TodoPlaces, Places
  <2>2. Cardinality(TodoPlaces(string)' \cup {Top}) = Cardinality(TodoPlaces(string)') + 1
    BY <1>2, <2>1, FS_AddElement
  <2> QED
    BY <1>3, <2>1, <2>2
<1>4. CASE ~IsRecipe(Entry, string)
  <2>1. TodoPlaces(string) = TodoPlaces(string)'
    BY <1>1, <1>4 DEF TodoPlaces, Places
  <2> QED
    BY <1>2, <1>4, <2>1
<1> QED
  BY <1>3, <1>4

\* The places in roles that are seen as before stay the same.
LEMMA SamePlaces ==
  ASSUME UNCHANGED <<given, failed>>, Known' = Known, NEW string
  PROVE  /\ Cardinality(Places(Configured, string))' = Cardinality(Places(Configured, string))
         /\ Cardinality(PlacesInRoles(Known, string))' = Cardinality(PlacesInRoles(Known, string))
<1>1. Configured' = Configured /\ \A r : ShouldSee(r)' = ShouldSee(r)
  BY SameConfigured, SameSeen
<1>2. PlacesInRoles(Known, string)' = PlacesInRoles(Known, string)
  BY <1>1 DEF PlacesInRoles, Places
<1>3. Places(Configured, string)' = Places(Configured, string)
  BY <1>1 DEF Places
<1> QED
  BY <1>2, <1>3

\* A role that is taken counts for no recipe.
LEMMA RoleTakenCount ==
  ASSUME TypeOK, Counted, TakesTop, Entry.itemType = "role",
         UNCHANGED <<given, recipes, failed>>, Known' = Known
  PROVE  Counted'
<1> SUFFICES ASSUME NEW string \in RunListString
             PROVE  Cardinality(ResultPlaces(string)') + Cardinality(TodoPlaces(string)')
                      = Cardinality(Places(Configured, string))' + Cardinality(PlacesInRoles(Known, string))'
  BY DEF Counted
<1>1. ~IsRecipe(Entry, string)
  BY DEF IsRecipe
<1>2. Cardinality(TodoPlaces(string)') \in Nat
  BY TopTaken, LeftFinite DEF TodoPlaces, Todo
<1>3. Cardinality(TodoPlaces(string)) = Cardinality(TodoPlaces(string)')
  BY <1>1, <1>2, TakenPlaces
<1>4. ResultPlaces(string)' = ResultPlaces(string)
  BY DEF ResultPlaces
<1> QED
  BY <1>3, <1>4, SamePlaces DEF Counted

\* A recipe that is taken is in the result.
LEMMA RecipeTakenCount ==
  ASSUME TypeOK, Counted, AddRecipe
  PROVE  Counted'
<1> SUFFICES ASSUME NEW string \in RunListString
             PROVE  Cardinality(ResultPlaces(string)') + Cardinality(TodoPlaces(string)')
                      = Cardinality(Places(Configured, string))' + Cardinality(PlacesInRoles(Known, string))'
  BY DEF Counted
<1>1. /\ TakesTop /\ Entry.itemType = "recipe"
      /\ Len(recipes) \in Nat
      /\ DOMAIN recipes = 1 .. Len(recipes) /\ DOMAIN recipes' = 1 .. Len(recipes) + 1
      /\ \A k \in DOMAIN recipes : recipes'[k] = recipes[k]
      /\ recipes'[Len(recipes) + 1] = RecipeString(Entry)
      /\ UNCHANGED <<given, failed>> /\ Known' = Known
  BY RecipeAdded DEF history
<1>2. Cardinality(TodoPlaces(string)') \in Nat
  BY <1>1, TopTaken, LeftFinite DEF TodoPlaces, Todo
<1>3. Cardinality(TodoPlaces(string))
        = Cardinality(TodoPlaces(string)') + (IF IsRecipe(Entry, string) THEN 1 ELSE 0)
  BY <1>1, TakenPlaces
<1>4. IsFiniteSet(ResultPlaces(string)) /\ Cardinality(ResultPlaces(string)) \in Nat
  BY <1>1, SomeUpTo DEF ResultPlaces
<1>5. CASE IsRecipe(Entry, string)
  <2>1. ResultPlaces(string)' = ResultPlaces(string) \cup {Len(recipes) + 1}
        /\ Len(recipes) + 1 \notin ResultPlaces(string)
    BY <1>1, <1>5 DEF ResultPlaces, IsRecipe
  <2>2. Cardinality(ResultPlaces(string)') = Cardinality(ResultPlaces(string)) + 1
    BY <1>4, <2>1, FS_AddElement
  <2>3. Cardinality(ResultPlaces(string)') + Cardinality(TodoPlaces(string)')
          = Cardinality(ResultPlaces(string)) + Cardinality(TodoPlaces(string))
    BY <1>2, <1>3, <1>4, <1>5, <2>2
  <2> QED
    BY <1>1, <2>3, SamePlaces DEF Counted
<1>6. CASE ~IsRecipe(Entry, string)
  <2>1. ResultPlaces(string)' = ResultPlaces(string)
    BY <1>1, <1>6 DEF ResultPlaces, IsRecipe
  <2>2. Cardinality(TodoPlaces(string)) = Cardinality(TodoPlaces(string)')
    BY <1>2, <1>3, <1>6
  <2> QED
    BY <1>1, <2>1, <2>2, SamePlaces DEF Counted
<1> QED
  BY <1>5, <1>6

\* The places in roles are finitely many.
LEMMA RolePlacesFinite ==
  ASSUME TypeOK, NEW set \in SUBSET RoleNames, NEW string
  PROVE  /\ IsFiniteSet(PlacesInRoles(set, string))
         /\ Cardinality(PlacesInRoles(set, string)) \in Nat
<1> DEFINE f == [r \in set |-> {r} \X Places(ShouldSee(r), string)]
<1>1. IsFiniteSet(set)
  BY RunListAssumption, FS_Subset
<1>2. ASSUME NEW r \in set
      PROVE  IsFiniteSet(f[r])
  <2>1. IsFiniteSet({r})
    BY FS_Singleton
  <2>2. IsFiniteSet(Places(ShouldSee(r), string))
    BY SeenType, PlacesFinite
  <2>3. IsFiniteSet({r} \X Places(ShouldSee(r), string))
    BY <2>1, <2>2, FS_Product
  <2> QED
    BY <2>3
<1>3. PlacesInRoles(set, string) = UNION {f[r] : r \in set}
  BY DEF PlacesInRoles
<1> HIDE DEF f
<1>4. IsFiniteSet(PlacesInRoles(set, string))
  BY <1>1, <1>2, <1>3, FiniteFamily
<1> QED
  BY <1>4, FS_CardinalityType

\* A list that arrives counts among the lists of roles, and is left.
LEMMA ArrivedCount ==
  ASSUME TypeOK, Asking, GetRole, Counted
  PROVE  Counted'
<1>1. PICK r : r = fetching
  OBVIOUS
<1>2. PICK list : list = ShouldSee(r)'
  OBVIOUS
<1>3. /\ r \in RoleNames /\ r \notin Known
      /\ Known' = Known \cup {r}
      /\ \A q : q # r => ShouldSee(q)' = ShouldSee(q)
  BY <1>1, RoleArrives
<1>4. UNCHANGED <<given, recipes>>
  BY DEF GetRole
<1>5. /\ list \in Seq(RunListItem)
      /\ stack' \in Calls /\ stack \in Calls
      /\ Adds(Todo, Len(stack) + 1, list, Todo')
  BY <1>1, <1>2, ArrivedList DEF TypeOK, Calls
<1> SUFFICES ASSUME NEW string \in RunListString
             PROVE  Cardinality(ResultPlaces(string)') + Cardinality(TodoPlaces(string)')
                      = Cardinality(Places(Configured, string))' + Cardinality(PlacesInRoles(Known, string))'
  BY DEF Counted
<1>6. ResultPlaces(string)' = ResultPlaces(string)
      /\ Cardinality(Places(Configured, string))' = Cardinality(Places(Configured, string))
  BY <1>4, SameConfigured DEF ResultPlaces, Places
<1>7. Cardinality(TodoPlaces(string)')
        = Cardinality(TodoPlaces(string)) + Cardinality(Places(list, string))
  <2>1. Cardinality(Places(Todo', string))
          = Cardinality(Places(Todo, string)) + Cardinality(Places(list, string))
    BY <1>5, GrownPlaces DEF Todo
  <2> QED
    BY <2>1 DEF TodoPlaces
<1> DEFINE before == PlacesInRoles(Known, string)
           new == {r} \X Places(list, string)
<1>8. Known \in SUBSET RoleNames
  BY DEF Known, TypeOK
<1>9. IsFiniteSet(before) /\ Cardinality(before) \in Nat
  BY <1>8, RolePlacesFinite
<1>10. IsFiniteSet(new) /\ Cardinality(new) = Cardinality(Places(list, string))
  <2>1. IsFiniteSet(Places(list, string)) /\ Cardinality(Places(list, string)) \in Nat
    BY <1>5, PlacesFinite
  <2>2. IsFiniteSet({r}) /\ Cardinality({r}) = 1
    BY FS_Singleton
  <2>3. IsFiniteSet(new) /\ Cardinality(new) = Cardinality({r}) * Cardinality(Places(list, string))
    BY <2>1, <2>2, FS_Product
  <2> QED
    BY <2>1, <2>2, <2>3
<1>11. PlacesInRoles(Known, string)' = before \cup new
  <2>1. \A q \in Known : ShouldSee(q)' = ShouldSee(q)
    BY <1>3
  <2>2. PlacesInRoles(Known, string)' = UNION {{q} \X Places(ShouldSee(q)', string) : q \in Known \cup {r}}
    BY <1>3 DEF PlacesInRoles, Places
  <2>3. UNION {{q} \X Places(ShouldSee(q)', string) : q \in Known \cup {r}}
          = (UNION {{q} \X Places(ShouldSee(q)', string) : q \in Known})
              \cup ({r} \X Places(ShouldSee(r)', string))
    OBVIOUS
  <2>4. UNION {{q} \X Places(ShouldSee(q)', string) : q \in Known} = before
    BY <2>1 DEF PlacesInRoles, Places
  <2> QED
    BY <1>2, <2>2, <2>3, <2>4
<1>12. before \cap new = {}
  <2> SUFFICES ASSUME NEW x \in before, x \in new PROVE FALSE
    OBVIOUS
  <2>1. PICK q \in Known : x \in {q} \X Places(ShouldSee(q), string)
    BY DEF PlacesInRoles
  <2>2. x[1] = q /\ x[1] = r
    BY <2>1
  <2> QED
    BY <1>3, <2>2
<1> HIDE DEF before, new
<1>13. Cardinality(before \cup new) = Cardinality(before) + Cardinality(new) - Cardinality({})
  BY <1>9, <1>10, <1>12, FS_Union
<1>14. Cardinality(PlacesInRoles(Known, string))' = Cardinality(before) + Cardinality(Places(list, string))
  <2>1. Cardinality({}) = 0 /\ Cardinality(new) \in Nat
    BY <1>10, FS_EmptySet, FS_CardinalityType
  <2> QED
    BY <1>9, <1>10, <1>11, <1>13, <2>1
<1>15. /\ Cardinality(ResultPlaces(string)) \in Nat /\ Cardinality(TodoPlaces(string)) \in Nat
       /\ Cardinality(Places(Configured, string)) \in Nat /\ Cardinality(Places(list, string)) \in Nat
  <2>1. Len(recipes) \in Nat /\ DOMAIN recipes = 1 .. Len(recipes)
    BY LenProperties DEF TypeOK
  <2>2. Cardinality(ResultPlaces(string)) \in Nat
    BY <2>1, SomeUpTo DEF ResultPlaces
  <2>3. Cardinality(TodoPlaces(string)) \in Nat
    BY <1>5, LeftFinite DEF TodoPlaces, Todo
  <2> QED
    BY <1>5, <2>2, <2>3, ConfiguredType, PlacesFinite
<1>16. Cardinality(ResultPlaces(string)) + Cardinality(TodoPlaces(string))
         = Cardinality(Places(Configured, string)) + Cardinality(before)
  BY DEF Counted, before
<1> QED
  BY <1>6, <1>7, <1>9, <1>14, <1>15, <1>16

-----------------------------------------------------------------------------
(* The invariant *)

\* A role that is taken is applied; no list of a role is known by it.
LEMMA RoleTaken ==
  ASSUME TypeOK, SkipRole \/ AskForRole
  PROVE  /\ TakesTop /\ Entry \in RunListItem /\ Entry.itemType = "role" /\ Entry.name \in RoleNames
         /\ fetching = Nobody
         /\ UNCHANGED <<given, recipes, failed>>
         /\ appliedRoles' = appliedRoles \cup {Entry.name}
         /\ Known' = Known
<1>1. HasEntry("role") /\ stack' = Shifted /\ UNCHANGED <<given, recipes, failed>>
  BY DEF SkipRole, AskForRole, history
<1>2. TakesTop /\ Entry.itemType = "role" /\ fetching = Nobody
  BY <1>1, TakeEntry DEF HasEntry, Entry
<1>3. Entry \in RunListItem
  BY <1>2, TopTaken
<1>4. Entry.name \in RoleNames
  BY <1>2, <1>3 DEF RunListItem
<1>5. appliedRoles' = appliedRoles \cup {Entry.name} /\ Known' = Known
  <2>1. Nobody \notin appliedRoles
    BY NobodyAssumption DEF TypeOK
  <2>2. CASE SkipRole
    BY <1>2, <2>1, <2>2 DEF SkipRole, Known
  <2>3. CASE AskForRole
    BY <1>2, <2>1, <2>3 DEF AskForRole, Known
  <2> QED
    BY <2>2, <2>3
<1> QED
  BY <1>1, <1>2, <1>3, <1>4, <1>5

\* The types of the variables, and what a request waits for.
Typed == TypeOK /\ Asking /\ Bare

\* A step that takes an entry keeps them.
LEMMA TakenTyped ==
  ASSUME Typed, AddRecipe \/ SkipRole \/ AskForRole
  PROVE  Typed'
<1>1. CASE AddRecipe
  <2>1. /\ TakesTop /\ fetching = Nobody /\ Known' = Known
        /\ recipes' \in Seq(RunListString)
        /\ DOMAIN recipes = 1 .. Len(recipes) /\ DOMAIN recipes' = 1 .. Len(recipes) + 1
        /\ Len(recipes) \in Nat
        /\ \A k \in DOMAIN recipes : recipes'[k] = recipes[k]
        /\ recipes'[Len(recipes) + 1] = RecipeString(Entry)
        /\ UNCHANGED <<given, fetching, appliedRoles, history>>
    BY <1>1, RecipeAdded DEF Typed
  <2>2. stack' \in Calls
    BY <2>1, TopTaken
  <2>3. TypeOK'
    BY <2>1, <2>2 DEF Typed, TypeOK, Calls, given, history
  <2>4. Asking'
    BY <2>1 DEF Typed, Asking, history
  <2>5. Bare'
    BY <2>1 DEF Typed, Bare, RecipeString
  <2> QED
    BY <2>3, <2>4, <2>5 DEF Typed
<1>2. CASE SkipRole \/ AskForRole
  <2>1. /\ TakesTop /\ Entry.name \in RoleNames
        /\ UNCHANGED <<given, recipes, failed>>
        /\ appliedRoles' = appliedRoles \cup {Entry.name}
        /\ fetching = Nobody /\ Known' = Known
    BY <1>2, RoleTaken DEF Typed
  <2>2. stack' \in Calls /\ stack' # <<>>
    BY <2>1, TopTaken
  <2>3. /\ fetching' \in {fetching, Entry.name}
        /\ fetches' \in [RoleNames -> Nat]
    BY <1>2, <2>1 DEF SkipRole, AskForRole, Typed, TypeOK, history
  <2>4. TypeOK'
    BY <2>1, <2>2, <2>3 DEF Typed, TypeOK, Calls, given
  <2>5. Asking'
    BY <2>1, <2>2, <2>3 DEF Typed, Asking
  <2>6. Bare'
    BY <2>1 DEF Typed, Bare
  <2> QED
    BY <2>4, <2>5, <2>6 DEF Typed
<1> QED
  BY <1>1, <1>2

\* So does the arrival of a role, or of the error for it.
LEMMA ArrivedTyped ==
  ASSUME Typed, GetRole
  PROVE  Typed'
<1>1. PICK r : r = fetching
  OBVIOUS
<1>2. r \in RoleNames /\ Known' = Known \cup {r} /\ stack' \in Calls
  BY <1>1, RoleArrives, ArrivedList DEF Typed
<1>3. /\ fetching' = Nobody /\ failed' \subseteq failed \cup {r}
      /\ UNCHANGED <<given, recipes, appliedRoles, fetches>>
  BY <1>1 DEF GetRole
<1>4. TypeOK'
  BY <1>2, <1>3 DEF Typed, TypeOK, Calls, given
<1>5. Asking'
  BY <1>2, <1>3 DEF Typed, Asking
<1>6. Bare'
  BY <1>3 DEF Typed, Bare
<1> QED
  BY <1>4, <1>5, <1>6 DEF Typed

\* So does the return of a call, which leaves what is left as it is.
LEMMA Returned ==
  ASSUME Typed, Return
  PROVE  Typed' /\ Todo' = Todo
<1>1. /\ fetching = Nobody /\ stack # <<>> /\ Head(stack) = <<>> /\ stack' = Tail(stack)
      /\ UNCHANGED <<given, fetching, recipes, appliedRoles, history>>
  BY DEF Return
<1>2. stack' \in Calls /\ Todo' = Todo
  BY <1>1, TodoPopped DEF Typed, TypeOK, Calls, Todo
<1>3. TypeOK'
  BY <1>1, <1>2 DEF Typed, TypeOK, Calls, given, history
<1>4. Asking' /\ Bare'
  BY <1>1 DEF Typed, Asking, Known, Bare, history
<1> QED
  BY <1>2, <1>3, <1>4 DEF Typed

\* Initially the configured list is left, and nothing else.
LEMMA InitIInv ==
  ASSUME Init
  PROVE  IInv
<1>1. unparsed \in RunLists /\ stack = <<Configured>> /\ fetching = Nobody
      /\ recipes = <<>> /\ appliedRoles = {} /\ failed = {}
  BY DEF Init, Configured
<1>2. Configured \in Seq(RunListItem)
  BY <1>1, ParsedType, RunListAssumption DEF Configured
<1>3. TypeOK
  BY <1>2 DEF Init, Configured, TypeOK
<1>4. Asking /\ Bare /\ Known = {}
  BY <1>1 DEF Asking, Bare, Known
<1>5. <<>> \in Calls /\ Len(<<>>) = 0
  BY EmptySeq DEF Calls
<1>6. IsPush(<<>>, Configured, stack) /\ Len(stack) = 1
  <2>1. stack \in Calls /\ Len(stack) = 1 /\ stack[1] = Configured
    BY <1>1, <1>2 DEF Calls
  <2>2. \A k \in 1 .. Len(<<>>) : stack[k + 1] = <<>>[k]
    BY <1>5
  <2> QED
    BY <1>2, <1>5, <2>1, <2>2 DEF IsPush
<1>7. Adds(TodoOf(<<>>), 1, Configured, Todo)
  BY <1>6, TodoPushed DEF Todo
<1>8. Grows(TodoOf(<<>>), 1, Configured, Todo)
  BY <1>2, <1>7, AddsEntries
<1>9. TodoRoles = RolesOf(Configured)
  BY <1>8, TodoEmpty DEF TodoRoles, RolesOf, Grows
<1>10. OnlyReached
  BY <1>1, <1>9 DEF OnlyReached, ClosedSoFar
<1>11. AllReached
  BY <1>4, <1>9 DEF AllReached, ClosedSoFar
<1>12. Counted
  <2> SUFFICES ASSUME NEW string \in RunListString
               PROVE  Cardinality(ResultPlaces(string)) + Cardinality(TodoPlaces(string))
                        = Cardinality(Places(Configured, string))
                            + Cardinality(PlacesInRoles(Known, string))
    BY DEF Counted
  <2>1. Cardinality({}) = 0
    BY FS_EmptySet
  <2>2. ResultPlaces(string) = {}
    BY <1>1 DEF ResultPlaces
  <2>3. PlacesInRoles(Known, string) = {}
    BY <1>4 DEF PlacesInRoles
  <2>4. Places(TodoOf(<<>>), string) = {}
    BY TodoEmpty DEF Places
  <2>5. Adds(TodoOf(<<>>), Len(<<>>) + 1, Configured, Todo)
    BY <1>5, <1>7
  <2>6. Cardinality(TodoPlaces(string))
          = Cardinality(Places(TodoOf(<<>>), string)) + Cardinality(Places(Configured, string))
    BY <1>2, <1>5, <2>5, GrownPlaces DEF TodoPlaces
  <2>7. Cardinality(Places(Configured, string)) \in Nat
    BY <1>2, PlacesFinite
  <2>8. /\ Cardinality(ResultPlaces(string)) = 0
        /\ Cardinality(PlacesInRoles(Known, string)) = 0
        /\ Cardinality(TodoPlaces(string)) = Cardinality(Places(Configured, string))
    BY <2>1, <2>2, <2>3, <2>4, <2>6, <2>7
  <2> QED
    BY <2>7, <2>8
<1>13. DOMAIN Configured = 1 .. Len(Configured) /\ Len(Configured) \in Nat
  BY <1>2, LenProperties
<1>14. /\ \A e \in Nat : <<1, e>> \in DOMAIN Todo =>
            e \in 1 .. Len(Configured) /\ Todo[<<1, e>>] = Configured[Len(Configured) + 1 - e]
       /\ \A e \in 1 .. Len(Configured) : <<1, e>> \in DOMAIN Todo
  <2>1. DOMAIN Todo = {1} \X (1 .. Len(Configured))
    BY <1>7, TodoEmpty DEF Adds
  <2>2. \A e \in 1 .. Len(Configured) : Todo[<<1, e>>] = Configured[Len(Configured) + 1 - e]
    BY <1>7 DEF Adds
  <2> QED
    BY <2>1, <2>2
<1>15. \A m \in DOMAIN Configured : ~Behind(m)
  BY <1>13, <1>14 DEF Behind
<1>16. Outermost
  BY <1>14, <1>15 DEF Outermost
<1>17. Inner
  BY <1>4 DEF Inner
<1>18. OrderSoFar
  BY <1>15 DEF OrderSoFar
<1> QED
  BY <1>3, <1>4, <1>10, <1>11, <1>12, <1>16, <1>17, <1>18 DEF IInv

\* As long as what is left, what is known and the result are the same, so are
\* their relations.
LEMMA NothingTaken ==
  ASSUME IInv, Todo' = Todo, UNCHANGED <<given, recipes, appliedRoles, failed>>, Known' = Known
  PROVE  OnlyReached' /\ AllReached' /\ Counted' /\ Outermost' /\ Inner' /\ OrderSoFar'
<1>1. Configured' = Configured /\ \A r : ShouldSee(r)' = ShouldSee(r)
  BY SameConfigured, SameSeen
<1>2. OnlyReached' /\ AllReached'
  <2>1. TodoRoles' = TodoRoles
    BY DEF TodoRoles
  <2> QED
    BY <2>1, SameReach DEF IInv
<1>3. Counted'
  <2>1. \A string : ResultPlaces(string)' = ResultPlaces(string) /\ TodoPlaces(string)' = TodoPlaces(string)
    BY DEF ResultPlaces, TodoPlaces, Places
  <2> QED
    BY <2>1, SamePlaces DEF IInv, Counted
<1>4. \A m : Behind(m)' = Behind(m)
  BY <1>1 DEF Behind
<1>5. Outermost'
  <2>1. Outermost
    BY DEF IInv
  <2> QED
    BY <1>1, <1>4, <2>1 DEF Outermost
<1>6. Inner'
  <2>1. Inner
    BY DEF IInv
  <2> QED
    BY <1>1, <2>1 DEF Inner
<1>7. OrderSoFar'
  <2>1. OrderSoFar
    BY DEF IInv
  <2> QED
    BY <1>1, <1>4, <2>1 DEF OrderSoFar
<1> QED
  BY <1>2, <1>3, <1>5, <1>6, <1>7

\* Every step keeps it.
LEMMA StepIInv ==
  ASSUME IInv, [Next]_vars
  PROVE  IInv'
<1>1. Typed
  BY DEF IInv, Typed
<1>2. CASE AddRecipe
  <2>1. Typed'
    BY <1>1, <1>2, TakenTyped
  <2>2. OnlyReached' /\ AllReached'
    <3>1. /\ TakesTop /\ Entry.itemType = "recipe" /\ Known' = Known
          /\ UNCHANGED <<given, fetching, appliedRoles, history>>
      BY <1>1, <1>2, RecipeAdded DEF Typed
    <3>2. appliedRoles' = appliedRoles \cup (IF Entry.itemType = "role" THEN {Entry.name} ELSE {})
      BY <3>1
    <3>3. appliedRoles' \cup TodoRoles' = appliedRoles \cup TodoRoles
      BY <3>1, <3>2, TakenRoles
    <3> QED
      BY <3>1, <3>3, SameReach DEF IInv, history
  <2>3. Counted'
    BY <1>2, RecipeTakenCount DEF IInv
  <2>4. Outermost' /\ Inner' /\ OrderSoFar'
    BY <1>2, RecipeTakenOrder DEF IInv
  <2> QED
    BY <2>1, <2>2, <2>3, <2>4 DEF Typed, IInv
<1>3. CASE SkipRole \/ AskForRole
  <2>1. /\ TakesTop /\ Entry.itemType = "role"
        /\ UNCHANGED <<given, recipes, failed>>
        /\ appliedRoles' = appliedRoles \cup {Entry.name}
        /\ Known' = Known
    BY <1>1, <1>3, RoleTaken DEF Typed
  <2>2. Typed'
    BY <1>1, <1>3, TakenTyped
  <2>3. OnlyReached' /\ AllReached'
    <3>1. appliedRoles' \cup TodoRoles' = appliedRoles \cup TodoRoles
      BY <2>1, TakenRoles
    <3> QED
      BY <2>1, <3>1, SameReach DEF IInv
  <2>4. Counted'
    BY <2>1, RoleTakenCount DEF IInv
  <2>5. Outermost' /\ Inner' /\ OrderSoFar'
    BY <2>1, RoleTakenOrder DEF IInv
  <2> QED
    BY <2>2, <2>3, <2>4, <2>5 DEF Typed, IInv
<1>4. CASE GetRole
  <2>1. Typed'
    BY <1>1, <1>4, ArrivedTyped
  <2>2. OnlyReached' /\ AllReached'
    BY <1>4, ArrivedReach DEF IInv
  <2>3. Counted'
    BY <1>4, ArrivedCount DEF IInv
  <2>4. Outermost' /\ Inner' /\ OrderSoFar'
    BY <1>4, ArrivedOrder DEF IInv
  <2> QED
    BY <2>1, <2>2, <2>3, <2>4 DEF Typed, IInv
<1>5. CASE Return
  <2>1. Typed' /\ Todo' = Todo
    BY <1>1, <1>5, Returned
  <2>2. UNCHANGED <<given, recipes, appliedRoles, failed>> /\ Known' = Known
    BY <1>5 DEF Return, history, Known
  <2>3. OnlyReached' /\ AllReached' /\ Counted' /\ Outermost' /\ Inner' /\ OrderSoFar'
    BY <2>1, <2>2, NothingTaken
  <2> QED
    BY <2>1, <2>3 DEF Typed, IInv
<1>6. CASE UNCHANGED vars
  <2>1. UNCHANGED <<given, stack, fetching, recipes, appliedRoles, failed, fetches>>
    BY <1>6 DEF vars, history
  <2>2. Typed'
    BY <1>1, <2>1 DEF Typed, TypeOK, Asking, Bare, Known, given
  <2>3. Todo' = Todo /\ Known' = Known
    BY <2>1 DEF Todo, Known
  <2>4. OnlyReached' /\ AllReached' /\ Counted' /\ Outermost' /\ Inner' /\ OrderSoFar'
    BY <2>1, <2>3, NothingTaken
  <2> QED
    BY <2>2, <2>4 DEF Typed, IInv
<1> QED
  BY <1>2, <1>3, <1>4, <1>5, <1>6 DEF Next, Expand, Terminated

\* The invariant holds throughout an expansion.
LEMMA Invariance == Spec => []IInv
<1>1. Init => IInv
  BY InitIInv
<1>2. IInv /\ [Next]_vars => IInv'
  BY StepIInv
<1> QED
  BY <1>1, <1>2, PTL DEF Spec

-----------------------------------------------------------------------------
(* The theorems *)

\* The variables of an expansion keep their types: what is left are run lists
\* of items, the result is a list of strings, and only roles are applied.
THEOREM ExpansionTypeCorrect == Spec => []TypeOK
<1>1. IInv => TypeOK
  BY DEF IInv
<1> QED
  BY <1>1, Invariance, PTL

\* After an expansion nothing is left, and the list of every applied role is
\* known.
LEMMA AtTheEnd ==
  ASSUME IInv, Expanded
  PROVE  DOMAIN Todo = {} /\ Known = appliedRoles
<1>1. DOMAIN Todo = {}
  BY TodoEmpty DEF Expanded, Todo
<1>2. Known = appliedRoles
  BY NobodyAssumption DEF IInv, TypeOK, Expanded, Known
<1> QED
  BY <1>1, <1>2

\* An expansion that has ended applied exactly the roles that can be reached
\* from the configured list through the lists of the environment, however they
\* contain each other, and has each recipe as often as it stands in these
\* lists, each taken once (expandRunList).
THEOREM ExpansionIsExact == Spec => []ExpansionExact
<1>1. ASSUME IInv, Expanded
      PROVE  /\ appliedRoles = Reached
             /\ \A string \in RunListString :
                  Cardinality({k \in DOMAIN recipes : recipes[k] = string})
                    = Cardinality(Places(parseRunList(unparsed), string))
                        + Cardinality(PlacesInRoles(Reached, string))
  <2>1. DOMAIN Todo = {} /\ Known = appliedRoles
    BY <1>1, AtTheEnd
  <2>2. TodoRoles = {}
    BY <2>1 DEF TodoRoles
  <2>3. appliedRoles \in SUBSET RoleNames
    BY <1>1 DEF IInv, TypeOK
  <2>4. Closed(appliedRoles)
    BY <1>1, <2>1, <2>2 DEF IInv, AllReached, ClosedSoFar, Closed, Configured
  <2>5. ASSUME NEW set \in SUBSET RoleNames, Closed(set)
        PROVE  appliedRoles \subseteq set
    <3>1. ClosedSoFar(set)
      BY <2>5 DEF ClosedSoFar, Closed, Configured
    <3> QED
      BY <1>1, <3>1 DEF IInv, OnlyReached
  <2>6. appliedRoles = Reached
    BY <2>3, <2>4, <2>5 DEF Reached
  <2>7. ASSUME NEW string \in RunListString
        PROVE  Cardinality({k \in DOMAIN recipes : recipes[k] = string})
                 = Cardinality(Places(parseRunList(unparsed), string))
                     + Cardinality(PlacesInRoles(Reached, string))
    <3>1. TodoPlaces(string) = {}
      BY <2>1 DEF TodoPlaces, Places
    <3>2. Cardinality(TodoPlaces(string)) = 0
      BY <3>1, FS_EmptySet
    <3>3. Len(recipes) \in Nat /\ DOMAIN recipes = 1 .. Len(recipes)
      BY <1>1, LenProperties DEF IInv, TypeOK
    <3>4. Cardinality(ResultPlaces(string)) \in Nat
      BY <3>3, SomeUpTo DEF ResultPlaces
    <3>5. Cardinality(ResultPlaces(string))
            = Cardinality(Places(Configured, string)) + Cardinality(PlacesInRoles(Known, string))
      BY <1>1, <3>2, <3>4 DEF IInv, Counted
    <3> QED
      BY <2>1, <2>6, <3>5 DEF ResultPlaces, Configured
  <2> QED
    BY <2>6, <2>7
<1>2. IInv => ExpansionExact
  BY <1>1 DEF ExpansionExact
<1> QED
  BY <1>2, Invariance, PTL

\* The recipes of a role stand in the result before those that the configured
\* list has behind the role: the expansion is depth first.
THEOREM OrderIsKept == Spec => []OrderKept
<1>1. ASSUME IInv, Expanded
      PROVE  OrderKept
  <2>1. \A m \in DOMAIN Configured : Behind(m)
    BY <1>1, AtTheEnd DEF Behind
  <2>2. OrderSoFar
    BY <1>1 DEF IInv
  <2> QED
    BY <2>1, <2>2 DEF OrderSoFar, OrderKept, Configured
<1>2. IInv => OrderKept
  BY <1>1 DEF OrderKept
<1> QED
  BY <1>2, Invariance, PTL

\* A string that matches no pattern leaves a shorter list.
LEMMA ParsedShorter ==
  ASSUME NEW S, NEW strings \in Seq(S),
         NEW bad \in 1 .. Len(strings), strings[bad].form = "invalid"
  PROVE  DOMAIN parseRunList(strings) # 1 .. Len(strings)
<1> DEFINE kept == {k \in DOMAIN strings : strings[k].form # "invalid"}
<1>1. Len(strings) \in Nat /\ DOMAIN strings = 1 .. Len(strings)
  BY LenProperties
<1>2. IsFiniteSet(1 .. Len(strings)) /\ Cardinality(1 .. Len(strings)) = Len(strings)
  BY <1>1, CountUpTo
<1>3. kept \subseteq (1 .. Len(strings)) \ {bad}
  BY <1>1
<1>4. /\ IsFiniteSet((1 .. Len(strings)) \ {bad})
      /\ Cardinality((1 .. Len(strings)) \ {bad}) = Len(strings) - 1
  BY <1>2, FS_RemoveElement
<1>5. Cardinality(kept) \in Nat /\ Cardinality(kept) <= Len(strings) - 1
  <2>1. IsFiniteSet(kept) /\ Cardinality(kept) <= Cardinality((1 .. Len(strings)) \ {bad})
    BY <1>3, <1>4, FS_Subset
  <2> QED
    BY <1>4, <2>1, FS_CardinalityType
<1>6. DOMAIN parseRunList(strings) = 1 .. Cardinality(kept)
  BY DEF parseRunList, ItemsOf
<1> HIDE DEF kept
<1>7. Len(strings) \in 1 .. Len(strings) /\ Len(strings) \notin 1 .. Cardinality(kept)
  BY <1>1, <1>5
<1> QED
  BY <1>6, <1>7

\* The string of an item with a plain name gives the item again; that of a
\* recipe with a bracket gives another, or none.
LEMMA ItemParsesBack ==
  ASSUME NEW item \in RunListItem
  PROVE  LET string == ItemString(item) IN
         /\ ~HasBracket(item) => string.form # "invalid" /\ ParseItem(string) = item
         /\ HasBracket(item) => string.form = "invalid" \/ ParseItem(string) # item
<1>1. CASE ~HasBracket(item)
  <2>1. ItemString(item) =
          [form |-> item.itemType, name |-> item.name, version |-> item.version]
    BY <1>1, Zenon DEF ItemString
  <2>2. item = [itemType |-> item.itemType, name |-> item.name, version |-> item.version]
        /\ item.itemType \in {"recipe", "role"}
    BY DEF RunListItem
  <2> QED
    BY <1>1, <2>1, <2>2 DEF ParseItem
<1>2. CASE HasBracket(item) /\ item.version = NoVersion
  <2>1. ItemString(item) =
          [form |-> "bare", name |-> InBrackets[item.name], version |-> NoVersion]
    BY <1>2, Zenon DEF ItemString
  <2>2. ParseItem(ItemString(item)).name # item.name
    BY <1>2, <2>1, BracketAssumption DEF ParseItem, HasBracket
  <2> QED
    BY <1>2, <2>2
<1>3. CASE HasBracket(item) /\ item.version # NoVersion
  <2>1. ItemString(item) = [form |-> "invalid", name |-> item.name, version |-> NoVersion]
    BY <1>3, Zenon DEF ItemString
  <2> QED
    BY <1>3, <2>1
<1> QED
  BY <1>1, <1>2, <1>3

\* A list that is written with toStringSlice is parsed to the same list, if and
\* only if no recipe of it has a bracket in its name.
LEMMA ListParsesBack ==
  ASSUME NEW list \in Seq(RunListItem)
  PROVE  (parseRunList(toStringSlice(list)) = list) <=> \A k \in DOMAIN list : ~HasBracket(list[k])
<1> DEFINE strings == toStringSlice(list)
           S == {ItemString(item) : item \in RunListItem}
<1>1. Len(list) \in Nat /\ DOMAIN list = 1 .. Len(list)
  BY LenProperties
<1>2. ASSUME NEW k \in 1 .. Len(list)
      PROVE  /\ strings[k] \in S /\ list[k] \in RunListItem
             /\ ~HasBracket(list[k]) => strings[k].form # "invalid" /\ ParseItem(strings[k]) = list[k]
             /\ HasBracket(list[k]) => strings[k].form = "invalid" \/ ParseItem(strings[k]) # list[k]
  <2>1. strings[k] = ItemString(list[k])
    BY <1>1 DEF toStringSlice
  <2>2. list[k] \in RunListItem
    BY ElementOfSeq
  <2> QED
    BY <2>1, <2>2, ItemParsesBack
<1>3. DOMAIN strings = 1 .. Len(list) /\ strings = [k \in 1 .. Len(list) |-> strings[k]]
  BY <1>1 DEF toStringSlice
<1> HIDE DEF strings, S
<1>4. strings \in Seq(S) /\ Len(strings) = Len(list)
  <2>1. strings \in [1 .. Len(list) -> S]
    BY <1>2, <1>3
  <2>2. strings \in Seq(S)
    BY <1>1, <2>1, SeqDef
  <2> QED
    BY <1>1, <1>3, <2>2, LenProperties
<1>5. list = [k \in 1 .. Len(list) |-> list[k]]
  BY <1>1
<1>6. CASE \E k \in 1 .. Len(list) : strings[k].form = "invalid"
  <2>1. PICK bad \in 1 .. Len(list) : strings[bad].form = "invalid"
    BY <1>6
  <2>2. DOMAIN parseRunList(strings) # 1 .. Len(strings)
    BY <1>4, <2>1, ParsedShorter
  <2>3. parseRunList(strings) # list /\ HasBracket(list[bad])
    BY <1>1, <1>2, <1>4, <2>1, <2>2
  <2> QED
    BY <1>1, <2>1, <2>3 DEF strings
<1>7. CASE \A k \in 1 .. Len(list) : strings[k].form # "invalid"
  <2>1. parseRunList(strings) = [k \in 1 .. Len(list) |-> ParseItem(strings[k])]
    BY <1>3, <1>4, <1>7, ParsedWhole
  <2>2. CASE \A k \in 1 .. Len(list) : ~HasBracket(list[k])
    <3>1. [k \in 1 .. Len(list) |-> ParseItem(strings[k])] = [k \in 1 .. Len(list) |-> list[k]]
      BY <1>2, <2>2
    <3>2. parseRunList(strings) = list
      BY <1>5, <2>1, <3>1
    <3> QED
      BY <1>1, <2>2, <3>2 DEF strings
  <2>3. CASE \E k \in 1 .. Len(list) : HasBracket(list[k])
    <3>1. PICK k \in 1 .. Len(list) : HasBracket(list[k])
      BY <2>3
    <3>2. ParseItem(strings[k]) # list[k]
      BY <1>2, <1>7, <3>1
    <3>3. parseRunList(strings)[k] = ParseItem(strings[k])
      BY <2>1
    <3>4. parseRunList(strings) # list
      BY <3>2, <3>3
    <3> QED
      BY <1>1, <3>1, <3>4 DEF strings
  <2> QED
    BY <2>2, <2>3
<1> QED
  BY <1>6, <1>7

\* The strings of the expanded list, which are bare, are parsed to its recipes,
\* and those of the configured list to its items exactly when no recipe of it
\* has a bracket in its name (toStringSlice, parseRunList).
THEOREM StringsParseBack == Spec => []ParsesBack
<1>1. ASSUME IInv
      PROVE  ParsesBack
  <2>1. (parseRunList(toStringSlice(Configured)) = Configured)
          <=> \A k \in DOMAIN Configured : ~HasBracket(Configured[k])
    BY <1>1, ConfiguredType, ListParsesBack DEF IInv
  <2>2. recipes \in Seq(RunListString)
    BY <1>1 DEF IInv, TypeOK
  <2>3. Len(recipes) \in Nat /\ DOMAIN recipes = 1 .. Len(recipes)
    BY <2>2, LenProperties
  <2>4. ASSUME NEW k \in DOMAIN recipes
        PROVE  /\ recipes[k].form # "invalid"
               /\ ParseItem(recipes[k]).itemType = "recipe"
               /\ RecipeString(ParseItem(recipes[k])) = recipes[k]
    <3>1. recipes[k] \in RunListString
      BY <2>2, <2>3, ElementOfSeq
    <3>2. recipes[k].form = "bare"
      BY <1>1 DEF IInv, Bare
    <3>3. recipes[k] = [form |-> "bare", name |-> recipes[k].name, version |-> recipes[k].version]
      BY <3>1, <3>2 DEF RunListString
    <3> QED
      BY <3>2, <3>3 DEF ParseItem, RecipeString
  <2>5. PICK again : again = parseRunList(recipes)
    OBVIOUS
  <2>6. again = [k \in 1 .. Len(recipes) |-> ParseItem(recipes[k])]
    BY <2>2, <2>4, <2>5, ParsedWhole
  <2>7. again \in Seq(RunListItem)
    BY <2>2, <2>5, ParsedType
  <2>8. Len(again) = Len(recipes)
    BY <2>3, <2>6, <2>7, LenProperties
  <2>9. \A k \in DOMAIN again :
          again[k].itemType = "recipe" /\ RecipeString(again[k]) = recipes[k]
    BY <2>3, <2>4, <2>6
  <2> QED
    BY <2>1, <2>5, <2>8, <2>9 DEF ParsesBack, Configured
<1> QED
  BY <1>1, Invariance, PTL
================================================================================
