--------------------------------- MODULE Linker ---------------------------------
(***************************************************************************)
(* The linker: the walk over the imports of the modules that are given and *)
(* of the libraries they ask for (xjs_depwalk.c, xjs_deptbl.c), and the    *)
(* three walks over the table of modules that look for circles, remove     *)
(* what is not used and find the order of loading (xjs_l1.c).  Then the    *)
(* data and the functions of the modules are merged, numbered anew, and an *)
(* entry function is written that calls the top level of each module with  *)
(* the imports so far (xjs_l1_merge_ir).                                   *)
(*                                                                         *)
(* Paths are left out: an import names its module, and whether it was      *)
(* written as a path ("user") or as a plain name ("sys").  Sets of modules *)
(* and of imports are walked in the order of their names.                  *)
(***************************************************************************)
EXTENDS Naturals, Sequences, FiniteSets, SequencesExt

CONSTANTS
  Names,            \* the names of all modules and libraries, in their order
  Libraries,        \* the names the callback load_sys_lib_cb finds a source for
  MaxStack,         \* bound: modules on the stack of the walk that marks
  FunctionCount,    \* how many functions a module has, the top level being the last
  Programs          \* what is linked: records of users, imports, entry, stdlib and exporters

STD == "stdlib"
ASSUME NamesAssumption == Names \in Seq(ToSet(Names)) /\ IsInjective(Names) /\ Libraries \subseteq ToSet(Names) /\ "" \notin ToSet(Names)
ASSUME MaxStackAssumption == MaxStack \in Nat
ASSUME FunctionCountAssumption == \A m \in ToSet(Names) : FunctionCount[m] \in Nat \ {0}

(* A module is given once ("TODO: module name duplicate checking" in       *)
(* src/xjc/main.c), and the standard library by the linker itself.  A      *)
(* module imports a name as a path or as a plain name, not both ways.      *)
Linkable(p) ==
  /\ p.users \in Seq(ToSet(Names)) /\ IsInjective(p.users)
  /\ p.stdlib \in BOOLEAN /\ (p.stdlib => STD \in ToSet(Names) \ ToSet(p.users))
  /\ DOMAIN p.imports = ToSet(Names)
  /\ \A m \in ToSet(Names) : \A i, j \in p.imports[m] :
       i.name \in ToSet(Names) /\ i.kind \in {"user", "sys"} /\ (i.name = j.name => i = j)
ASSUME ProgramsAssumption == \A p \in Programs : Linkable(p)

VARIABLES
  users,        \* the modules given to the linker, in the order of the command line
  imports,      \* what the source of each module imports: a set of [name, kind]
  entryName,    \* the name of the module to begin with
  stdlib,       \* whether the standard library is linked
  phase,        \* "walk", "cycle", "wipe", "chain", "merge", "enter", "linked", "failed" or "crashed"
  reason,       \* of a failure
  pending,      \* the modules to be loaded; the next is the last
  loaded,       \* the names of those that were
  table,        \* the imports of each module in the table, with static_linked
  entry,        \* the entry module, "" for none
  starts,       \* the modules whose circles are still to be looked for
  marked, stack,
  chain,        \* the order of loading

  exporters,    \* the modules that export something
  data,         \* the strings of the merged program; the number of one is its place, from 0
  functions,    \* the functions of the merged program, each as what it refers to
  top,          \* original_toplevel_funcid of each module
  at,           \* how many modules of the chain are done
  code,         \* what the merged entry does
  loadedLibs    \* loaded_sys_libs

depVars == <<users, imports, entryName, stdlib, phase, reason, pending, loaded, table, entry, starts, marked, stack, chain>>

InOrder(S) ==
  LET upTo[n \in 0 .. Len(Names)] ==
        IF n = 0 THEN <<>> ELSE IF Names[n] \in S THEN Append(upTo[n - 1], Names[n]) ELSE upTo[n - 1]
  IN  upTo[Len(Names)]
NamesOf(is) == {i.name : i \in is}
ImportNamed(is, n) == CHOOSE i \in is : i.name = n

(* xjs_dep_table_find_by_module_name finds one of these. *)
Modules == DOMAIN table
Add(m, is) == [x \in Modules \cup {m} |-> IF x = m THEN is ELSE table[x]]

Fail(why) ==
  /\ phase' = "failed" /\ reason' = why
  /\ UNCHANGED <<users, imports, entryName, stdlib, pending, loaded, table, entry, starts, marked, stack, chain>>

DepInit ==
  /\ phase = "walk" /\ reason = ""
  /\ pending = (IF stdlib THEN <<STD>> ELSE <<>>) \o users
  /\ loaded = {} /\ table = <<>> /\ entry = "" /\ starts = <<>> /\ marked = {} /\ stack = <<>> /\ chain = <<>>

-----------------------------------------------------------------------------
(* One import of the module being walked, from w: the list of pending      *)
(* modules and the imports of the new module so far.  A library that is    *)
(* not loaded yet, and that the callback finds, is compiled and put at the *)
(* far end of the list.                                                    *)
(* A slip looks only among the modules that are loaded.                    *)
Known(n, w) == n \in loaded \/ n \in ToSet(w.pending)
FoundTwice(i, w) == i.kind = "sys" /\ i.name \notin loaded /\ i.name \in Libraries
Found(i, w) == i.kind = "sys" /\ ~Known(i.name, w) /\ i.name \in Libraries

(* A slip forgets to set static_linked.                                    *)
WalkImportUnset(w, i) ==
  [pending |-> IF Found(i, w) THEN <<i.name>> \o w.pending ELSE w.pending,
   is |-> w.is \cup {[name |-> i.name, kind |-> i.kind, static |-> FALSE]},
   missing |-> w.missing \/ (i.kind = "user" /\ ~Known(i.name, w))]
WalkImport(w, i) ==
  [pending |-> IF Found(i, w) THEN <<i.name>> \o w.pending ELSE w.pending,
   is |-> w.is \cup {[name |-> i.name, kind |-> i.kind, static |-> Found(i, w)]},
   missing |-> w.missing \/ (i.kind = "user" /\ ~Known(i.name, w))]

Walked(m) ==
  LET names == InOrder(NamesOf(imports[m]))
      upTo[k \in 0 .. Len(names)] ==
        IF k = 0 THEN [pending |-> pending, is |-> {}, missing |-> FALSE]
        ELSE WalkImport(upTo[k - 1], ImportNamed(imports[m], names[k]))
  IN  upTo[Len(names)]

(* xjs_dependency_walk_item for the last module of the list, and the loop  *)
(* around it                                                               *)
WalkItem ==
  /\ phase = "walk" /\ pending # <<>>
  /\ \E m \in {Last(pending)} : \E w \in {Walked(m)} :
       /\ ~w.missing
       /\ table' = Add(m, w.is)
       /\ loaded' = loaded \cup {m}
       /\ pending' = Front(w.pending)
       /\ entry' = IF m = entryName THEN m ELSE entry
  /\ UNCHANGED <<users, imports, entryName, stdlib, phase, reason, starts, marked, stack, chain>>

WalkMissing == phase = "walk" /\ pending # <<>> /\ Walked(Last(pending)).missing /\ Fail("missing")

(* The source of a library does not compile. *)
WalkBroken ==
  /\ phase = "walk" /\ pending # <<>>
  /\ \E i \in imports[Last(pending)] : i.kind = "sys" /\ i.name \in Libraries \ (loaded \cup ToSet(pending))
  /\ Fail("library")

EntryFound == entry # "" \/ Cardinality(Modules) = 1
NoEntry == phase = "walk" /\ pending = <<>> /\ ~EntryFound /\ Fail("entry")

(* xjs_l1_insert_stdlib and the end of xjs_dependency_walk *)
StdImport == [name |-> STD, kind |-> "user", static |-> FALSE]
WalkDone ==
  /\ phase = "walk" /\ pending = <<>> /\ EntryFound
  /\ entry' = IF entry # "" THEN entry ELSE CHOOSE m \in Modules : TRUE
  /\ table' = [m \in Modules |-> IF stdlib /\ m # STD THEN table[m] \cup {StdImport} ELSE table[m]]
  /\ phase' = "cycle" /\ starts' = InOrder(Modules)
  /\ UNCHANGED <<users, imports, entryName, stdlib, reason, pending, loaded, marked, stack, chain>>

-----------------------------------------------------------------------------
(* xjs_l1_cycleref_detect.  The module on top of the stack is taken, and   *)
(* when it is fresh its user imports are pushed in order.  The walk has    *)
(* refused imports by path that are not in the table.                      *)
Kinds(m, kinds) == {i.name : i \in {j \in table[m] : j.kind \in kinds}}
Pushed(s, ms) == s \o InOrder(ms \cap Modules)

BeginStart ==
  /\ phase = "cycle" /\ stack = <<>> /\ starts # <<>>
  /\ stack' = <<Head(starts)>> /\ marked' = {}
  /\ UNCHANGED <<users, imports, entryName, stdlib, phase, reason, pending, loaded, table, entry, starts, chain>>

(* A slip: whatever is met a second time is a circle. *)
CircleAtAnyMark(m) == m \in marked
Circle(m) == m \in marked /\ m = Head(starts)

(* What is pushed above.  A slip does not look at the mark. *)
OpenedAlways(m) == Kinds(m, {"user"})
Opened(m) == IF m \in marked THEN {} ELSE Kinds(m, {"user"})

LookFromHere ==
  /\ phase = "cycle" /\ stack # <<>>
  /\ \E m \in {Last(stack)} :
       /\ ~Circle(m)
       /\ marked' = marked \cup {m}
       /\ stack' = Front(stack) \o InOrder(Opened(m))
       /\ starts' = IF stack' = <<>> THEN Tail(starts) ELSE starts
  /\ UNCHANGED <<users, imports, entryName, stdlib, phase, reason, pending, loaded, table, entry, chain>>

CircleFound == phase = "cycle" /\ stack # <<>> /\ Circle(Last(stack)) /\ Fail("cycle")

NoCircle ==
  /\ phase = "cycle" /\ stack = <<>> /\ starts = <<>>
  /\ phase' = "wipe" /\ marked' = {} /\ stack' = <<entry>>
  /\ UNCHANGED <<users, imports, entryName, stdlib, reason, pending, loaded, table, entry, starts, chain>>

(* xjs_l1_wipeout_unused_module marks what can be reached, but does not    *)
(* look at the marks.  A slip leaves the libraries out.                    *)
UsedByPaths(m) == Kinds(m, {"user"})
Used(m) == Kinds(m, {"user", "sys"})

Mark ==
  /\ phase = "wipe" /\ stack # <<>> /\ Len(stack) <= MaxStack
  /\ marked' = marked \cup {Last(stack)}
  /\ stack' = Pushed(Front(stack), Used(Last(stack)))
  /\ UNCHANGED <<users, imports, entryName, stdlib, phase, reason, pending, loaded, table, entry, starts, chain>>

(* xjs_dep_table_wipeout_clean_modules erases from the table it walks over *)
(* and finds the next module by what the node just freed still holds.  As  *)
(* long as that is there, the next one is the right one or one before it   *)
(* again, except that the module directly behind an erased one, which took *)
(* its place in the tree, may be passed over: it stays.  An allocator that *)
(* has taken the memory back makes it crash.                               *)
DirectlyBehind(n, m) == \E k \in 2 .. Cardinality(Modules) : InOrder(Modules)[k - 1] = n /\ InOrder(Modules)[k] = m
PassedOver(kept) == \A m \in kept \ marked : \E n \in Modules \ kept : DirectlyBehind(n, m)

Wipe ==
  /\ phase = "wipe" /\ stack = <<>>
  /\ \E kept \in SUBSET Modules :
       /\ marked \subseteq kept /\ PassedOver(kept)
       /\ table' = [m \in kept |-> table[m]]
  /\ phase' = "chain" /\ marked' = {} /\ stack' = <<entry>>
  /\ UNCHANGED <<users, imports, entryName, stdlib, reason, pending, loaded, entry, starts, chain>>

WipeCrashes ==
  /\ phase = "wipe" /\ stack = <<>> /\ marked # Modules
  /\ phase' = "crashed"
  /\ UNCHANGED <<users, imports, entryName, stdlib, reason, pending, loaded, table, entry, starts, marked, stack, chain>>

(* xjs_l1_extract_loading_chain: a fresh module is pushed again, with what *)
(* it imports above it; one that is marked goes into the chain, as often   *)
(* as it was pushed.  A slip leaves the libraries out.                     *)
ChildrenByPaths(m) == Kinds(m, {"user"})
Children(m) == Kinds(m, {"user", "sys"})
(* A slip: the module goes above its imports. *)
PutBackLast(m) == Pushed(<<>>, Children(m)) \o <<m>>
PutBack(m) == Pushed(<<m>>, Children(m))

Visit ==
  /\ phase = "chain" /\ stack # <<>>
  /\ \E m \in {Last(stack)} :
       IF m \in marked
       THEN stack' = Front(stack) /\ chain' = Append(chain, m)
       ELSE stack' = Front(stack) \o PutBack(m) /\ chain' = chain
  /\ marked' = marked \cup {Last(stack)}
  /\ UNCHANGED <<users, imports, entryName, stdlib, phase, reason, pending, loaded, table, entry, starts>>

DepNext ==
  \/ WalkItem \/ WalkMissing \/ WalkBroken \/ NoEntry \/ WalkDone
  \/ BeginStart \/ LookFromHere \/ CircleFound \/ NoCircle \/ Mark \/ Wipe \/ WipeCrashes \/ Visit
-----------------------------------------------------------------------------
vars == <<depVars, exporters, data, functions, top, at, code, loadedLibs>>

-----------------------------------------------------------------------------
(* The program of a module as far as the merge is concerned: its strings   *)
(* are a text of its own and the names it imports, numbered from the end,  *)
(* so that a number is not a place; each function refers to all of them    *)
(* and to the functions before it.                                         *)
StringsOf(m) == <<m \o " text">> \o InOrder(NamesOf(imports[m]))
IdOf(m, k) == Len(StringsOf(m)) - k
RefsOf(m, f) ==
  [k \in 1..Len(StringsOf(m)) |-> [to |-> "string", id |-> IdOf(m, k)]] \o [g \in 1..(f - 1) |-> [to |-> "function", id |-> g - 1]]

(* dataid_map, and the new number of a reference, for a module that begins *)
(* at these baselines.  A slip adds what has been merged so far to the     *)
(* number of a function.                                                   *)
DataMap(m, baseline) == [id \in 0..(Len(StringsOf(m)) - 1) |-> (CHOOSE k \in 1..Len(StringsOf(m)) : IdOf(m, k) = id) - 1 + baseline]
FunctionBaseMoves(baseline, f) == baseline + f - 1
FunctionBase(baseline, f) == baseline
Renumbered(m, f) ==
  LET map == DataMap(m, Len(data))
      refs == RefsOf(m, f)
  IN  [k \in DOMAIN refs |->
        IF refs[k].to = "string" THEN [refs[k] EXCEPT !.id = map[@]]
        ELSE [refs[k] EXCEPT !.id = @ + FunctionBase(Len(functions), f)]]

(* One turn of the first loop *)
Merge ==
  /\ phase = "merge" /\ at < Len(chain)
  /\ \E m \in {chain[at + 1]} :
       /\ data' = data \o StringsOf(m)
       /\ functions' = functions \o [f \in 1..FunctionCount[m] |-> Renumbered(m, f)]
       /\ top' = [x \in DOMAIN top \cup {m} |-> IF x = m THEN Len(functions) + FunctionCount[m] - 1 ELSE top[x]]
  /\ at' = at + 1
  /\ UNCHANGED <<depVars, exporters, code, loadedLibs>>

BeginMerge ==
  /\ phase = "chain" /\ stack = <<>>
  /\ phase' = "merge"
  /\ UNCHANGED <<users, imports, entryName, stdlib, reason, pending, loaded, table, entry, starts, marked, stack, chain,
                 exporters, data, functions, top, at, code, loadedLibs>>
BeginEntry ==
  /\ phase = "merge" /\ at = Len(chain)
  /\ phase' = "enter" /\ at' = 0
  /\ UNCHANGED <<users, imports, entryName, stdlib, reason, pending, loaded, table, entry, starts, marked, stack, chain,
                 exporters, data, functions, top, code, loadedLibs>>

-----------------------------------------------------------------------------
(* The number of a string, the first with that value *)
DataItem(s) == (CHOOSE k \in DOMAIN data : data[k] = s /\ \A j \in 1..(k - 1) : data[j] # s) - 1

(* The libraries that are left to the running program.  A slip forgets     *)
(* which were loaded before.                                               *)
FreshAlways(n) == TRUE
Fresh(n) == n \notin loadedLibs
Dynamic(m) == InOrder({i.name : i \in {j \in table[m] : j.kind = "sys" /\ ~j.static /\ Fresh(j.name)}})

(* One turn of the second loop: the libraries, the call, and imports[name] *)
(* = exports for a module that exports something.  The string of that name *)
(* is not looked at before it is used.  "dynlib" stands for loading the    *)
(* library into a new object and storing that under its name.              *)
Named(m) == m \notin exporters \/ m \in ToSet(data)
Enter ==
  /\ phase = "enter" /\ at < Len(chain) /\ Named(chain[at + 1])
  /\ \E m \in {chain[at + 1]} :
       /\ code' = code \o [k \in DOMAIN Dynamic(m) |-> [op |-> "dynlib", id |-> DataItem(Dynamic(m)[k])]]
                       \o <<[op |-> "call", id |-> top[m]]>>
                       \o (IF m \in exporters THEN <<[op |-> "set", id |-> DataItem(m)]>> ELSE <<>>)
       /\ loadedLibs' = loadedLibs \cup ToSet(Dynamic(m))
  /\ at' = at + 1
  /\ UNCHANGED <<depVars, exporters, data, functions, top>>
EnterUnnamed ==
  /\ phase = "enter" /\ at < Len(chain) /\ ~Named(chain[at + 1])
  /\ phase' = "crashed"
  /\ UNCHANGED <<users, imports, entryName, stdlib, reason, pending, loaded, table, entry, starts, marked, stack, chain,
                 exporters, data, functions, top, at, code, loadedLibs>>
EnterDone ==
  /\ phase = "enter" /\ at = Len(chain)
  /\ phase' = "linked"
  /\ UNCHANGED <<users, imports, entryName, stdlib, reason, pending, loaded, table, entry, starts, marked, stack, chain,
                 exporters, data, functions, top, at, code, loadedLibs>>

Init ==
  /\ \E given \in Programs :
       users = given.users /\ imports = given.imports /\ entryName = given.entry /\ stdlib = given.stdlib /\ exporters = given.exporters
  /\ DepInit
  /\ data = <<>> /\ functions = <<>> /\ top = <<>> /\ at = 0 /\ code = <<>> /\ loadedLibs = {}
Next == (DepNext /\ UNCHANGED <<exporters, data, functions, top, at, code, loadedLibs>>)
        \/ Merge \/ BeginMerge \/ BeginEntry \/ Enter \/ EnterUnnamed \/ EnterDone

Spec == Init /\ [][Next]_vars /\ WF_vars(Next)

-----------------------------------------------------------------------------
(* What can be reached from a set of modules over a relation, for the      *)
(* properties: what is in every set that has it and lacks no neighbour.    *)
ClosedUnder(C, R) == \A e \in R : e[1] \in C => e[2] \in C
ReachedFrom(S, R) ==
  LET all == S \cup {e[2] : e \in R}
  IN  {n \in all : \A C \in SUBSET all : S \subseteq C /\ ClosedUnder(C, R) => n \in C}
Edges(kinds) == UNION {{<<m, i.name>> : i \in {j \in table[m] : j.kind \in kinds /\ j.name \in Modules}} : m \in Modules}
OnCircle(m, R) == m \in ReachedFrom({e[2] : e \in {d \in R : d[1] = m}}, R)

(* What the sources say, with the standard library that every module but   *)
(* itself uses                                                             *)
Available == ToSet(users) \cup Libraries \cup (IF stdlib THEN {STD} ELSE {})
SourceEdges ==
  UNION {{<<m, i.name>> : i \in {j \in imports[m] : j.name \in Available}}
         \cup (IF stdlib /\ m # STD THEN {<<m, STD>>} ELSE {}) : m \in Available}

Ended == phase \in {"linked", "failed", "crashed"}

(* The state of the linker has the types that the code declares. *)
TypeOK ==
  /\ phase \in {"walk", "cycle", "wipe", "chain", "merge", "enter", "linked", "failed", "crashed"}
  /\ reason \in {"", "missing", "library", "entry", "cycle"} /\ (reason # "") = (phase = "failed")
  /\ ToSet(pending) \cup loaded \cup Modules \cup ToSet(starts) \cup marked \cup ToSet(stack) \cup ToSet(chain) \subseteq ToSet(Names)
  /\ entry \in ToSet(Names) \cup {""} /\ at \in 0..Len(chain) /\ loadedLibs \subseteq ToSet(Names)
  /\ \A m \in Modules : \A i \in table[m] : i.static \in BOOLEAN

(* The walk takes every module once: none is lost and none is loaded       *)
(* twice, although libraries come in at the other end of the list while    *)
(* their importer is still in it.                                          *)
WalkedOnce ==
  /\ IsInjective(pending)
  /\ phase = "walk" => Modules = loaded /\ loaded \cap ToSet(pending) = {}
  /\ phase = "cycle" => Modules = ReachedFrom(ToSet(users) \cup (IF stdlib THEN {STD} ELSE {}), SourceEdges)

(* A circle is reported exactly when some module imports itself by paths,  *)
(* directly or through others; a module that is imported on two ways is    *)
(* none.                                                                   *)
CircleExact ==
  /\ reason = "cycle" => OnCircle(Head(starts), Edges({"user"}))
  /\ phase = "wipe" /\ marked = {} => \A m \in Modules : ~OnCircle(m, Edges({"user"}))

(* What the entry needs, according to the sources                          *)
Needed == ReachedFrom({entry}, SourceEdges)

(* The removal of unused modules takes nothing that the entry needs,       *)
(* however it finds its way through the table it erases from.              *)
WipedExact == phase = "chain" => Needed \subseteq Modules

(* The chain has what the entry needs and nothing else, each module behind *)
(* all modules it imports, and ends with the entry.                        *)
ChainInOrder ==
  phase = "merge" /\ at = 0 =>
    /\ ToSet(chain) = Needed /\ Last(chain) = entry
    /\ \A p \in DOMAIN chain : \A n \in NamesOf(table[chain[p]]) \cap Modules : \E q \in 1..(p - 1) : chain[q] = n

(* Of the modules exactly those that the entry needs are linked, each      *)
(* behind what it imports.                                                 *)
LoadsInOrder == TypeOK /\ WalkedOnce /\ WipedExact /\ ChainInOrder

(* The functions of the p-th module of the chain begin behind those of the *)
(* modules before it.                                                      *)
BaseOf(p) ==
  LET upTo[q \in 0 .. Len(chain)] == IF q = 0 THEN 0 ELSE upTo[q - 1] + FunctionCount[chain[q]]
  IN  upTo[p - 1]

(* What a number meant in a module, and what it means in the program       *)
MeantHere(m, ref) == IF ref.to = "string" THEN StringsOf(m)[CHOOSE k \in DOMAIN StringsOf(m) : IdOf(m, k) = ref.id] ELSE <<m, ref.id>>

(* Every reference of the merged program to a string or a function has the *)
(* value it had in its module, wherever the module is in the chain and     *)
(* however its strings were numbered.                                      *)
MergedMeant ==
  phase = "enter" /\ at = 0 =>
    \A p \in DOMAIN chain : \A f \in 1..FunctionCount[chain[p]] : \A k \in DOMAIN RefsOf(chain[p], f) :
      LET m == chain[p]
          ref == functions[BaseOf(p) + f][k]
      IN  (IF ref.to = "string" THEN data[ref.id + 1] ELSE <<m, ref.id - BaseOf(p)>>) = MeantHere(m, RefsOf(m, f)[k])

CalleeOf(c) == CHOOSE m \in Modules : \E p \in DOMAIN chain : chain[p] = m /\ BaseOf(p) + FunctionCount[m] - 1 = c.id
StoredAt(n, q) ==
  /\ code[q].op = "set" /\ data[code[q].id + 1] = n
  /\ code[q - 1].op = "call" /\ CalleeOf(code[q - 1]) = n
LoadedAt(n, q) == code[q].op = "dynlib" /\ data[code[q].id + 1] = n

(* A module that is given to the linker, or that two of the modules met in *)
(* the walk ask for, by its plain name                                     *)
AsksFor(m, n) == \E i \in imports[m] : i.name = n /\ i.kind = "sys"
Shared(n) ==
  \/ n \in ToSet(users) \cup (IF stdlib THEN {STD} ELSE {})
  \/ \E m, k \in loaded : m # k /\ AsksFor(m, n) /\ AsksFor(k, n)

(* When the top level of a module is called, what it imports is there: the *)
(* modules that export have been called and stored under their names, and  *)
(* nothing has been stored over that; and the libraries that were not      *)
(* found have been loaded by the program.                                  *)
(* static_linked is set for the first importer of a library only, so that  *)
(* another importer of the same plain name loads it as if it had not been  *)
(* found, and an empty object goes over the exports (xjs_depwalk.c:202     *)
(* means to prevent that): of what is shared this says only that it has    *)
(* been stored once.                                                       *)
ImportsThere ==
  phase = "linked" =>
    \A p \in DOMAIN code : code[p].op = "call" =>
      \A i \in table[CalleeOf(code[p])] :
        IF i.name \in Modules
        THEN i.name \in exporters =>
               \E q \in 2..(p - 1) : /\ StoredAt(i.name, q)
                                     /\ Shared(i.name) \/ \A r \in (q + 1)..(p - 1) : ~LoadedAt(i.name, r)
        ELSE \E q \in 1..(p - 1) : LoadedAt(i.name, q)

(* No library is loaded by the program twice ("Prevent duplicate loading"  *)
(* in xjs_l1_merge_ir), whoever imports it.                                *)
DynlibOnce ==
  \A p, q \in DOMAIN code : p # q /\ code[p].op = "dynlib" /\ code[q].op = "dynlib" => data[code[p].id + 1] # data[code[q].id + 1]

(* The merged program is its modules: their references, and an entry that  *)
(* runs each with its imports there.                                       *)
ProgramMeant == MergedMeant /\ ImportsThere /\ DynlibOnce

(* The linker comes to an end, with a program or an error, unless          *)
(* libraries import each other in a circle.                                *)
NoLibraryCircle == \A m \in Available : ~OnCircle(m, SourceEdges) \/ OnCircle(m, {e \in SourceEdges : \E i \in imports[e[1]] : i.name = e[2] /\ i.kind = "user"})
LinkEnds == NoLibraryCircle => <>Ended
=============================================================================
