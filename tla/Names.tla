--------------------------------- MODULE Names ---------------------------------
(***************************************************************************)
(* How a running program finds things by name: the environments of calls   *)
(* (rts/src/xjr_env.c), the property lists of objects and functions        *)
(* (rts/src/xjr_val.c) and the instructions on both (rts/src/xjr_vm.c).    *)
(*                                                                         *)
(* An environment or a thing is known by its place in envs and things, the *)
(* invalid environment by 0.  The registers are not kept: an instruction   *)
(* takes any value the program may have at hand.  The heap may refuse any  *)
(* block.  Properties by index are in ArrayList, unused blocks are in Gc.  *)
(***************************************************************************)
EXTENDS Naturals, Sequences, SequencesExt

CONSTANTS Symbols,    \* the names of variables
          Literals,   \* the values of the program's literals
          Programs,   \* [does, keys, keeps, max]: the instructions a program
                      \* is made of, the keys it uses, the things it keeps
                      \* and bounds for what it makes
          MaxThings   \* the largest of those for things
ASSUME NamesAssumption ==
  /\ Symbols # {} /\ MaxThings \in Nat \ 0 .. 2
  /\ \A v \in Literals : v.type \notin {"object", "function", "undefined", "null"}
  /\ \A p \in Programs : p.max.things \in 0 .. MaxThings

VARIABLES program,    \* the program
          envs,       \* [parent, vars]
          things,     \* [type, props, proto, prototype, env]
          frames,     \* [env, this, type, args] of the active calls
          looking,    \* where OBJGET is in a chain of prototypes
          got,        \* what the last instruction was about and came to
          status      \* "running" or why the machine stopped

vars == <<program, envs, things, frames, looking, got, status>>

Undefined == [type |-> "undefined", is |-> 0]
Null == [type |-> "null", is |-> 0]
Str(n) == [type |-> "string", is |-> n]
Proto == Str(1)          \* "__proto__"
Prototype == Str(2)      \* "prototype"
Call == Str(3)           \* "call"
Thing(u) == [type |-> things[u].type, is |-> u]
IsThing(v) == v.type \in {"object", "function"}
IsFunction(v) == v.type = "function"
AtHand == Literals \cup {Thing(u) : u \in DOMAIN things \cap program.keeps}

(* Values of every kind.                                                   *)
Values == {Undefined, Null} \cup Literals \cup [type : {"object", "function"}, is : 1 .. MaxThings]

(* There is one undefined and one null.                                    *)
ASSUME KeysAssumption ==
  \A p \in Programs : \A k \in p.keys : k.type \in {"undefined", "null"} => k \in {Undefined, Null}

Running == frames[Len(frames)]
Nothing == [on |-> FALSE, obj |-> Undefined, key |-> Undefined, cur |-> Undefined]
Told(op, name, of, key, value, receiver) ==
  [op |-> op, name |-> name, of |-> of, key |-> key, value |-> value, receiver |-> receiver]
Silent == Told("none", "", Undefined, Undefined, Undefined, Undefined)

Stop(why) == status' = why /\ got' = Silent /\ UNCHANGED <<envs, things, frames>>
Instruction(kind) == kind \in program.does /\ status = "running" /\ ~looking.on

----------------------------------------------------------------------------
(* Environments.                                                           *)
PlaceOf(variables, name) == SelectInSeq(variables, LAMBDA v : v.name = name)

(* xjr_vm_env_set_var.  The first variable is put into the environment     *)
(* without a look at whether there was a block for it.                     *)
SetVar(e, name, value, room) ==
  LET variables == envs[e].vars
      k == PlaceOf(variables, name)
      put == IF k # 0 THEN ReplaceAt(variables, k, [name |-> name, value |-> value])
             ELSE IF room THEN Append(variables, [name |-> name, value |-> value])
             ELSE variables
  IN  [ok |-> k # 0 \/ room \/ variables = <<>>, envs |-> [envs EXCEPT ![e].vars = put]]

(* The loop of xjr_vm_op_load and xjr_vm_op_store: the first environment   *)
(* outward that has the variable.                                          *)
FindVar(es, e, name) ==
  LET from[i \in 0 .. Len(es)] ==
        IF i = 0 THEN 0 ELSE IF PlaceOf(es[i].vars, name) # 0 THEN i ELSE from[es[i].parent]
  IN  from[e]

Assigned(es, e, name, value) ==
  [es EXCEPT ![e].vars = ReplaceAt(@, PlaceOf(@, name), [name |-> name, value |-> value])]

VarsCount == FoldLeft(LAMBDA n, e : n + Len(e.vars), 0, envs)
PropsCount == FoldLeft(LAMBDA n, t : n + Len(t.props), 0, things)

OpDeclVar(name) ==
  /\ Instruction("declvar")
  /\ \E room \in {FALSE} \cup (IF VarsCount < program.max.vars THEN {TRUE} ELSE {}) :
       LET set == SetVar(Running.env, name, Undefined, room)
       IN  IF set.ok
           THEN /\ envs' = set.envs
                /\ got' = Told("declare", name, Undefined, Undefined, Undefined, Undefined)
                /\ UNCHANGED <<things, frames, status>>
           ELSE Stop("failed")
  /\ UNCHANGED <<program, looking>>

OpLoad(name) ==
  /\ Instruction("load")
  /\ LET e == FindVar(envs, Running.env, name)
     IN  IF e = 0 THEN Stop("no variable")
         ELSE /\ got' = Told("load", name, Undefined, Undefined,
                             envs[e].vars[PlaceOf(envs[e].vars, name)].value, Undefined)
              /\ UNCHANGED <<envs, things, frames, status>>
  /\ UNCHANGED <<program, looking>>

OpStore(name, value) ==
  /\ Instruction("store")
  /\ LET e == FindVar(envs, Running.env, name)
     IN  IF e = 0 THEN Stop("no variable")
         ELSE /\ envs' = Assigned(envs, e, name, value)
              /\ got' = Told("store", name, Undefined, Undefined, value, Undefined)
              /\ UNCHANGED <<things, frames, status>>
  /\ UNCHANGED <<program, looking>>

(* XJR_BC_OP_ARG: declare, then store; idx counts from zero.               *)
OpArg(name, idx) ==
  /\ Instruction("arg")
  /\ \E room \in {FALSE} \cup (IF VarsCount < program.max.vars THEN {TRUE} ELSE {}) :
       LET set == SetVar(Running.env, name, Undefined, room)
           e == FindVar(set.envs, Running.env, name)
           value == IF idx < Len(Running.args) THEN Running.args[idx + 1] ELSE Undefined
       IN  IF ~set.ok THEN Stop("failed")
           ELSE IF e = 0 THEN Stop("no variable")
           ELSE /\ envs' = Assigned(set.envs, e, name, value)
                /\ got' = Told("argument", name, Undefined, Undefined, value, Undefined)
                /\ UNCHANGED <<things, frames, status>>
  /\ UNCHANGED <<program, looking>>

----------------------------------------------------------------------------
(* Property lists.                                                         *)
(* xjr_val_eq2                                                             *)
Eq2(k, l) ==
  \/ k = l /\ k.type \in {"integer", "boolean", "string"}
  \/ {k.type, l.type} \subseteq {"undefined", "null"}

EntryOf(props, key) == SelectInSeq(props, LAMBDA p : Eq2(p.key, key))

(* A slip: a property that is there is put behind the others.              *)
PropertiesAppended(thing, key, value) ==
  [thing EXCEPT !.props = Append(@, [key |-> key, type |-> "value", value |-> value])]

(* xjr_val_properties_set of a value, with a block at hand.                *)
PropertiesSet(thing, key, value) ==
  LET k == EntryOf(thing.props, key)
  IN  CASE key = Proto -> [thing EXCEPT !.proto = value]
        [] key = Prototype -> [thing EXCEPT !.prototype = value]
        [] key \notin {Proto, Prototype} /\ k # 0 ->
             [thing EXCEPT !.props[k].type = "value", !.props[k].value = value]
        [] OTHER -> [thing EXCEPT !.props = Append(@, [key |-> key, type |-> "value", value |-> value])]

NeedsBlock(thing, key) == key \notin {Proto, Prototype} /\ EntryOf(thing.props, key) = 0

(* xjr_vm_objset                                                           *)
OpObjSet(obj, key, value) ==
  /\ Instruction("set")
  /\ IF ~IsThing(obj) THEN Stop("failed")
     ELSE \E room \in BOOLEAN :
            IF NeedsBlock(things[obj.is], key) /\ ~room THEN Stop("failed")
            ELSE /\ PropsCount < program.max.props \/ ~NeedsBlock(things[obj.is], key)
                 /\ things' = [things EXCEPT ![obj.is] = PropertiesSet(@, key, value)]
                 /\ got' = Told("set", "", obj, key, value, Undefined)
                 /\ UNCHANGED <<envs, frames, status>>
  /\ UNCHANGED <<program, looking>>

(* xjr_vm_objget begins.                                                   *)
OpObjGet(obj, key) ==
  /\ Instruction("get")
  /\ looking' = [on |-> TRUE, obj |-> obj, key |-> key, cur |-> obj]
  /\ UNCHANGED <<program, envs, things, frames, got, status>>

(* xjr_val_properties_get, found: what cur has for key.                    *)
Has(thing, key) == key \in {Proto, Prototype} \/ EntryOf(thing.props, key) # 0
Property(thing, key) ==
  CASE key = Proto -> [key |-> key, type |-> "value", value |-> thing.proto]
    [] key = Prototype -> [key |-> key, type |-> "value", value |-> thing.prototype]
    [] OTHER -> thing.props[EntryOf(thing.props, key)]

(* A slip: the getter gets the object that has it.                         *)
FoundInHolder(l, p) ==
  got' = Told("get", "", l.obj, l.key, p.value, IF p.type = "getter" THEN l.cur ELSE Undefined)

(* A value is put into the register; a getter is called for the object     *)
(* that was asked, if there is a block for its environment.                *)
Found(l, p) ==
  got' = Told("get", "", l.obj, l.key, p.value, IF p.type = "getter" THEN l.obj ELSE Undefined)

(* A slip: the prototype is taken of the object that was asked.            *)
LookOnceMore(l) == [l EXCEPT !.cur = things[l.obj.is].proto]

Further(l) == [l EXCEPT !.cur = things[l.cur.is].proto]

(* One turn of the loop of xjr_vm_objget.                                  *)
Look ==
  /\ status = "running" /\ looking.on
  /\ IF ~IsThing(looking.cur) THEN Stop("no property") /\ looking' = Nothing
     ELSE IF ~Has(things[looking.cur.is], looking.key)
     THEN looking' = Further(looking) /\ UNCHANGED <<envs, things, frames, got, status>>
     ELSE /\ looking' = Nothing
          /\ LET p == Property(things[looking.cur.is], looking.key)
             IN  \/ Found(looking, p) /\ UNCHANGED <<envs, things, frames, status>>
                 \/ p.type = "getter" /\ Stop("failed")
  /\ UNCHANGED program

----------------------------------------------------------------------------
(* Things and calls.                                                       *)
NewEnv(parent) == [parent |-> parent, vars |-> <<>>]
NewThing(type, proto, prototype, env) ==
  [type |-> type, props |-> <<>>, proto |-> proto, prototype |-> prototype, env |-> env]

(* What xjr_bltin_init leaves: the prototypes of all objects and of all    *)
(* functions; the latter has a getter, a native function.                  *)
ObjectPrototype == [type |-> "object", is |-> 1]
FunctionPrototype == [type |-> "object", is |-> 2]
Getter == [type |-> "function", is |-> 3]

(* XJR_BC_OP_LOAD_OBJECT: without a block the register gets undefined.     *)
OpLoadObject ==
  /\ Instruction("object") /\ Len(things) < program.max.things
  /\ \/ /\ things' = Append(things, NewThing("object", ObjectPrototype, Undefined, 0))
        /\ got' = Told("object", "", Undefined, Undefined, [type |-> "object", is |-> Len(things) + 1], Undefined)
        /\ UNCHANGED <<envs, frames, status>>
     \/ /\ got' = Told("object", "", Undefined, Undefined, Undefined, Undefined)
        /\ UNCHANGED <<envs, things, frames, status>>
  /\ UNCHANGED <<program, looking>>

(* XJR_BC_OP_LOAD_FUNCTION: the function, its environment and the object   *)
(* in its "prototype", which may be missing.  Without a block for one of   *)
(* the first two the machine writes to a block that is not the function's. *)
OpLoadFunction ==
  /\ Instruction("function") /\ Len(things) + 2 <= program.max.things /\ Len(envs) < program.max.envs
  /\ \E objects \in BOOLEAN :
       /\ envs' = Append(envs, NewEnv(Running.env))
       /\ LET f == Len(things) + 1
          IN  /\ things' = things
                    \o <<NewThing("function", FunctionPrototype,
                                  IF objects THEN [type |-> "object", is |-> f + 1] ELSE Undefined,
                                  Len(envs) + 1)>>
                    \o (IF objects THEN <<NewThing("object", Undefined, Undefined, 0)>> ELSE <<>>)
              /\ got' = Told("function", "", Undefined, Undefined, [type |-> "function", is |-> f], Undefined)
  /\ UNCHANGED <<program, frames, looking, status>>

LoadFunctionFails == Instruction("function") /\ Stop("corrupted") /\ UNCHANGED <<program, looking>>

(* A slip: the callee's environment is within its caller's.                *)
CallEnvOfCaller(callee) == NewEnv(Running.env)

(* xjr_vm_env_new(f->env) in xjr_vm_op_call and xjr_vm_op_new              *)
CallEnv(callee) == NewEnv(things[callee.is].env)

Pushed(type, this, args) ==
  Append(frames, [env |-> Len(envs) + 1, this |-> this, type |-> type, args |-> args])

OpCall(callee, this, args) ==
  /\ Instruction("call") /\ Len(frames) < program.max.calls
  /\ \/ /\ IsFunction(callee) /\ callee # Getter /\ Len(envs) < program.max.envs
        /\ envs' = Append(envs, CallEnv(callee))
        /\ frames' = Pushed("CALL", this, args)
        /\ got' = Told("call", "", callee, Undefined, Undefined, Undefined)
        /\ UNCHANGED <<things, status>>
     \/ Stop("failed")
  /\ UNCHANGED <<program, looking>>

(* XJR_BC_OP_NEW: "this" looks further in callee.prototype.                *)
OpNew(callee, args) ==
  /\ Instruction("new") /\ Len(frames) < program.max.calls /\ Len(things) < program.max.things
  /\ \/ /\ IsFunction(callee) /\ callee # Getter /\ Len(envs) < program.max.envs
        /\ things' = Append(things, NewThing("object", things[callee.is].prototype, Undefined, 0))
        /\ envs' = Append(envs, CallEnv(callee))
        /\ LET this == [type |-> "object", is |-> Len(things) + 1]
           IN  /\ frames' = Pushed("NEW", this, args)
               /\ got' = Told("new", "", callee, Undefined, this, Undefined)
        /\ UNCHANGED status
     \/ Stop("failed")
     \/ IsThing(callee) /\ Stop("corrupted")
  /\ UNCHANGED <<program, looking>>

(* xjr_vm_op_ret: a constructor gives what it was called for.              *)
OpRet(value) ==
  /\ Instruction("ret") /\ Len(frames) > 1
  /\ frames' = Front(frames)
  /\ got' = Told("return", "", Undefined, Undefined,
                 IF Running.type = "NEW" THEN Running.this ELSE value, Undefined)
  /\ UNCHANGED <<program, envs, things, looking, status>>

Init ==
  /\ program \in Programs
  /\ envs = <<[parent |-> 0, vars |-> <<[name |-> CHOOSE n \in Symbols : TRUE, value |-> ObjectPrototype]>>], NewEnv(1)>>
  /\ things = <<NewThing("object", Null, Undefined, 0),
                [NewThing("object", ObjectPrototype, Undefined, 0) EXCEPT
                   !.props = <<[key |-> Call, type |-> "getter", value |-> Getter]>>],
                NewThing("function", FunctionPrototype, Undefined, 2)>>
  /\ frames = <<[env |-> 1, this |-> Undefined, type |-> "CALL", args |-> <<>>]>>
  /\ looking = Nothing /\ got = Silent /\ status = "running"

Variables == \E n \in Symbols : OpDeclVar(n) \/ OpLoad(n) \/ OpArg(n, 0) \/ OpArg(n, 1) \/ \E v \in Literals : OpStore(n, v)
Calls ==
  \/ \E f \in AtHand, v \in Literals : OpCall(f, Undefined, <<v>>) \/ OpNew(f, <<v>>)
  \/ \E v \in Literals : OpRet(v)
Properties ==
  \E o \in AtHand, k \in program.keys :
    OpObjGet(o, k) \/ \E v \in (IF k \in {Proto, Prototype} THEN AtHand ELSE Literals) : OpObjSet(o, k, v)

Next == Variables \/ Properties \/ Look \/ Calls \/ OpLoadObject \/ OpLoadFunction \/ LoadFunctionFails

(* xjr_vm_objget runs its loop without a pause.                            *)
Spec == Init /\ [][Next]_vars /\ WF_vars(Look)

----------------------------------------------------------------------------
(* An outer environment is older than those in it, no two active calls     *)
(* share one, a search is at something that there is, and the machine says *)
(* why it stopped.                                                         *)
TypeOK ==
  /\ \A e \in DOMAIN envs : envs[e].parent \in 0 .. e - 1 /\ \A i \in DOMAIN envs[e].vars : envs[e].vars[i].name \in Symbols
  /\ \A u \in DOMAIN things : IsFunction(things[u]) <=> things[u].env \in DOMAIN envs
  /\ \A i, j \in DOMAIN frames : i # j => frames[i].env # frames[j].env
  /\ looking.on /\ IsThing(looking.cur) => looking.cur.is \in DOMAIN things
  /\ status \in {"running", "failed", "no variable", "no property", "corrupted"}

(* A list has one entry of a name, and of all the keys that compare equal, *)
(* whatever order they were set in: the first one found is the only one.   *)
OneEntryEach ==
  /\ \A e \in DOMAIN envs : \A i, j \in DOMAIN envs[e].vars :
       envs[e].vars[i].name = envs[e].vars[j].name => i = j
  /\ \A u \in DOMAIN things : \A i, j \in DOMAIN things[u].props :
       Eq2(things[u].props[i].key, things[u].props[j].key) => i = j

(* Environments form trees and lists have no entry twice.                  *)
ListsSound == TypeOK /\ OneEntryEach

(* Variables have the scopes of the text of the program: what a name means *)
(* depends on where a function was made and not on who calls it, and calls *)
(* of one function have variables of their own.                            *)
ClosureEnvs == {things[u].env : u \in {w \in DOMAIN things : IsFunction(things[w])}}
Outer(e) == IF envs[e].parent = 0 THEN 0 ELSE envs[envs[e].parent].parent
Bound(e) ==
  [n \in {envs[e].vars[i].name : i \in DOMAIN envs[e].vars} |-> envs[e].vars[PlaceOf(envs[e].vars, n)].value]
Lexical == INSTANCE Scopes WITH
  Value <- Values,
  scope <- [e \in DOMAIN envs \ ClosureEnvs |-> [outer |-> Outer(e), bound |-> Bound(e)]],
  open <- [i \in DOMAIN frames |-> frames[i].env],
  closure <- [u \in {w \in DOMAIN things : IsFunction(things[w])} |-> envs[things[u].env].parent],
  ended <- status
ScopesMeant == Lexical!ScopesSpec

(* Properties are found where they were set, in the nearest object of the  *)
(* chain of prototypes, with the value that was set last, and a getter is  *)
(* called for the object that was asked.                                   *)
Findable(key) == Eq2(key, key)
Nullish(key) == IF key = Null THEN Undefined ELSE key
Own(props) ==
  [key \in {Nullish(k) : k \in {props[i].key : i \in {j \in DOMAIN props : Findable(props[j].key)}}} |->
     LET p == props[EntryOf(props, key)] IN [type |-> p.type, value |-> p.value]]
Mapping == INSTANCE Objects WITH
  Keys <- program.keys, Value <- Values, Name <- Nullish,
  object <- [u \in DOMAIN things |->
               [own |-> Own(things[u].props), proto |-> things[u].proto, prototype |-> things[u].prototype]],
  ended <- status
ObjectsMeant == Mapping!ObjectsSpec

(* A search for a property ends, unless the program has bent the chain of  *)
(* prototypes into a circle.                                               *)
ChainEnds(v) ==
  LET ends[n \in 0 .. Len(things), w \in Values] ==
        ~IsThing(w) \/ (n > 0 /\ ends[n - 1, things[w.is].proto])
  IN  ends[Len(things), v]
LookupEnds == looking.on /\ ChainEnds(looking.cur) ~> ~looking.on
================================================================================
