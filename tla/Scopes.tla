-------------------------------- MODULE Scopes --------------------------------
(***************************************************************************)
(* What the virtual machine promises about variables: lexical scopes.  A   *)
(* call opens a scope within the scope in which its function was made; a   *)
(* name means the innermost variable of that name.                         *)
(*                                                                         *)
(* One hole of the implementation is part of the promise: while a scope    *)
(* has no variable yet, a declaration may get lost, for want of memory,    *)
(* and nobody is told.  A parameter that got lost is assigned to the       *)
(* variable of that name further out.                                      *)
(***************************************************************************)
EXTENDS Naturals, Sequences

CONSTANTS Symbols,    \* the names of variables
          Value,      \* what a variable may hold
          Undefined   \* what a declared variable holds

VARIABLES scope,      \* id -> [outer, bound], outer 0 for the global one
          open,       \* the scopes of the active calls, the running one last
          closure,    \* function -> the scope it was made in
          got,        \* what the last instruction was about and came to
          ended       \* "running" or why no more

vars == <<scope, open, closure, got, ended>>

Top == open[Len(open)]
Binds(s, n) == n \in DOMAIN scope[s].bound

(* The innermost scope around s that binds n, 0 if there is none.          *)
Binding(s, n) ==
  LET around[t \in {0} \cup DOMAIN scope] ==
        IF t = 0 THEN 0 ELSE IF Binds(t, n) THEN t ELSE around[scope[t].outer]
  IN  around[s]

Told(op, n) == got'.op = op /\ got'.name = n /\ got'.value \in Value
Bind(s, n, v) == [scope EXCEPT ![s].bound = [m \in DOMAIN @ \cup {n} |-> IF m = n THEN v ELSE @[m]]]

Declare(n) ==
  /\ Told("declare", n)
  /\ \/ scope' = Bind(Top, n, Undefined)
     \/ DOMAIN scope[Top].bound = {} /\ scope' = scope
  /\ UNCHANGED <<open, closure, ended>>

(* A parameter.                                                            *)
Argument(n) ==
  /\ Told("argument", n)
  /\ \/ scope' = Bind(Top, n, got'.value)
     \/ /\ DOMAIN scope[Top].bound = {} /\ Binding(Top, n) # 0
        /\ scope' = Bind(Binding(Top, n), n, got'.value)
  /\ UNCHANGED <<open, closure, ended>>

Load(n) ==
  /\ Binding(Top, n) # 0
  /\ Told("load", n) /\ got'.value = scope[Binding(Top, n)].bound[n]
  /\ UNCHANGED <<scope, open, closure, ended>>

Store(n) ==
  /\ Binding(Top, n) # 0
  /\ Told("store", n)
  /\ scope' = Bind(Binding(Top, n), n, got'.value)
  /\ UNCHANGED <<open, closure, ended>>

(* A name that means nothing ends the run.                                 *)
Unbound(n) ==
  /\ Binding(Top, n) = 0
  /\ ended' = "no variable"
  /\ UNCHANGED <<scope, open, closure>>

Extended(f, x, v) == [y \in DOMAIN f \cup {x} |-> IF y = x THEN v ELSE f[y]]

Close ==
  /\ \E f \in DOMAIN closure' \ DOMAIN closure : closure' = Extended(closure, f, Top)
  /\ got'.op = "function"
  /\ UNCHANGED <<scope, open, ended>>

Enter ==
  /\ \E s \in DOMAIN scope' \ DOMAIN scope, f \in DOMAIN closure :
       /\ scope' = Extended(scope, s, [outer |-> closure[f], bound |-> <<>>])
       /\ open' = Append(open, s)
       /\ got'.op \in {"call", "new"} /\ got'.of.is = f
  /\ UNCHANGED <<closure, ended>>

Leave ==
  /\ Len(open) > 1
  /\ open' = SubSeq(open, 1, Len(open) - 1)
  /\ got'.op = "return"
  /\ UNCHANGED <<scope, closure, ended>>

(* Instructions about other things, and other ends.                        *)
Else ==
  /\ \/ ended' \notin {"running", "no variable"}
     \/ ended' = "running" /\ got'.op \in {"object", "set", "get"}
  /\ UNCHANGED <<scope, open, closure>>

Begin ==
  /\ Len(open) = 1 /\ DOMAIN scope = {open[1]} /\ scope[open[1]].outer = 0
  /\ \A f \in DOMAIN closure : closure[f] = open[1]
  /\ ended = "running"

ScopesNext ==
  /\ ended = "running"
  /\ \/ \E n \in Symbols : Declare(n) \/ Argument(n) \/ Load(n) \/ Store(n) \/ Unbound(n)
     \/ Close \/ Enter \/ Leave \/ Else

ScopesSpec == Begin /\ [][ScopesNext]_vars
================================================================================
