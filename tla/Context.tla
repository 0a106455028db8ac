------------------------------ MODULE Context ------------------------------
(***************************************************************************)
(* bst::context: objects that hold a map, a sub context and a global context. *)
(* The map has a lock, so each call on it is one step. The two pointers have  *)
(* none: get_sub, set_sub, get_global and set_global are sequences of reads   *)
(* and writes, one step each (a test and the return of what it found are      *)
(* one). A context is destroyed with its last shared_ptr: see Drop.           *)
(***************************************************************************)
EXTENDS FiniteSets

CONSTANTS
  Threads,    \* who calls
  Contexts,   \* context objects
  Fresh,      \* those make_shared<context> returns
  Keys, Values,
  Types,      \* what get<T> is called for
  TypeOf,     \* the type of a value
  Null        \* the null pointer, and the absent value (nullopt)

ASSUME ContextAssumption ==
  /\ TypeOf \in [Values -> Types]
  /\ Fresh \subseteq Contexts
  /\ Null \notin Contexts \cup Values \cup Threads

VARIABLES
  maker,   \* who made a context; Null: it does not exist
  data,    \* ctx_: the map of each context
  sub,     \* sub_ctx_
  glob,    \* g_ctx_
  call,    \* each thread's call on the pointers: the step it is at, this, argument
  got      \* the context each thread's last call returned

pointers == <<sub, glob>>
contextVars == <<maker, data, sub, glob, call, got>>

Empty == [k \in Keys |-> Null]
Idle == [op |-> "none", self |-> Null, arg |-> Null]
Steps == {"none", "get_sub", "make_sub", "copy_global", "get_global", "make_global",
          "set_sub", "pull_global", "set_global"}

ContextInit ==
  /\ maker = [c \in Contexts |-> Null]
  /\ data = [c \in Contexts |-> Empty]
  /\ sub = [c \in Contexts |-> Null] /\ glob = [c \in Contexts |-> Null]
  /\ call = [t \in Threads |-> Idle] /\ got = [t \in Threads |-> Null]

-----------------------------------------------------------------------------
(* Plausible slips: mutated forms of definitions below, no part of the model. *)

PullNothing(c) == glob[c]

-----------------------------------------------------------------------------
(* The map of a context.                                                    *)

\* get<T>: nullopt too if the value has another type.
Value(c, k, type) ==
  IF data[c][k] # Null /\ TypeOf[data[c][k]] = type THEN data[c][k] ELSE Null

Put(c, k, v) == data' = [data EXCEPT ![c][k] = v]    \* set; remove if v is Null
Wipe(c) == data' = [data EXCEPT ![c] = Empty]        \* clear

-----------------------------------------------------------------------------
(* The pointers of a context.                                               *)

Quiet(t) == call[t] = Idle
Enter(t, op, c, arg) == Quiet(t) /\ call' = [call EXCEPT ![t] = [op |-> op, self |-> c, arg |-> arg]]
GoOn(t, op) == call' = [call EXCEPT ![t].op = op] /\ UNCHANGED got
Return(t, c) == call' = [call EXCEPT ![t] = Idle] /\ got' = [got EXCEPT ![t] = c]

\* make_shared: which object does not matter.
Unmade == {c \in Fresh : maker[c] = Null}
New == CHOOSE c \in Unmade : TRUE
Make(t, c) == maker' = [maker EXCEPT ![c] = t]

\* Contexts nobody refers to any more: their maps are cleared, their pointers gone.
Drop(C) ==
  /\ maker' = [c \in Contexts |-> IF c \in C THEN Null ELSE maker[c]]
  /\ data' = [c \in Contexts |-> IF c \in C THEN Empty ELSE data[c]]
  /\ sub' = [c \in Contexts |-> IF c \in C THEN Null ELSE sub[c]]
  /\ glob' = [c \in Contexts |-> IF c \in C THEN Null ELSE glob[c]]

TestSub(t) ==
  /\ call[t].op = "get_sub"
  /\ LET c == sub[call[t].self] IN IF c # Null THEN Return(t, c) ELSE GoOn(t, "make_sub")
  /\ UNCHANGED <<maker, data, pointers>>

MakeSub(t) ==
  /\ call[t].op = "make_sub" /\ Unmade # {}
  /\ Make(t, New) /\ sub' = [sub EXCEPT ![call[t].self] = New]
  /\ GoOn(t, "copy_global")
  /\ UNCHANGED <<data, glob>>

CopyGlobal(t) ==
  LET c == call[t].self IN
  /\ call[t].op = "copy_global"
  /\ glob' = [glob EXCEPT ![sub[c]] = glob[c]]
  /\ Return(t, sub[c])
  /\ UNCHANGED <<maker, data, sub>>

TestGlobal(t) ==
  /\ call[t].op = "get_global"
  /\ LET c == glob[call[t].self] IN IF c # Null THEN Return(t, c) ELSE GoOn(t, "make_global")
  /\ UNCHANGED <<maker, data, pointers>>

MakeGlobal(t) ==
  /\ call[t].op = "make_global" /\ Unmade # {}
  /\ Make(t, New) /\ glob' = [glob EXCEPT ![call[t].self] = New]
  /\ Return(t, New)
  /\ UNCHANGED <<data, sub>>

\* set_sub of a context; with the null pointer it crashes and nobody calls it so.
SetSub(t) ==
  /\ call[t].op = "set_sub"
  /\ sub' = [sub EXCEPT ![call[t].self] = call[t].arg]
  /\ GoOn(t, "pull_global")
  /\ UNCHANGED <<maker, data, glob>>

\* The sub context's global context becomes that of the context.
Pulled(c) == glob[sub[c]]

PullGlobal(t) ==
  LET c == call[t].self IN
  /\ call[t].op = "pull_global"
  /\ glob' = [glob EXCEPT ![c] = Pulled(c)]
  /\ Return(t, got[t])
  /\ UNCHANGED <<maker, data, sub>>

SetGlobal(t) ==
  /\ call[t].op = "set_global"
  /\ glob' = [glob EXCEPT ![call[t].self] = call[t].arg]
  /\ Return(t, got[t])
  /\ UNCHANGED <<maker, data, sub>>

PointerStep(t) ==
  \/ TestSub(t) \/ MakeSub(t) \/ CopyGlobal(t)
  \/ TestGlobal(t) \/ MakeGlobal(t)
  \/ SetSub(t) \/ PullGlobal(t) \/ SetGlobal(t)

-----------------------------------------------------------------------------
\* The pointers a thread's next step reads and writes.
Reads(t) ==
  LET c == call[t].self IN
  CASE call[t].op = "get_sub" -> {<<"sub", c>>}
    [] call[t].op = "get_global" -> {<<"glob", c>>}
    [] call[t].op = "copy_global" -> {<<"sub", c>>, <<"glob", c>>}
    [] call[t].op = "pull_global" -> {<<"sub", c>>, <<"glob", sub[c]>>}
    [] OTHER -> {}

Writes(t) ==
  LET c == call[t].self IN
  CASE call[t].op \in {"make_sub", "set_sub"} -> {<<"sub", c>>}
    [] call[t].op = "copy_global" -> {<<"glob", sub[c]>>}
    [] call[t].op \in {"make_global", "pull_global", "set_global"} -> {<<"glob", c>>}
    [] OTHER -> {}

ContextTypeOK ==
  /\ maker \in [Contexts -> Threads \cup {Null}]
  /\ data \in [Contexts -> [Keys -> Values \cup {Null}]]
  /\ sub \in [Contexts -> Contexts \cup {Null}] /\ glob \in [Contexts -> Contexts \cup {Null}]
  /\ call \in [Threads -> [op : Steps, self : Contexts \cup {Null}, arg : Contexts \cup {Null}]]
  /\ got \in [Threads -> Contexts \cup {Null}]
=============================================================================
