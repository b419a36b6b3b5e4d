------------------------------ MODULE WshScope ------------------------------
(***************************************************************************)
(* The shell's variables and functions: mrsh_env_set, mrsh_env_unset and   *)
(* the commands that call them, the process environment they write         *)
(* through to, and run_subshell, which without fork() copies the tables    *)
(* of mrsh_state_priv and puts the saved ones back (shell/shell.c,         *)
(* shell/task/task.c, simple_command.c, word.c, arithm.c, builtin/).       *)
(*                                                                         *)
(* A function body is a block of memory with an identity: tables hold      *)
(* pointers to it, and `live` is the set of bodies not freed yet.          *)
(***************************************************************************)
EXTENDS Integers, Sequences

CONSTANTS
    Names,      \* variable names
    Values,     \* what a script assigns; Empty is one of them
    Empty,      \* ""
    Unset,      \* no value
    Funs,       \* function names
    MaxBodies,  \* bound: function bodies allocated at the same time
    MaxDepth,   \* bound: nested subshells
    Ops         \* what the scripts do: a subset of Operations

Attribs == {"export", "readonly"}
Unchecked == {"for", "default", "arithm", "cd", "getopts"}    \* ignore "readonly"
Operations == {"assign", "allexport", "export", "unset", "prefix", "func",
               "subshell", "subfunc"} \cup Unchecked

ASSUME ValuesAssumption == Empty \in Values /\ Unset \notin Values
ASSUME BoundsAssumption == MaxBodies \in Nat /\ MaxDepth \in Nat
ASSUME OpsAssumption == Ops \subseteq Operations

VARIABLES
    variables,  \* priv->variables
    functions,  \* priv->functions: the body of each function, 0 for none
    environ,    \* the process environment
    allexport,  \* MRSH_OPT_ALLEXPORT of state->options
    saved,      \* the tables saved by the subshells in progress
    live        \* bodies allocated and not freed

vars == <<variables, functions, environ, allexport, saved, live>>

Bodies == 1..MaxBodies
NoVariable == [value |-> Unset, attribs |-> {}]

Readonly(n) == "readonly" \in variables[n].attribs
Exported(n) == "export" \in variables[n].attribs

-----------------------------------------------------------------------------
(* mrsh_env_set and mrsh_env_unset *)

mrsh_env_set_noExport(n, v, attribs) ==    \* mutant
    /\ variables' = [variables EXCEPT ![n] = [value |-> v, attribs |-> attribs]]
    /\ UNCHANGED environ
mrsh_env_set(n, v, attribs) ==
    /\ variables' = [variables EXCEPT ![n] = [value |-> v, attribs |-> attribs]]
    /\ environ' = [environ EXCEPT ![n] = v]

mrsh_env_unset(n) ==
    /\ variables' = [variables EXCEPT ![n] = NoVariable]
    /\ environ' = [environ EXCEPT ![n] = Unset]

Variable == UNCHANGED <<functions, allexport, saved, live>>

(* The commands that refuse a readonly variable. *)
MayModify_any(n) == TRUE    \* mutant
MayModify(n) == ~Readonly(n)

(* name=value: the attributes the variable had are gone. *)
run_assignments ==
    /\ "assign" \in Ops
    /\ \E n \in Names, v \in Values :
          /\ MayModify(n)
          /\ mrsh_env_set(n, v, IF allexport THEN {"export"} ELSE {})
    /\ Variable

(* export name of a variable that has no value gives it "". *)
ExportValue_null(v) == v    \* mutant
ExportValue(v) == IF v = Unset THEN Empty ELSE v

(* export and readonly, with or without =value. *)
builtin_export ==
    /\ "export" \in Ops
    /\ \E n \in Names, attrib \in Attribs :
          /\ MayModify(n)
          /\ \E v \in Values \cup {variables[n].value} :
                mrsh_env_set(n, ExportValue(v), {attrib} \cup variables[n].attribs)
    /\ Variable

builtin_unset ==
    /\ "unset" \in Ops
    /\ \E n \in Names :
          /\ variables[n] # NoVariable
          /\ MayModify(n)
          /\ mrsh_env_unset(n)
    /\ Variable

(* for name in ..., and read for each of its names: no test. *)
SetUnchecked ==
    /\ "for" \in Ops
    /\ \E n \in Names, v \in Values : mrsh_env_set(n, v, {})
    /\ Variable

(* ${name=word} and ${name:=word} *)
AssignDefault ==
    /\ "default" \in Ops
    /\ \E n \in Names, v \in Values :
          /\ variables[n].value \in {Unset, Empty}
          /\ mrsh_env_set(n, v, {})
    /\ Variable

(* $((name = expr)) and $((name op= expr)): the second keeps attributes. *)
run_arithm_assign ==
    /\ "arithm" \in Ops
    /\ \E n \in Names, v \in Values \ {Empty} :
          \E attribs \in {{}, variables[n].attribs} : mrsh_env_set(n, v, attribs)
    /\ Variable

(* The builtins that write several variables: new gives their entries. *)
WriteAll(new) ==
    /\ variables' = [n \in Names |-> IF n \in DOMAIN new THEN new[n] ELSE variables[n]]
    /\ environ' = [n \in Names |-> IF n \in DOMAIN new THEN new[n].value ELSE environ[n]]

(* cd: OLDPWD gets the value of PWD, and PWD that of the new directory and *)
(* no other attribute than export.  Without PWD it passes NULL on, and     *)
(* OLDPWD gets whatever string strdup and setenv read at address 0.        *)
builtin_cd ==
    /\ "cd" \in Ops
    /\ \E pwd, oldpwd \in Names, v \in Values \ {Empty} :
          /\ pwd # oldpwd
          /\ \E old \in Values :
                /\ variables[pwd] = NoVariable \/ old = variables[pwd].value
                /\ WriteAll([n \in {pwd, oldpwd} |->
                      IF n = pwd THEN [value |-> v, attribs |-> {"export"}]
                      ELSE [value |-> old, attribs |-> {}]])
    /\ Variable

(* getopts: OPTIND and the option are set, OPTARG is set or unset; the     *)
(* option is written last, should it have the name of another.             *)
builtin_getopts ==
    /\ "getopts" \in Ops
    /\ \E optind, optarg, name \in Names :
          /\ optind # optarg
          /\ variables[optind] # NoVariable
          /\ \E new \in [{optind, optarg, name} ->
                         [value : Values, attribs : {{}}] \cup {NoVariable}] :
                /\ new[optind] # NoVariable /\ new[name] # NoVariable
                /\ WriteAll(new)
    /\ Variable

builtin_set ==
    /\ "allexport" \in Ops
    /\ allexport' = ~allexport
    /\ UNCHANGED <<variables, functions, environ, saved, live>>

(* A process, with or without a prefix assignment: setenv of the           *)
(* assignment, then of every exported variable.  Nothing is put back when  *)
(* it ends.                                                                *)
Prefixed ==
    IF "prefix" \in Ops
    THEN {[environ EXCEPT ![n] = v] : n \in {m \in Names : MayModify(m)}, v \in Values}
    ELSE {}
run_process ==
    /\ \E env \in {environ} \cup Prefixed :
          environ' = [m \in Names |-> IF Exported(m) THEN variables[m].value ELSE env[m]]
    /\ UNCHANGED <<variables, functions, allexport, saved, live>>

-----------------------------------------------------------------------------
(* Functions *)

Referenced ==
    {functions[f] : f \in Funs} \cup
    UNION {{saved[i].functions[f] : f \in Funs} : i \in 1..Len(saved)}

(* Scripts that redefine functions only outside subshells lack "subfunc". *)
MayDefine == "func" \in Ops /\ (saved = <<>> \/ "subfunc" \in Ops)

run_function_definition ==
    /\ MayDefine
    /\ \E f \in Funs, b \in Bodies \ (live \cup Referenced) :
          /\ functions' = [functions EXCEPT ![f] = b]
          /\ live' = (live \ {functions[f]}) \cup {b}
    /\ UNCHANGED <<variables, environ, allexport, saved>>

function_unset_keepsEntry(f) == UNCHANGED functions    \* mutant
function_unset(f) == functions' = [functions EXCEPT ![f] = 0]

(* unset -f: function_destroy frees the body. *)
builtin_unset_f ==
    /\ MayDefine
    /\ \E f \in Funs :
          /\ functions[f] # 0
          /\ function_unset(f)
          /\ live' = live \ {functions[f]}
    /\ UNCHANGED <<variables, environ, allexport, saved>>

-----------------------------------------------------------------------------
(* run_subshell.  The copy of a function shares its body. *)
run_subshell ==
    /\ "subshell" \in Ops
    /\ Len(saved) < MaxDepth
    /\ saved' = Append(saved, [variables |-> variables, functions |-> functions])
    /\ UNCHANGED <<variables, functions, environ, allexport, live>>

(* The copies are destroyed, without the bodies; a body only the copy      *)
(* pointed to is leaked, nothing reaches it again and it is dropped here.  *)
RestoreTables ==
    /\ variables' = saved[Len(saved)].variables
    /\ functions' = saved[Len(saved)].functions

SubshellDone ==
    /\ saved # <<>>
    /\ RestoreTables
    /\ saved' = SubSeq(saved, 1, Len(saved) - 1)
    /\ live' = live \cap
          UNION {{saved[i].functions[f] : f \in Funs} : i \in 1..Len(saved)}
    /\ UNCHANGED <<environ, allexport>>

-----------------------------------------------------------------------------
(* mrsh_populate_env: what the host's environment holds is exported, PWD   *)
(* is readonly too, IFS, PPID and OPTIND are neither.  A PWD of the host   *)
(* is set to its own stored value, which mrsh_env_set frees before setenv  *)
(* reads it: environ gets what the memory holds by then.                   *)
Initial == {{}, {"export"}, {"export", "readonly"}}
Init ==
    /\ variables \in [Names -> [value : Values, attribs : Initial] \cup {NoVariable}]
    /\ \A m, n \in Names : Readonly(m) /\ Readonly(n) => m = n
    /\ \E freed \in Values :
          environ = [n \in Names |-> IF Readonly(n) THEN freed ELSE variables[n].value]
    /\ functions = [f \in Funs |-> 0]
    /\ allexport = FALSE
    /\ saved = <<>>
    /\ live = {}

Next ==
    \/ run_assignments \/ builtin_export \/ builtin_unset
    \/ SetUnchecked \/ AssignDefault \/ run_arithm_assign
    \/ builtin_cd \/ builtin_getopts
    \/ builtin_set \/ run_process
    \/ run_function_definition \/ builtin_unset_f
    \/ run_subshell \/ SubshellDone

Spec == Init /\ [][Next]_vars

-----------------------------------------------------------------------------
(* Properties *)

Entries == [value : Values, attribs : SUBSET Attribs] \cup {NoVariable}
Variables == [Names -> Entries]
Functions == [Funs -> Bodies \cup {0}]

(* Every variable keeps its type; an entry of the table of variables, and  *)
(* of the tables subshells saved, always has a value (copy_var_iterator    *)
(* and populate_env_iterator pass it to strdup and setenv untested).       *)
TypeOK ==
    /\ variables \in Variables
    /\ functions \in Functions
    /\ environ \in [Names -> Values \cup {Unset}]
    /\ allexport \in BOOLEAN
    /\ saved \in Seq([variables : Variables, functions : Functions])
    /\ live \subseteq Bodies

(* What getenv() tells an applet is what $name tells the script, because   *)
(* mrsh_env_set and mrsh_env_unset write through to the environment.  Not  *)
(* for a variable both exported and readonly, as the host's PWD, whose     *)
(* freed value was written: run_process writes it again.                   *)
EnvironAgrees ==
    \A n \in Names : \/ environ[n] = variables[n].value
                     \/ Exported(n) /\ Readonly(n)

(* Every function of the current tables and of those the subshells in      *)
(* progress will put back has a body that was not freed: a call copies it, *)
(* a redefinition or unset -f frees it.                                    *)
LiveBodies == Referenced \subseteq live \cup {0}

(* A readonly variable keeps its value and stays readonly until the        *)
(* subshell that made it so ends.                                          *)
ReadonlyKept ==
    [][ \A n \in Names :
          Readonly(n) /\ Len(saved') >= Len(saved) =>
             /\ variables'[n].value = variables[n].value
             /\ "readonly" \in variables'[n].attribs ]_vars
=============================================================================
