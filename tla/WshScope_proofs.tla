-------------------------- MODULE WshScope_proofs --------------------------
(***************************************************************************)
(* Type correctness of WshScope, the agreement of the environment with the *)
(* variables in scripts without subshells and prefix assignments, and the  *)
(* protection of readonly variables in scripts that use only the commands  *)
(* that test the attribute, and the liveness of function bodies in scripts *)
(* that define functions only outside subshells.  All for any names,       *)
(* values, functions and bounds.                                           *)
(***************************************************************************)
EXTENDS WshScope, WshSequences

-----------------------------------------------------------------------------
(* What every write to a variable does. *)
LEMMA SetType ==
    ASSUME TypeOK, NEW n \in Names, NEW v \in Values, NEW a \in SUBSET Attribs,
           mrsh_env_set(n, v, a)
    PROVE  /\ variables' \in Variables
           /\ environ' \in [Names -> Values \cup {Unset}]
           /\ variables'[n] = [value |-> v, attribs |-> a] /\ environ'[n] = v
           /\ \A m \in Names \ {n} : variables'[m] = variables[m] /\ environ'[m] = environ[m]
<1>1. [value |-> v, attribs |-> a] 
        \in Entries
  BY DEF Entries
<1>2. /\ variables \in Variables /\ environ \in [Names -> Values \cup {Unset}]
      /\ variables' = [variables EXCEPT ![n] = [value |-> v, attribs |-> a]]
      /\ environ' = [environ EXCEPT ![n] = v]
  BY DEF TypeOK, mrsh_env_set
<1>3. variables' \in Variables
  BY <1>1, <1>2, Zenon DEF Variables
<1>4. environ' \in [Names -> Values \cup {Unset}]
  BY <1>2
<1>5. variables'[n] = [value |-> v, attribs |-> a] /\ environ'[n] = v
  BY <1>2 DEF Variables
<1>6. \A m \in Names \ {n} : variables'[m] = variables[m] /\ environ'[m] = environ[m]
  BY <1>2 DEF Variables
<1> QED
  BY <1>3, <1>4, <1>5, <1>6

(* unset removes one name from both tables. *)
LEMMA UnsetType ==
    ASSUME TypeOK, NEW n \in Names, mrsh_env_unset(n)
    PROVE  /\ variables' \in Variables
           /\ environ' \in [Names -> Values \cup {Unset}]
           /\ variables'[n] = NoVariable /\ environ'[n] = Unset
           /\ \A m \in Names \ {n} : variables'[m] = variables[m] /\ environ'[m] = environ[m]
<1>1. NoVariable \in Entries
  BY DEF Entries
<1>2. /\ variables \in Variables /\ environ \in [Names -> Values \cup {Unset}]
      /\ variables' = [variables EXCEPT ![n] = NoVariable]
      /\ environ' = [environ EXCEPT ![n] = Unset]
  BY DEF TypeOK, mrsh_env_unset
<1>3. variables' \in Variables
  BY <1>1, <1>2, Zenon DEF Variables
<1>4. environ' \in [Names -> Values \cup {Unset}]
  BY <1>2
<1>5. variables'[n] = NoVariable /\ environ'[n] = Unset
  BY <1>2 DEF Variables
<1>6. \A m \in Names \ {n} : variables'[m] = variables[m] /\ environ'[m] = environ[m]
  BY <1>2 DEF Variables
<1> QED
  BY <1>3, <1>4, <1>5, <1>6

(* Several names are written at once. *)
LEMMA WriteAllType ==
    ASSUME TypeOK, NEW D \in SUBSET Names, NEW new \in [D -> Entries], WriteAll(new)
    PROVE  /\ variables' \in Variables
           /\ environ' \in [Names -> Values \cup {Unset}]
           /\ \A n \in D : variables'[n] = new[n] /\ environ'[n] = new[n].value
           /\ \A n \in Names \ D : variables'[n] = variables[n] /\ environ'[n] = environ[n]
<1>1. /\ variables \in [Names -> Entries] /\ environ \in [Names -> Values \cup {Unset}]
      /\ DOMAIN new = D
      /\ variables' = [n \in Names |-> IF n \in D THEN new[n] ELSE variables[n]]
      /\ environ' = [n \in Names |-> IF n \in D THEN new[n].value ELSE environ[n]]
  BY DEF TypeOK, Variables, WriteAll
<1>2. \A n \in D : new[n].value \in Values \cup {Unset}
  BY DEF Entries, NoVariable
<1>3. variables' \in Variables
  BY <1>1, Zenon DEF Variables
<1>4. environ' \in [Names -> Values \cup {Unset}]
  BY <1>1, <1>2
<1> QED
  BY <1>1, <1>3, <1>4

(* cd and getopts *)
WritesAll == builtin_cd \/ builtin_getopts

(* What the actions that write several names do. *)
LEMMA WriteAllStep ==
    ASSUME TypeOK, WritesAll
    PROVE  /\ \E D \in SUBSET Names : \E new \in [D -> Entries] : WriteAll(new)
           /\ Variable
           /\ Ops \cap Unchecked # {}
<1>1. CASE builtin_cd
  <2>0. PICK pwd \in Names, oldpwd \in Names, v \in Values \ {Empty} :
          /\ pwd # oldpwd
          /\ \E old \in Values :
                /\ variables[pwd] = NoVariable \/ old = variables[pwd].value
                /\ WriteAll([n \in {pwd, oldpwd} |->
                      IF n = pwd THEN [value |-> v, attribs |-> {"export"}]
                      ELSE [value |-> old, attribs |-> {}]])
    BY <1>1 DEF builtin_cd
  <2>1. PICK old \in Values :
          WriteAll([n \in {pwd, oldpwd} |->
             IF n = pwd THEN [value |-> v, attribs |-> {"export"}]
             ELSE [value |-> old, attribs |-> {}]])
    BY <2>0
  <2> DEFINE a == [value |-> v, attribs |-> {"export"}]
             b == [value |-> old, attribs |-> {}]
             new == [n \in {pwd, oldpwd} |-> IF n = pwd THEN a ELSE b]
  <2>2. a \in Entries
    BY DEF Entries, Attribs
  <2>3. b \in Entries
    BY DEF Entries
  <2>4. WriteAll(new)
    BY <2>1
  <2> HIDE DEF a, b
  <2>5. new \in [{pwd, oldpwd} -> Entries] /\ {pwd, oldpwd} \in SUBSET Names
    BY <2>2, <2>3
  <2> HIDE DEF new
  <2> QED
    BY <1>1, <2>4, <2>5 DEF builtin_cd, Unchecked
<1>2. CASE builtin_getopts
  <2>1. PICK D \in SUBSET Names :
          \E new \in [D -> [value : Values, attribs : {{}}] \cup {NoVariable}] : WriteAll(new)
    BY <1>2 DEF builtin_getopts
  <2>2. [value : Values, attribs : {{}}] \cup {NoVariable} \subseteq Entries
    BY DEF Entries
  <2>3. \E new \in [D -> Entries] : WriteAll(new)
    BY <2>1, <2>2
  <2> QED
    BY <1>2, <2>3 DEF builtin_getopts, Unchecked
<1> QED
  BY <1>1, <1>2 DEF WritesAll

(* The commands that write a variable.  Only those that test the readonly  *)
(* attribute remain when Ops has none of Unchecked.                        *)
Writes == \/ run_assignments \/ builtin_export \/ SetUnchecked
          \/ AssignDefault \/ run_arithm_assign

(* What the actions that write one name do. *)
LEMMA WriteStep ==
    ASSUME TypeOK, Writes
    PROVE  \E n \in Names, v \in Values, a \in SUBSET Attribs :
              /\ mrsh_env_set(n, v, a) /\ Variable
              /\ Ops \cap Unchecked = {} => ~Readonly(n)
<1>0. \A n \in Names : variables[n].attribs \in SUBSET Attribs
                       /\ variables[n].value \in Values \cup {Unset}
  BY DEF TypeOK, Variables, Entries, NoVariable
<1>1. CASE run_assignments
  BY <1>1 DEF run_assignments, MayModify, Attribs
<1>2. CASE builtin_export
  <2>1. PICK n \in Names, attrib \in Attribs :
          /\ MayModify(n)
          /\ \E v \in Values \cup {variables[n].value} :
                mrsh_env_set(n, ExportValue(v), {attrib} \cup variables[n].attribs)
    BY <1>2 DEF builtin_export
  <2>2. PICK v \in Values \cup {variables[n].value} :
          mrsh_env_set(n, ExportValue(v), {attrib} \cup variables[n].attribs)
    BY <2>1
  <2>3. ExportValue(v) \in Values
    BY <1>0, ValuesAssumption DEF ExportValue
  <2>4. {attrib} \cup variables[n].attribs \in SUBSET Attribs
    BY <1>0
  <2>5. Variable
    BY <1>2 DEF builtin_export
  <2> QED
    BY <2>1, <2>2, <2>3, <2>4, <2>5 DEF MayModify
<1>3. CASE SetUnchecked
  BY <1>3 DEF SetUnchecked, Unchecked
<1>4. CASE AssignDefault
  BY <1>4 DEF AssignDefault, Unchecked
<1>5. CASE run_arithm_assign
  BY <1>0, <1>5 DEF run_arithm_assign, Unchecked
<1> QED
  BY <1>1, <1>2, <1>3, <1>4, <1>5 DEF Writes

-----------------------------------------------------------------------------
(* The state mrsh_state_create makes. *)
LEMMA InitType == Init => TypeOK
<1> SUFFICES ASSUME Init PROVE TypeOK
  OBVIOUS
<1>1. /\ variables \in Variables
      /\ environ \in [Names -> Values \cup {Unset}]
  <2>1. [value : Values, attribs : Initial] \cup {NoVariable} \subseteq Entries
    BY DEF Initial, Attribs, Entries
  <2>2. variables \in Variables
    BY <2>1 DEF Init, Variables
  <2>3. \A n \in Names : variables[n].value \in Values \cup {Unset}
    BY <2>2 DEF Variables, Entries, NoVariable
  <2> QED
    BY <2>2, <2>3 DEF Init
<1>2. saved \in Seq([variables : Variables, functions : Functions])
  BY DEF Init
<1>3. functions \in Functions
  BY DEF Init, Functions
<1> QED
  BY <1>1, <1>2, <1>3 DEF Init, TypeOK

(* Every step keeps the types. *)
LEMMA NextType == TypeOK /\ [Next]_vars => TypeOK'
<1> SUFFICES ASSUME TypeOK, [Next]_vars PROVE TypeOK'
  OBVIOUS
<1>1. CASE Writes
  <2>1. PICK n \in Names, v \in Values, a \in SUBSET Attribs :
          mrsh_env_set(n, v, a) /\ Variable
    BY <1>1, WriteStep
  <2>2. variables' \in Variables /\ environ' \in [Names -> Values \cup {Unset}]
    BY <2>1, SetType
  <2> QED
    BY <2>1, <2>2 DEF Variable, TypeOK
<1>2. CASE builtin_unset
  <2>1. PICK n \in Names : mrsh_env_unset(n)
    BY <1>2 DEF builtin_unset
  <2>2. variables' \in Variables /\ environ' \in [Names -> Values \cup {Unset}]
    BY <2>1, UnsetType
  <2> QED
    BY <1>2, <2>2 DEF builtin_unset, Variable, TypeOK
<1>3. CASE builtin_set
  BY <1>3 DEF builtin_set, TypeOK
<1>4. CASE run_process
  <2>1. PICK env \in {environ} \cup Prefixed :
          environ' = [m \in Names |-> IF Exported(m) THEN variables[m].value ELSE env[m]]
    BY <1>4 DEF run_process
  <2>2. /\ \A m \in Names : variables[m].value \in Values \cup {Unset}
        /\ env \in [Names -> Values \cup {Unset}]
    BY DEF TypeOK, Variables, Entries, NoVariable, Prefixed
  <2>3. environ' \in [Names -> Values \cup {Unset}]
    BY <2>1, <2>2
  <2> QED
    BY <1>4, <2>3 DEF run_process, TypeOK
<1>5. CASE run_function_definition \/ builtin_unset_f
  <2>1. functions' \in Functions /\ live' \subseteq Bodies
    BY <1>5 DEF run_function_definition, builtin_unset_f, function_unset,
                TypeOK, Functions
  <2> QED
    BY <1>5, <2>1 DEF run_function_definition, builtin_unset_f, TypeOK
<1>6. CASE run_subshell
  <2>1. [variables |-> variables, functions |-> functions]
          \in [variables : Variables, functions : Functions]
    BY DEF TypeOK
  <2>2. saved' \in Seq([variables : Variables, functions : Functions])
    BY <1>6, <2>1 DEF run_subshell, TypeOK
  <2> QED
    BY <1>6, <2>2 DEF run_subshell, TypeOK
<1>7. CASE SubshellDone
  <2>1. saved \in Seq([variables : Variables, functions : Functions]) /\ saved # <<>>
    BY <1>7 DEF SubshellDone, TypeOK
  <2>2. saved[Len(saved)] \in [variables : Variables, functions : Functions]
    <3> HIDE DEF Variables, Functions
    <3>1. Len(saved) \in 1..Len(saved)
      BY <2>1
    <3> QED
      BY <2>1, <3>1, ElementOfSeq, Zenon
  <2>3. variables' \in Variables /\ functions' \in Functions
    BY <1>7, <2>2 DEF SubshellDone, RestoreTables
  <2>4. saved' = SubSeq(saved, 1, Len(saved) - 1)
    BY <1>7 DEF SubshellDone
  <2>5. saved' \in Seq([variables : Variables, functions : Functions])
    BY <2>1, <2>4, FrontIs, Zenon
  <2> HIDE <2>4
  <2>6. live' \subseteq Bodies
    BY <1>7 DEF SubshellDone, TypeOK
  <2>7. UNCHANGED <<environ, allexport>>
    BY <1>7 DEF SubshellDone
  <2> QED
    BY <2>3, <2>5, <2>6, <2>7 DEF TypeOK
<1>8. CASE WritesAll
  <2>0. PICK D \in SUBSET Names : \E new \in [D -> Entries] : WriteAll(new)
    BY <1>8, WriteAllStep
  <2>1. PICK new \in [D -> Entries] : WriteAll(new)
    BY <2>0
  <2>2. variables' \in Variables /\ environ' \in [Names -> Values \cup {Unset}]
    BY <2>1, WriteAllType
  <2>3. Variable
    BY <1>8, WriteAllStep
  <2> QED
    BY <2>2, <2>3 DEF Variable, TypeOK
<1>9. CASE UNCHANGED vars
  BY <1>9 DEF vars, TypeOK
<1> QED
  BY <1>1, <1>2, <1>3, <1>4, <1>5, <1>6, <1>7, <1>8, <1>9 DEF Next, Writes, WritesAll

(* The tables, the environment and the set of live bodies keep their types *)
(* in every script.                                                        *)
THEOREM TypeCorrect == Spec => []TypeOK
  BY InitType, NextType, PTL DEF Spec

-----------------------------------------------------------------------------
(* Agreement of the environment.  Without subshells no table is saved, and *)
(* without prefix assignments only mrsh_env_set and mrsh_env_unset write   *)
(* the environment.                                                        *)
FlatInv == TypeOK /\ saved = <<>> /\ EnvironAgrees

(* The two tables agree at the start, but for a PWD of the host. *)
LEMMA FlatInit == Init => FlatInv
<1> SUFFICES ASSUME Init PROVE saved = <<>> /\ EnvironAgrees
  BY InitType DEF FlatInv
<1>1. ASSUME NEW n \in Names, Readonly(n) PROVE Exported(n)
  BY <1>1 DEF Init, Initial, Readonly, Exported, NoVariable
<1> QED
  BY <1>1 DEF Init, EnvironAgrees

(* They agree as long as nothing saves and restores one of them. *)
LEMMA FlatNext ==
    ASSUME FlatInv, [Next]_vars, Ops \cap {"prefix", "subshell"} = {}
    PROVE  FlatInv'
<1>0. TypeOK /\ saved = <<>> /\ EnvironAgrees
  BY DEF FlatInv
<1>1. TypeOK'
  BY <1>0, NextType
<1>2. CASE Writes
  <2>1. PICK n \in Names, v \in Values, a \in SUBSET Attribs :
          mrsh_env_set(n, v, a) /\ Variable
    BY <1>0, <1>2, WriteStep
  <2>2. variables'[n] = [value |-> v, attribs |-> a] /\ environ'[n] = v
    BY <1>0, <2>1, SetType
  <2>3. \A m \in Names \ {n} : variables'[m] = variables[m] /\ environ'[m] = environ[m]
    BY <1>0, <2>1, SetType
  <2>4. EnvironAgrees'
    BY <1>0, <2>2, <2>3 DEF EnvironAgrees, Exported, Readonly
  <2>5. saved' = <<>>
    BY <1>0, <2>1 DEF Variable
  <2> QED
    BY <1>1, <2>4, <2>5 DEF FlatInv
<1>3. CASE builtin_unset
  <2>1. PICK n \in Names : mrsh_env_unset(n)
    BY <1>3 DEF builtin_unset
  <2>2. variables'[n].value = Unset /\ environ'[n] = Unset
    BY <1>0, <2>1, UnsetType DEF NoVariable
  <2>3. \A m \in Names \ {n} : variables'[m] = variables[m] /\ environ'[m] = environ[m]
    BY <1>0, <2>1, UnsetType
  <2>4. EnvironAgrees'
    BY <1>0, <2>2, <2>3 DEF EnvironAgrees, Exported, Readonly
  <2>5. saved' = <<>>
    BY <1>0, <1>3 DEF builtin_unset, Variable
  <2> QED
    BY <1>1, <2>4, <2>5 DEF FlatInv
<1>4. CASE UNCHANGED <<variables, environ, saved>>
  BY <1>0, <1>1, <1>4 DEF FlatInv, EnvironAgrees, Exported, Readonly
<1>5. CASE run_process
  <2>1. Prefixed = {}
    BY DEF Prefixed
  <2>2. /\ environ' = [m \in Names |-> IF Exported(m) THEN variables[m].value ELSE environ[m]]
        /\ variables' = variables /\ saved' = saved
    BY <1>5, <2>1 DEF run_process
  <2>3. EnvironAgrees'
    BY <1>0, <2>2 DEF EnvironAgrees, Exported, Readonly
  <2> QED
    BY <1>0, <1>1, <2>2, <2>3 DEF FlatInv
<1>8. ~run_subshell /\ ~SubshellDone
  BY <1>0 DEF run_subshell, SubshellDone
<1>6. CASE WritesAll
  <2>0. PICK D \in SUBSET Names : \E new \in [D -> Entries] : WriteAll(new)
    BY <1>0, <1>6, WriteAllStep
  <2>1. PICK new \in [D -> Entries] : WriteAll(new)
    BY <2>0
  <2>2. \A n \in D : variables'[n] = new[n] /\ environ'[n] = new[n].value
    BY <1>0, <2>1, WriteAllType
  <2>3. \A n \in Names \ D : variables'[n] = variables[n] /\ environ'[n] = environ[n]
    BY <1>0, <2>1, WriteAllType
  <2>4. EnvironAgrees'
    BY <1>0, <2>2, <2>3 DEF EnvironAgrees, Exported, Readonly
  <2>5. saved' = <<>>
    BY <1>0, <1>6, WriteAllStep DEF Variable
  <2> QED
    BY <1>1, <2>4, <2>5 DEF FlatInv
<1>7. \/ WritesAll \/ Writes \/ builtin_unset \/ run_process \/ run_subshell \/ SubshellDone
      \/ UNCHANGED <<variables, environ, saved>>
  BY DEF Next, Writes, WritesAll, vars, builtin_set, run_function_definition, builtin_unset_f
<1> QED
  BY <1>2, <1>3, <1>4, <1>5, <1>6, <1>7, <1>8

(* In a script without subshells and prefix assignments, whatever else it  *)
(* does (set -a, export, readonly, unset, for, ${x=y}, $((x = 1)), cd,     *)
(* processes), getenv() in an applet and $name in the script agree, but    *)
(* for names both exported and readonly: mrsh_populate_env writes a freed  *)
(* value to the environment for the host's PWD.                            *)
THEOREM EnvironWrittenThrough ==
    ASSUME Ops \cap {"prefix", "subshell"} = {}
    PROVE  Spec => []EnvironAgrees
<1>1. FlatInv /\ [Next]_vars => FlatInv'
  BY FlatNext
<1>2. FlatInv => EnvironAgrees
  BY DEF FlatInv
<1> QED
  BY <1>1, <1>2, FlatInit, PTL DEF Spec

-----------------------------------------------------------------------------
(* Readonly variables.  Until its subshell ends, a command that tests the  *)
(* attribute leaves a readonly variable alone.                             *)
LEMMA ReadonlyStep ==
    ASSUME TypeOK, [Next]_vars, ~SubshellDone, Ops \cap Unchecked = {},
           NEW n \in Names, Readonly(n)
    PROVE  variables'[n] = variables[n]
<1>1. CASE Writes
  <2>1. PICK m \in Names, v \in Values, a \in SUBSET Attribs :
          mrsh_env_set(m, v, a) /\ ~Readonly(m)
    BY <1>1, WriteStep
  <2>2. n \in Names \ {m}
    BY <2>1
  <2> QED
    BY <2>1, <2>2, SetType
<1>2. CASE builtin_unset
  <2>1. PICK m \in Names : mrsh_env_unset(m) /\ ~Readonly(m)
    BY <1>2 DEF builtin_unset, MayModify
  <2>2. n \in Names \ {m}
    BY <2>1
  <2> QED
    BY <2>1, <2>2, UnsetType
<1>3. CASE UNCHANGED variables
  BY <1>3
<1>4. Writes \/ builtin_unset \/ UNCHANGED variables
  BY WriteAllStep DEF Next, Writes, WritesAll, vars, builtin_set, run_process, run_function_definition,
         builtin_unset_f, run_subshell
<1> QED
  BY <1>1, <1>2, <1>3, <1>4

(* In a script that writes variables only with assignments, export,        *)
(* readonly and unset, in any subshells, a readonly variable keeps its     *)
(* value and its attribute until the subshell that set it ends.            *)
THEOREM ReadonlyProtected ==
    ASSUME Ops \cap Unchecked = {}
    PROVE  Spec => ReadonlyKept
<1>1. TypeOK /\ [Next]_vars =>
        [ \A n \in Names :
            Readonly(n) /\ Len(saved') >= Len(saved) =>
               /\ variables'[n].value = variables[n].value
               /\ "readonly" \in variables'[n].attribs ]_vars
  <2> SUFFICES ASSUME TypeOK, [Next]_vars, NEW n \in Names,
                      Readonly(n), Len(saved') >= Len(saved)
               PROVE  /\ variables'[n].value = variables[n].value
                      /\ "readonly" \in variables'[n].attribs
    OBVIOUS
  <2>1. ~SubshellDone
    <3> SUFFICES ASSUME SubshellDone PROVE FALSE
      OBVIOUS
    <3>0. saved \in Seq([variables : Variables, functions : Functions])
      BY DEF TypeOK
    <3>1. saved # <<>> /\ saved' = SubSeq(saved, 1, Len(saved) - 1)
      BY DEF SubshellDone
    <3>2. Len(saved') = Len(saved) - 1
      BY <3>0, <3>1, FrontIs, Zenon
    <3>3. Len(saved) \in Nat
      BY <3>0
    <3> HIDE <3>1
    <3> QED
      BY <3>2, <3>3
  <2>2. variables'[n] = variables[n]
    BY <2>1, ReadonlyStep
  <2> QED
    BY <2>2 DEF Readonly
<1> QED
  BY <1>1, InitType, NextType, PTL DEF Spec, ReadonlyKept

-----------------------------------------------------------------------------
(* Function bodies.  A script that defines and unsets functions only       *)
(* outside subshells keeps every saved table of functions equal to the     *)
(* current one; and no two functions of a table share a body, so that      *)
(* freeing one never frees another's.                                      *)
OneTable == \A i \in 1..Len(saved) : saved[i].functions = functions
OwnBody == \A f, g \in Funs : f # g /\ functions[f] # 0 => functions[f] # functions[g]
CurrentLive == \A f \in Funs : functions[f] \in live \cup {0}

BodyInv == TypeOK /\ OneTable /\ OwnBody /\ CurrentLive

(* No function is defined at the start. *)
LEMMA BodyInit == Init => BodyInv
<1> SUFFICES ASSUME Init PROVE OneTable /\ OwnBody /\ CurrentLive
  BY InitType DEF BodyInv
<1>1. OneTable
  BY DEF Init, OneTable
<1>2. \A f \in Funs : functions[f] = 0
  BY DEF Init
<1> QED
  BY <1>1, <1>2 DEF OwnBody, CurrentLive

(* The body of a defined function is allocated, and only its own. *)
LEMMA BodyNext ==
    ASSUME BodyInv, [Next]_vars, "subfunc" \notin Ops
    PROVE  BodyInv'
<1> DEFINE Table == [variables : Variables, functions : Functions]
<1>0. TypeOK /\ OneTable /\ OwnBody /\ CurrentLive /\ saved \in Seq(Table)
  BY DEF BodyInv, TypeOK
<1>1. TypeOK'
  BY <1>0, NextType
<1> HIDE DEF Table
<1>2. functions \in [Funs -> Bodies \cup {0}]
  BY <1>0 DEF TypeOK, Functions
<1>3. CASE run_function_definition
  <2>1. saved = <<>> /\ saved' = saved
    BY <1>3 DEF run_function_definition, MayDefine
  <2>2. PICK f \in Funs, b \in Bodies \ (live \cup Referenced) :
          /\ functions' = [functions EXCEPT ![f] = b]
          /\ live' = (live \ {functions[f]}) \cup {b}
    BY <1>3 DEF run_function_definition
  <2>3. functions'[f] = b /\ \A g \in Funs \ {f} : functions'[g] = functions[g]
    BY <1>2, <2>2
  <2>4. \A g \in Funs : functions[g] # b
    BY <2>2 DEF Referenced
  <2>5. OneTable'
    BY <2>1 DEF OneTable
  <2>6. OwnBody'
    BY <1>0, <2>3, <2>4 DEF OwnBody
  <2>7. CurrentLive'
    <3> SUFFICES ASSUME NEW g \in Funs PROVE functions'[g] \in live' \cup {0}
      BY DEF CurrentLive
    <3>1. CASE g = f
      BY <2>2, <2>3, <3>1
    <3>2. CASE g # f
      BY <1>0, <2>2, <2>3, <3>2 DEF CurrentLive, OwnBody
    <3> QED
      BY <3>1, <3>2
  <2> QED
    BY <1>1, <2>5, <2>6, <2>7 DEF BodyInv
<1>4. CASE builtin_unset_f
  <2>1. saved = <<>> /\ saved' = saved
    BY <1>4 DEF builtin_unset_f, MayDefine
  <2>2. PICK f \in Funs :
          /\ functions' = [functions EXCEPT ![f] = 0]
          /\ live' = live \ {functions[f]}
    BY <1>4 DEF builtin_unset_f, function_unset
  <2>3. functions'[f] = 0 /\ \A g \in Funs \ {f} : functions'[g] = functions[g]
    BY <1>2, <2>2
  <2>4. OneTable'
    BY <2>1 DEF OneTable
  <2>5. OwnBody'
    BY <1>0, <2>3 DEF OwnBody
  <2>6. CurrentLive'
    BY <1>0, <2>2, <2>3 DEF CurrentLive, OwnBody
  <2> QED
    BY <1>1, <2>4, <2>5, <2>6 DEF BodyInv
<1>5. CASE run_subshell
  <2> DEFINE t == [variables |-> variables, functions |-> functions]
  <2>1. saved' = Append(saved, t) /\ functions' = functions /\ live' = live
    BY <1>5 DEF run_subshell
  <2>2. t.functions = functions
    OBVIOUS
  <2>3. t \in Table
    BY <1>0 DEF TypeOK, Table
  <2> HIDE DEF t
  <2>4. \A i \in 1..Len(saved') : saved'[i] = t \/ (i \in 1..Len(saved) /\ saved'[i] = saved[i])
    BY <1>0, <2>1, <2>3
  <2>5. functions' = functions /\ live' = live
    BY <2>1
  <2> HIDE <2>1
  <2>6. OneTable'
    BY <1>0, <2>2, <2>4, <2>5 DEF OneTable
  <2> QED
    BY <1>0, <1>1, <2>5, <2>6 DEF BodyInv, OwnBody, CurrentLive
<1>6. CASE SubshellDone
  <2>1. /\ saved # <<>> /\ saved' = SubSeq(saved, 1, Len(saved) - 1)
        /\ functions' = saved[Len(saved)].functions
        /\ live' = live \cap
              UNION {{saved[i].functions[f] : f \in Funs} : i \in 1..Len(saved)}
    BY <1>6 DEF SubshellDone, RestoreTables
  <2>2. /\ Len(saved') = Len(saved) - 1
        /\ \A i \in 1..(Len(saved) - 1) : saved'[i] = saved[i]
    BY <1>0, <2>1, FrontIs, Zenon
  <2>3. Len(saved) \in 1..Len(saved) /\ Len(saved) \in Nat
    BY <1>0, <2>1
  <2>4. functions' = functions
    BY <1>0, <2>1, <2>3 DEF OneTable
  <2>5. OneTable'
    BY <1>0, <2>2, <2>3, <2>4 DEF OneTable
  <2>6. CurrentLive'
    <3> SUFFICES ASSUME NEW f \in Funs PROVE functions'[f] \in live' \cup {0}
      BY DEF CurrentLive
    <3>1. functions[f] = saved[Len(saved)].functions[f]
      BY <1>0, <2>3 DEF OneTable
    <3>2. functions[f] \in UNION {{saved[i].functions[g] : g \in Funs} : i \in 1..Len(saved)}
      BY <2>3, <3>1
    <3>3. functions[f] \in live \cup {0}
      BY <1>0 DEF CurrentLive
    <3> QED
      BY <2>1, <2>4, <3>2, <3>3
  <2> QED
    BY <1>0, <1>1, <2>4, <2>5, <2>6 DEF BodyInv, OwnBody
<1>7. CASE UNCHANGED <<functions, saved, live>>
  BY <1>0, <1>1, <1>7 DEF BodyInv, OneTable, OwnBody, CurrentLive
<1>8. \/ run_function_definition \/ builtin_unset_f \/ run_subshell \/ SubshellDone
      \/ UNCHANGED <<functions, saved, live>>
  BY DEF Next, vars, run_assignments, builtin_export, builtin_unset, SetUnchecked,
         AssignDefault, run_arithm_assign, builtin_cd, builtin_getopts, Variable,
         builtin_set, run_process
<1> QED
  BY <1>3, <1>4, <1>5, <1>6, <1>7, <1>8

(* In a script that defines and unsets functions only outside subshells no *)
(* table, current or saved, holds a function whose body was freed.         *)
THEOREM FunctionBodiesLive ==
    ASSUME "subfunc" \notin Ops
    PROVE  Spec => []LiveBodies
<1>1. BodyInv /\ [Next]_vars => BodyInv'
  BY BodyNext
<1>2. BodyInv => LiveBodies
  <2> SUFFICES ASSUME BodyInv, NEW b \in Referenced PROVE b \in live \cup {0}
    BY DEF LiveBodies
  <2>1. CASE \E f \in Funs : b = functions[f]
    BY <2>1 DEF BodyInv, CurrentLive
  <2>2. CASE \E i \in 1..Len(saved), f \in Funs : b = saved[i].functions[f]
    BY <2>2 DEF BodyInv, OneTable, CurrentLive
  <2> QED
    BY <2>1, <2>2 DEF Referenced
<1> QED
  BY <1>1, <1>2, BodyInit, PTL DEF Spec
=============================================================================
