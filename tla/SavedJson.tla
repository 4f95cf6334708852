------------------------------- MODULE SavedJson -------------------------------
(***************************************************************************)
(* component/gsc_funcs.cpp: what scripts save with ShieldToJson and get    *)
(* back with ShieldFromJson.  Each of the two virtual machines has its own *)
(* directory of files.                                                     *)
(*                                                                         *)
(* Values are trees.  A scalar is [t, v] with t one of "float", "int",     *)
(* "string", "vector", "hash"; a container is [t, items] with t "array" or *)
(* "struct" and items a sequence of [key, val]; "undefined", "entity" (a   *)
(* pointer to neither an array nor a struct) and "function" (a type that   *)
(* cannot be saved) have no contents.  A key is <<"int", n>> or <<"name">> *)
(* followed by a name, the hash of an identifier; names are sequences.     *)
(*                                                                         *)
(* The text of a file is abstract: it is the tree of its JSON values.  A   *)
(* number that is not finite and a file that cannot be written or that the *)
(* user has edited are not modelled.                                       *)
(***************************************************************************)
EXTENDS Integers, Sequences

CONSTANTS
    Instances, \* the script instances: their directories
    Files,     \* names scripts give
    BadFiles,  \* those that begin with a slash or are too long
    Values,    \* values of the scripts
    MaxDepth,  \* containers in containers that are saved: 10 in the code
    MaxSaves,  \* bound: saves and removals
    None

VARIABLES
    saved,  \* the files, per instance and name, or None
    pushed, \* what FromJson has pushed last in an instance: [file, value, of]
    kept,   \* history: the values given to ToJson and not removed
    saves

vars == <<saved, pushed, kept, saves>>

Init ==
    /\ saved = [i \in Instances |-> [f \in Files |-> None]]
    /\ pushed = [i \in Instances |-> None]
    /\ kept = [i \in Instances |-> [f \in Files |-> None]]
    /\ saves = 0

NoValue == [t |-> "undefined"]
Null == [j |-> "null"]
Object(type, members) == [j |-> "object", type |-> type, members |-> members]

Over(items, F(_)) == [n \in DOMAIN items |-> F(items[n])]

\* An identifier that is no known notation is hashed with its prefix.
Hashed(key) == <<"hashed">> \o key

\* fnv1a::generate_hash_pattern: the notations it knows are read as numbers.
generate_hash_pattern(key) ==
    IF Head(key) \in {"hash_", "file_", "script_", "x64:"} THEN Tail(key) ELSE Hashed(key)

canon_hash_pattern(key) == IF Head(key) \in {"hash_", "var_"} THEN Tail(key) ELSE Hashed(key)

\* The text of a key of an array: a number, or "#" with a notation.
ArrayKey(key) == IF key[1] = "int" THEN key ELSE <<"#", "var_">> \o Tail(key)

\* Mutant: fields are written like the keys of arrays.
FieldKey_Array(key) == <<"#", "var_">> \o Tail(key)

FieldKey(key) == <<"var_">> \o Tail(key)

\* shield_to_json_val.  An undefined value, one that is too deep and one of a
\* wrong type leave the member as it was made, null; a pointer to something
\* else leaves an object without members.
RECURSIVE to_json_val(_, _)
to_json_val(val, depth) ==
    LET Members(Key(_)) ==
            Over(val.items, LAMBDA m : [key |-> Key(m.key), elem |-> to_json_val(m.val, depth + 1)])
        Field(name, text) == <<[key |-> name, elem |-> [j |-> "string", v |-> text]]>>
    IN IF depth >= MaxDepth THEN Null
       ELSE CASE val.t \in {"float", "int", "string"} -> [j |-> val.t, v |-> val.v]
              [] val.t = "vector" ->
                   Object("vector", <<[key |-> <<"xyz">>, elem |-> [j |-> "float", v |-> val.v]]>>)
              [] val.t = "hash"   -> Object("hash", Field(<<"hash">>, <<"hash_">> \o val.v))
              [] val.t = "array"  -> Object("array", Members(ArrayKey))
              [] val.t = "struct" -> Object(None, Members(FieldKey))
              [] val.t = "entity" -> Object(None, <<>>)
              [] OTHER -> Null

\* The key of a member of an array as it is read.
ReadArrayKey(key) ==
    IF key[1] = "#" THEN <<"name">> \o generate_hash_pattern(Tail(key)) ELSE key

\* shield_from_json_push_struct
RECURSIVE push_struct(_)
push_struct(member) ==
    LET Items(Key(_)) ==
            Over(member.members, LAMBDA m : [key |-> Key(m.key), val |-> push_struct(m.elem)])
    IN CASE member.j \in {"string", "float", "int"} -> [t |-> member.j, v |-> member.v]
         [] member.j = "null" -> NoValue
         [] OTHER ->
              CASE member.type = "array"  -> [t |-> "array", items |-> Items(ReadArrayKey)]
                [] member.type = "vector" -> [t |-> "vector", v |-> member.members[1].elem.v]
                [] member.type = "hash" ->
                     [t |-> "hash", v |-> generate_hash_pattern(member.members[1].elem.v)]
                [] OTHER -> [t |-> "struct",
                             items |-> Items(LAMBDA k : <<"name">> \o canon_hash_pattern(k))]

\* A script can also save what it has got back.
Given(i) == Values \cup (IF pushed[i] = None \/ pushed[i].value = None THEN {} ELSE {pushed[i].value})

\* shield_to_json with a value.
ToJson(i, file) ==
    /\ saves < MaxSaves /\ saves' = saves + 1
    /\ \E val \in Given(i) \ {NoValue} :
         IF file \in BadFiles THEN UNCHANGED <<saved, kept>>
         ELSE /\ saved' = [saved EXCEPT ![i][file] = to_json_val(val, 0)]
              /\ kept' = [kept EXCEPT ![i][file] = val]
    /\ UNCHANGED pushed

\* shield_to_json without a value, or with undefined, and
\* shield_remove_json: the file is removed.
RemoveJson(i, file) ==
    /\ saves < MaxSaves /\ saves' = saves + 1
    /\ IF file \in BadFiles THEN UNCHANGED <<saved, kept>>
       ELSE saved' = [saved EXCEPT ![i][file] = None] /\ kept' = [kept EXCEPT ![i][file] = None]
    /\ UNCHANGED pushed

\* shield_from_json: nothing is pushed for a name that is refused or a file
\* that is not there.
FromJson(i, file) ==
    /\ pushed' = [pushed EXCEPT ![i] =
         [file |-> file, of |-> kept[i][file],
          value |-> IF file \in BadFiles \/ saved[i][file] = None THEN None
                    ELSE push_struct(saved[i][file])]]
    /\ UNCHANGED <<saved, kept, saves>>

Next == \E i \in Instances, file \in Files :
            ToJson(i, file) \/ RemoveJson(i, file) \/ FromJson(i, file)

Spec == Init /\ [][Next]_vars

------------------------------------------------------------------------------
(* Properties *)

\* What a value is expected to be after it was saved and restored: the names
\* of arrays' keys do not survive, an entity becomes an empty struct, and what
\* cannot be saved or is too deep becomes undefined.
RECURSIVE Restored(_, _)
Restored(val, depth) ==
    CASE depth = 0 -> NoValue
      [] val.t \in {"undefined", "function"} -> NoValue
      [] val.t = "entity" -> [t |-> "struct", items |-> <<>>]
      [] val.t \in {"array", "struct"} ->
           [val EXCEPT !.items = Over(@, LAMBDA m :
              [key |-> IF val.t = "array" /\ m.key[1] = "name"
                         THEN <<"name", "hashed", "var_">> \o Tail(m.key) ELSE m.key,
               val |-> Restored(m.val, depth - 1)])]
      [] OTHER -> val

\* A script gets back what its own virtual machine has saved last under a
\* name, with all its members in place and of their types, and nothing if that was
\* removed, whatever the other machine saves under the same name.
SavedIsRestored ==
    \A i \in Instances :
        pushed[i] # None =>
            pushed[i].value = IF pushed[i].of = None THEN None
                              ELSE Restored(pushed[i].of, MaxDepth)
===============================================================================
